---------------------------- MODULE Settings_proofs ----------------------------
(***************************************************************************)
(* Proofs about Settings, for any handlers, life of the copies, delay and  *)
(* number of writes; and about the forms that show the settings and the    *)
(* other records (Panel), for any pages, fields of others and bounds.      *)
(*                                                                         *)
(* What the readers of both workers are promised, and that maintenance     *)
(* mode comes to hold, rest on one account of time: what was read from D1  *)
(* is no older than its reader has waited, so a copy's age and what is     *)
(* left of its life fit into Ttl + MaxDelay, and whoever took the copy     *)
(* holds it for MaxDelay more.  A writer that has passed the guard has a   *)
(* version to show for it, without maintenance, of such an age.            *)
(*                                                                         *)
(* The forms rest on an account of what each copy misses: what it does not *)
(* miss is as in the record, what has not been typed is as in the copy,    *)
(* and so what a save writes back unedited is what is stored.              *)
(***************************************************************************)
EXTENDS MCPanel, TLAPS

Handler ==
    [pc : {"idle", "put", "guard", "write", "purge", "reload", "reput", "answer", "edge"},
     op : {"none", "patch", "restore", "put", "setup"}, auth : {"none", "super_admin", "admin"},
     v : Versions \cup {None}, sets : 0 .. 2, wait : 0 .. MaxDelay]

Copies == [{"panel", "edge"} -> [v : Versions, ttl : 1 .. Ttl] \cup {NoCopy}]
Causes == SUBSET {"late put", "setup lost", "failed delete", "aborted"}

(* Age that the version in a copy may have by the end of the copy's life. *)
Life == Ttl + MaxDelay

(* Version v may be what a handler goes by that has waited for w. *)
Recent(v, w) == v \in 0 .. cur /\ age[v] <= Life + w

(* requireAuth has set the role of who writes, unless it is a setup. *)
Signed(q) == IF q.op = "setup" THEN q.auth = "none" ELSE q.auth \in Roles

(* What handler q carries, by where it is. *)
Knows(q) ==
    /\ q.pc \in {"put", "reput", "edge"} => q.v \in 0 .. cur /\ age[q.v] <= q.wait
    /\ q.pc \in {"guard", "answer"} => Recent(q.v, q.wait)
    /\ q.pc \in {"idle", "put", "guard"} => q.auth = "none"
    /\ q.pc \in {"write", "purge"} =>
          /\ q.sets \in 1 .. 2 /\ Signed(q)
          /\ \E v \in 0 .. cur : Recent(v, q.wait) /\ ~maint[v]

(* Age and what is left of a copy's life add up. *)
Timely ==
    /\ age[cur] = 0
    /\ \A k \in {"panel", "edge"} :
          kv[k].v \in Versions => kv[k].v <= cur /\ age[kv[k].v] + kv[k].ttl <= Life

IInv ==
    /\ TypeOK
    /\ req \in [Reqs -> Handler]
    /\ \A r \in Reqs : Knows(req[r])
    /\ Timely
    /\ StaleCopyOnlyByRace

USE DEF Signed, Roles
-----------------------------------------------------------------------------
(* Facts about numbers and records.                                        *)

LEMMA Numbers ==
  /\ MaxDelay \in Nat /\ Ttl \in Nat \ {0} /\ MaxVersion \in Nat
  /\ Life \in Nat /\ Window \in Nat /\ Window = Life + MaxDelay /\ None \notin Versions
  BY ConstantsAssumption DEF Life, Window, None, Versions

LEMMA IdleHandler == Idle \in Handler /\ Idle.pc = "idle" /\ Idle.auth = "none" /\ Idle.wait = 0
  BY Numbers DEF Idle, Handler

LEMMA IdleKnows == Knows(Idle) /\ Knows(Idle)'
  BY IdleHandler DEF Knows

LEMMA NoCopies == NoCopy.v \notin Versions
  BY Numbers DEF NoCopy

LEMMA OpsAre ==
  ASSUME NEW op \in DOMAIN Ops
  PROVE  op \in {"patch", "restore", "put", "setup"} /\ Ops[op] \in 1 .. 2
  BY DEF Ops

LEMMA VersionsAre ==
  ASSUME NEW v
  PROVE  v \in Versions <=> v \in Nat /\ v <= MaxVersion
  BY Numbers DEF Versions

LEMMA Earlier ==
  ASSUME NEW v \in Versions, NEW w \in Versions, v <= w
  PROVE  v \in Nat /\ w \in Nat /\ 0 .. v \subseteq 0 .. w /\ 0 .. w \subseteq Versions
  BY Numbers DEF Versions

LEMMA Current ==
  ASSUME IInv
  PROVE  /\ cur \in Versions /\ cur \in Nat /\ 0 .. cur \subseteq Versions
         /\ age \in [Versions -> 0 .. Window + 1] /\ maint \in [Versions -> BOOLEAN]
         /\ open \in BOOLEAN
         /\ kv \in Copies
         /\ lost \in Causes
         /\ req \in [Reqs -> Handler]
<1>1. /\ cur \in Versions /\ age \in [Versions -> 0 .. Window + 1]
      /\ maint \in [Versions -> BOOLEAN] /\ open \in BOOLEAN
      /\ kv \in Copies
      /\ lost \in Causes
      /\ req \in [Reqs -> Handler]
  BY DEF IInv, TypeOK, Copies, Causes
<1>2. cur \in Versions
  BY <1>1
<1>3. cur \in Nat /\ 0 .. cur \subseteq Versions
  BY <1>2, Earlier, VersionsAre
<1> QED
  BY <1>1, <1>3

(* To where Goto goes, everything is taken along. *)
LEMMA GotoIs ==
  ASSUME IInv, NEW r \in Reqs, NEW pc \in {"guard", "answer", "purge"}, Goto(r, pc)
  PROVE  \E v \in Handler :
            /\ req' = [req EXCEPT ![r] = v]
            /\ v.pc = pc /\ v.v = req[r].v /\ v.wait = req[r].wait /\ v.auth = req[r].auth
            /\ v.op = req[r].op /\ v.sets = req[r].sets
<1> DEFINE v == [req[r] EXCEPT !.pc = pc]
<1>1. req[r] \in Handler
  BY DEF IInv
<1>2. /\ v \in Handler
      /\ v.pc = pc /\ v.v = req[r].v /\ v.wait = req[r].wait /\ v.auth = req[r].auth
      /\ v.op = req[r].op /\ v.sets = req[r].sets
  BY <1>1 DEF Handler
<1>3. req' = [req EXCEPT ![r] = v]
  BY DEF Goto
<1> QED
  BY <1>2, <1>3

(* What is written later does not change what is known of a version. *)
Written ==
    /\ cur' \in Versions /\ cur <= cur'
    /\ \A v \in 0 .. cur : age'[v] = age[v] /\ maint'[v] = maint[v]

LEMMA KnowsKept ==
  ASSUME IInv, NEW q \in Handler, Knows(q), Written
  PROVE  Knows(q)'
<1>1. cur \in Versions /\ cur' \in Versions /\ cur <= cur'
  BY Current DEF Written
<1>2. 0 .. cur \subseteq 0 .. cur'
  BY <1>1, Earlier
<1>3. \A v \in 0 .. cur : Recent(v, q.wait) => Recent(v, q.wait)'
  BY <1>2 DEF Recent, Written
<1>4. q.pc \in {"put", "reput", "edge"} => q.v \in 0 .. cur' /\ age'[q.v] <= q.wait
  BY <1>2 DEF Knows, Written
<1>5. q.pc \in {"guard", "answer"} => Recent(q.v, q.wait)'
  BY <1>3 DEF Knows, Recent
<1>6. ASSUME q.pc \in {"write", "purge"}
      PROVE  /\ q.sets \in 1 .. 2 /\ Signed(q)
             /\ \E v \in 0 .. cur' : Recent(v, q.wait)' /\ ~maint'[v]
  <2>1. PICK v \in 0 .. cur : Recent(v, q.wait) /\ ~maint[v]
    BY <1>6 DEF Knows
  <2>2. v \in 0 .. cur' /\ Recent(v, q.wait)' /\ ~maint'[v]
    BY <1>2, <1>3, <2>1 DEF Written
  <2> QED
    BY <1>6, <2>2 DEF Knows
<1> QED
  BY <1>4, <1>5, <1>6 DEF Knows

(* What is left to show of a handler's step. *)
LEMMA Step ==
  ASSUME IInv, NEW r \in Reqs, NEW v \in Handler, Knows(v)', req' = [req EXCEPT ![r] = v],
         Written, maint' \in [Versions -> BOOLEAN], open' \in BOOLEAN,
         kv' \in Copies,
         served' \in Versions \cup {None}, age' \in [Versions -> 0 .. Window + 1],
         lost' \in Causes,
         Timely', StaleCopyOnlyByRace'
  PROVE  IInv'
<1>1. req \in [Reqs -> Handler]
  BY DEF IInv
<1>2. req' \in [Reqs -> Handler] /\ req'[r] = v /\ \A x \in Reqs \ {r} : req'[x] = req[x]
  BY <1>1
<1>3. ASSUME NEW x \in Reqs PROVE Knows(req[x])'
  <2>1. CASE x = r
    BY <1>2, <2>1 DEF Knows, Recent
  <2>2. CASE x # r
    <3>1. PICK q \in Handler : q = req[x]
      BY <1>1
    <3>2. Knows(q) /\ req'[x] = q
      BY <1>2, <2>2, <3>1 DEF IInv, Knows
    <3>3. Knows(q)'
      BY <3>2, KnowsKept
    <3>4. req'[x] = q
      BY <3>2
    <3> QED
      BY <3>3, <3>4 DEF Knows, Recent
  <2> QED
    BY <2>1, <2>2
<1>4. ASSUME NEW x \in Reqs
      PROVE  /\ req'[x].pc \in {"idle", "put", "guard", "write", "purge", "reload", "reput",
                                "answer", "edge"}
             /\ req'[x].wait \in 0 .. MaxDelay
             /\ req'[x].pc \in {"write", "purge"} =>
                  req'[x].sets \in 1 .. 2 /\ Signed(req'[x])
  <2>1. req'[x] \in Handler
    BY <1>2
  <2>2. req'[x].pc \in {"write", "purge"} =>
           req'[x].sets \in 1 .. 2 /\ Signed(req'[x])
    BY <1>3 DEF Knows
  <2> QED
    BY <2>1, <2>2 DEF Handler
<1>5. TypeOK'
  BY <1>4 DEF TypeOK, Written, Copies, Causes
<1> QED
  BY <1>2, <1>3, <1>5 DEF IInv

(* A step that leaves D1 alone, and lets no writer off a delete. *)
LEMMA QuietStep ==
  ASSUME IInv, NEW r \in Reqs, NEW v \in Handler, Knows(v), req' = [req EXCEPT ![r] = v],
         UNCHANGED <<cur, maint, open, age>>,
         \/ UNCHANGED <<kv, lost>> /\ ~Purging(r)
         \/ /\ kv' \in Copies
            /\ lost' \in Causes
            /\ Timely' /\ StaleCopyOnlyByRace',
         served' \in Versions \cup {None}
  PROVE  IInv'
<1>1. Written
  <2>1. cur \in Nat /\ cur \in Versions
    BY Current
  <2> QED
    BY <2>1 DEF Written
<1>2. Knows(v)'
  BY <1>1, KnowsKept
<1>3. /\ kv' \in Copies
      /\ lost' \in Causes
  BY Current
<1>4. Timely'
  BY DEF IInv, Timely
<1>5. StaleCopyOnlyByRace'
  <2>1. \A x \in Reqs \ {r} : req'[x] = req[x]
    OBVIOUS
  <2>2. ASSUME UNCHANGED <<kv, lost>>, ~Purging(r) PROVE StaleCopyOnlyByRace'
    BY <2>1, <2>2 DEF IInv, StaleCopyOnlyByRace, Purging
  <2> QED
    BY <2>2
<1>6. maint' \in [Versions -> BOOLEAN] /\ open' \in BOOLEAN /\ age' \in [Versions -> 0 .. Window + 1]
  BY Current
<1> QED
  BY <1>1, <1>2, <1>3, <1>4, <1>5, <1>6, Step

-----------------------------------------------------------------------------
(* Facts about the copies.                                                 *)

(* Whoever takes a copy goes by a recent version. *)
LEMMA CopyIsRecent ==
  ASSUME IInv, NEW k \in {"panel", "edge"}, kv[k] # NoCopy
  PROVE  /\ kv[k].v \in 0 .. cur /\ kv[k].v \in Versions /\ age[kv[k].v] <= Window
         /\ \A w \in Nat : Recent(kv[k].v, w)
<1>1. kv[k] \in [v : Versions, ttl : 1 .. Ttl]
  BY Current DEF Copies
<1>2. kv[k].v \in Versions /\ kv[k].ttl \in 1 .. Ttl
  BY <1>1
<1>3. kv[k].v <= cur /\ age[kv[k].v] + kv[k].ttl <= Life
  BY <1>2 DEF IInv, Timely
<1>4. kv[k].v \in Nat /\ cur \in Nat
  BY <1>2, Current, VersionsAre
<1>5. kv[k].v \in 0 .. cur
  BY <1>3, <1>4
<1>6. age[kv[k].v] \in 0 .. Window + 1
  BY <1>2, Current
<1>7. age[kv[k].v] <= Life
  BY <1>2, <1>3, <1>6, Numbers
<1>8. age[kv[k].v] <= Window
  BY <1>6, <1>7, Numbers
<1> QED
  BY <1>2, <1>5, <1>6, <1>7, <1>8, Numbers DEF Recent

(* A copy of what is no older than a handler may wait. *)
LEMMA FreshCopy ==
  ASSUME IInv, NEW k \in {"panel", "edge"}, NEW w \in 0 .. cur, age[w] <= MaxDelay,
         PutCopy(k, w), UNCHANGED <<cur, age>>
  PROVE  /\ kv' \in Copies /\ Timely' /\ kv'[k].v = w
         /\ \A l \in {"panel", "edge"} : l # k => kv'[l] = kv[l]
<1> DEFINE new == [v |-> w, ttl |-> Ttl]
<1>1. w \in Versions /\ w <= cur
  BY Current
<1>2. new \in [v : Versions, ttl : 1 .. Ttl] /\ new.v = w /\ new.ttl = Ttl
  BY <1>1, Numbers
<1>3. kv \in Copies /\ kv' = [kv EXCEPT ![k] = new]
  BY Current DEF PutCopy
<1> HIDE DEF new
<1>4. kv' \in Copies /\ \A l \in {"panel", "edge"} : kv'[l] = IF l = k THEN new ELSE kv[l]
  BY <1>2, <1>3 DEF Copies
<1>5. age[w] + Ttl <= Life
  <2>1. age[w] \in 0 .. Window + 1
    BY <1>1, Current
  <2> QED
    BY <2>1, Numbers DEF Life
<1>6. Timely'
  BY <1>1, <1>2, <1>4, <1>5 DEF IInv, Timely
<1> QED
  BY <1>2, <1>4, <1>6

(* The other key's copy stands, and the purging too. *)
LEMMA PanelKept ==
  ASSUME IInv, kv'["panel"] = kv["panel"], cur' = cur, lost' = lost,
         \A x \in Reqs : Purging(x) => Purging(x)'
  PROVE  StaleCopyOnlyByRace'
  BY DEF IInv, StaleCopyOnlyByRace

-----------------------------------------------------------------------------
(* SettingsService.load, and those who go by what it gave.                 *)

LEMMA LoadHitStep ==
  ASSUME IInv, NEW r \in Reqs, LoadHit(r)
  PROVE  IInv'
<1> DEFINE pc == Loaded(r)
           w == [req[r] EXCEPT !.pc = pc, !.v = kv["panel"].v]
<1>1. /\ req[r].pc \in {"idle", "reload"} /\ kv["panel"] # NoCopy /\ req' = [req EXCEPT ![r] = w]
      /\ UNCHANGED <<cur, maint, open, kv, age, lost>> /\ served' = None
  BY DEF LoadHit, Loading
<1>2. req[r] \in Handler /\ Knows(req[r])
  BY DEF IInv
<1>3. kv["panel"].v \in Versions /\ \A x \in Nat : Recent(kv["panel"].v, x)
  BY <1>1, CopyIsRecent
<1>4. pc \in {"guard", "answer"} /\ (pc = "guard" => req[r].pc = "idle")
  BY DEF Loaded
<1> HIDE DEF pc
<1>5. /\ w \in Handler
      /\ w.pc = pc /\ w.v = kv["panel"].v /\ w.wait = req[r].wait /\ w.auth = req[r].auth
  BY <1>2, <1>3, <1>4 DEF Handler
<1>6. w.wait \in Nat
  BY <1>2, <1>5, Numbers DEF Handler
<1> HIDE DEF w
<1>7. Knows(w)
  BY <1>2, <1>3, <1>4, <1>5, <1>6 DEF Knows
<1> QED
  BY <1>1, <1>5, <1>7, QuietStep DEF Purging

LEMMA LoadRowsStep ==
  ASSUME IInv, NEW r \in Reqs, LoadRows(r) \/ EdgeRead(r)
  PROVE  IInv'
<1>1. PICK pc \in {"put", "reput", "edge"} :
        /\ req' = [req EXCEPT ![r] = [req[r] EXCEPT !.pc = pc, !.v = cur]]
        /\ req[r].pc \in {"idle", "reload"} /\ (pc = "put" => req[r].pc = "idle")
  BY DEF LoadRows, EdgeRead, Loading
<1>2. UNCHANGED <<cur, maint, open, kv, age, lost>> /\ served' = None
  BY DEF LoadRows, EdgeRead
<1> DEFINE w == [req[r] EXCEPT !.pc = pc, !.v = cur]
<1>3. req[r] \in Handler /\ Knows(req[r]) /\ age[cur] = 0
  BY DEF IInv, Timely
<1>4. cur \in Versions /\ cur \in 0 .. cur
  BY Current
<1>5. w \in Handler /\ w.pc = pc /\ w.v = cur /\ w.wait = req[r].wait /\ w.auth = req[r].auth
  BY <1>3, <1>4 DEF Handler
<1>6. w.wait \in Nat
  BY <1>3, <1>5, Numbers DEF Handler
<1>7. req' = [req EXCEPT ![r] = w]
  BY <1>1
<1> HIDE DEF w
<1>8. Knows(w)
  BY <1>1, <1>3, <1>4, <1>5, <1>6 DEF Knows
<1> QED
  BY <1>1, <1>2, <1>5, <1>7, <1>8, QuietStep DEF Purging

LEMMA PutStep ==
  ASSUME IInv, NEW r \in Reqs, Put(r)
  PROVE  IInv'
<1>1. /\ req[r].pc \in {"put", "reput"} /\ UNCHANGED <<cur, maint, open, age>> /\ served' = None
      /\ Goto(r, IF req[r].pc = "put" THEN "guard" ELSE "answer")
  BY DEF Put
<1>2. req[r] \in Handler /\ Knows(req[r]) /\ req[r].wait \in 0 .. MaxDelay
  BY DEF IInv, Handler
<1>3. req[r].v \in 0 .. cur /\ age[req[r].v] <= req[r].wait
  BY <1>1, <1>2 DEF Knows
<1>4. age[req[r].v] \in 0 .. Window + 1
  BY <1>3, Current
<1>5. Recent(req[r].v, req[r].wait)
  BY <1>2, <1>3, <1>4, Numbers DEF Recent
<1>6. PICK v \in Handler :
        /\ req' = [req EXCEPT ![r] = v]
        /\ v.pc = (IF req[r].pc = "put" THEN "guard" ELSE "answer")
        /\ v.v = req[r].v /\ v.wait = req[r].wait /\ v.auth = req[r].auth
  BY <1>1, GotoIs
<1>7. Knows(v)
  BY <1>1, <1>2, <1>5, <1>6 DEF Knows
<1>8. CASE UNCHANGED <<kv, lost>>
  BY <1>1, <1>6, <1>7, <1>8, QuietStep DEF Purging
<1>9. CASE /\ PutCopy("panel", req[r].v)
           /\ lost' = IF req[r].v = cur \/ \E q \in Reqs : Purging(q) THEN {} ELSE {"late put"}
  <2>1. age[req[r].v] <= MaxDelay
    BY <1>2, <1>3, <1>4, Numbers
  <2>2. kv' \in Copies /\ Timely' /\ kv'["panel"].v = req[r].v
    BY <1>1, <1>3, <1>9, <2>1, FreshCopy
  <2>3. lost' \in Causes
    BY <1>9 DEF Causes
  <2>4. \A x \in Reqs : Purging(x) => Purging(x)'
    BY <1>1, <1>6 DEF Purging
  <2>5. StaleCopyOnlyByRace'
    BY <1>1, <1>9, <2>2, <2>4 DEF StaleCopyOnlyByRace
  <2> QED
    BY <1>1, <1>6, <1>7, <2>2, <2>3, <2>5, QuietStep
<1> QED
  BY <1>8, <1>9 DEF Put

LEMMA ServeStep ==
  ASSUME IInv, NEW r \in Reqs, Serve(r)
  PROVE  IInv' /\ req[r].v \in Versions /\ age[req[r].v] <= Window
<1>1. /\ req[r].pc \in {"guard", "answer"} /\ served' = req[r].v /\ req' = [req EXCEPT ![r] = Idle]
      /\ UNCHANGED <<cur, maint, open, kv, age, lost>>
  BY DEF Serve, Return
<1>2. req[r] \in Handler /\ Recent(req[r].v, req[r].wait) /\ req[r].wait \in 0 .. MaxDelay
  BY <1>1 DEF IInv, Knows, Handler
<1>3. req[r].v \in Versions
  BY <1>2, Current DEF Recent
<1>4. age[req[r].v] \in 0 .. Window + 1
  BY <1>3, Current
<1>5. age[req[r].v] <= Window
  BY <1>2, <1>4, Numbers DEF Recent
<1> QED
  BY <1>1, <1>3, <1>5, IdleHandler, IdleKnows, QuietStep DEF Purging

-----------------------------------------------------------------------------
(* Writers.                                                                *)

LEMMA GuardStep ==
  ASSUME IInv, NEW r \in Reqs, NEW op \in DOMAIN Ops, NEW role \in Roles, Guard(r, op, role)
  PROVE  IInv'
<1>1. /\ req[r].pc = "guard" /\ UNCHANGED <<cur, maint, open, kv, age, lost>> /\ served' = None
  BY DEF Guard
<1>2. req[r] \in Handler /\ Recent(req[r].v, req[r].wait) /\ req[r].auth = "none"
  BY <1>1 DEF IInv, Knows
<1>3. CASE maint[req[r].v]
  <2>1. req' = [req EXCEPT ![r] = Idle]
    BY <1>2, <1>3 DEF Guard, Exempt, Return
  <2> QED
    BY <1>1, <2>1, IdleHandler, IdleKnows, QuietStep DEF Purging
<1>4. CASE ~maint[req[r].v]
  <2> DEFINE b == IF op = "setup" THEN "none" ELSE role
             n == Ops[op]
             w == [req[r] EXCEPT !.pc = "write", !.op = op, !.sets = n, !.auth = b]
  <2>1. req' = [req EXCEPT ![r] = w] /\ b \in {"none", "super_admin", "admin"}
    BY <1>4 DEF Guard, Roles
  <2>2. (IF op = "setup" THEN b = "none" ELSE b \in Roles) /\ op \in {"patch", "restore", "put", "setup"} /\ n \in 1 .. 2
    BY OpsAre
  <2> HIDE DEF b, n
  <2>3. /\ w \in Handler
        /\ w.pc = "write" /\ w.op = op /\ w.sets \in 1 .. 2 /\ w.auth = b
        /\ w.v = req[r].v /\ w.wait = req[r].wait
    <3>1. n \in 0 .. 2
      BY <2>2
    <3>2. w \in Handler
      BY <1>2, <2>1, <2>2, <3>1 DEF Handler
    <3>3. /\ w.pc = "write" /\ w.op = op /\ w.sets = n /\ w.auth = b
          /\ w.v = req[r].v /\ w.wait = req[r].wait
      BY <1>2 DEF Handler
    <3> QED
      BY <2>2, <3>2, <3>3
  <2> HIDE DEF w
  <2>4. \E v \in 0 .. cur : Recent(v, w.wait) /\ ~maint[v]
    BY <1>2, <1>4, <2>3 DEF Recent
  <2>5. Knows(w)
    BY <2>2, <2>3, <2>4 DEF Knows, Signed
  <2> QED
    BY <1>1, <2>1, <2>3, <2>5, QuietStep DEF Purging
<1> QED
  BY <1>3, <1>4


LEMMA VersionStep ==
  ASSUME IInv, NEW on \in BOOLEAN, NewVersion(on), kv' = kv
  PROVE  /\ Written /\ Timely' /\ cur' # cur
         /\ maint' \in [Versions -> BOOLEAN] /\ age' \in [Versions -> 0 .. Window + 1]
<1>1. /\ cur < MaxVersion /\ cur' = cur + 1
      /\ maint' = [maint EXCEPT ![cur + 1] = on]
      /\ age' = [age EXCEPT ![cur + 1] = 0]
  BY DEF NewVersion
<1>2. cur \in Nat /\ cur \in Versions
  BY Current
<1>3. cur + 1 \in Versions /\ cur + 1 \in Nat /\ cur <= cur + 1 /\ cur + 1 # cur
  BY <1>1, <1>2, Numbers DEF Versions
<1>4. /\ maint' \in [Versions -> BOOLEAN]
      /\ \A v \in Versions : v # cur + 1 => maint'[v] = maint[v]
  BY <1>1, Current
<1>5. 0 \in 0 .. Window + 1
  BY Numbers
<1>6. age \in [Versions -> 0 .. Window + 1]
  BY Current
<1>7. /\ age' \in [Versions -> 0 .. Window + 1] /\ age'[cur + 1] = 0
      /\ \A v \in Versions : v # cur + 1 => age'[v] = age[v]
  BY <1>1, <1>3, <1>5, <1>6
<1>8. \A v \in 0 .. cur : v \in Versions /\ v # cur + 1
  BY <1>2, Current
<1>9. Written
  BY <1>1, <1>3, <1>4, <1>7, <1>8 DEF Written
<1>10. Timely'
  <2> SUFFICES ASSUME NEW k \in {"panel", "edge"}, kv[k].v \in Versions
               PROVE  kv[k].v <= cur + 1 /\ age'[kv[k].v] + kv[k].ttl <= Life
    BY <1>1, <1>7 DEF Timely
  <2>1. kv[k].v <= cur /\ age[kv[k].v] + kv[k].ttl <= Life
    BY DEF IInv, Timely
  <2>2. kv[k].v \in Nat
    BY VersionsAre
  <2>3. kv[k].v \in 0 .. cur /\ kv[k].v <= cur + 1
    BY <1>2, <2>1, <2>2
  <2>4. age'[kv[k].v] = age[kv[k].v]
    BY <1>7, <1>8, <2>3
  <2> QED
    BY <2>1, <2>3, <2>4
<1> QED
  BY <1>1, <1>3, <1>4, <1>7, <1>9, <1>10

LEMMA WriteStep ==
  ASSUME IInv, NEW r \in Reqs, NEW on \in BOOLEAN, Write(r, on)
  PROVE  IInv'
<1>1. req[r].pc = "write" /\ NewVersion(on) /\ served' = None /\ kv' = kv
  BY DEF Write
<1>2. /\ Written /\ Timely'
      /\ maint' \in [Versions -> BOOLEAN] /\ age' \in [Versions -> 0 .. Window + 1]
  BY <1>1, VersionStep
<1>3. kv' \in Copies /\ open \in BOOLEAN /\ lost \in Causes
  BY <1>1, Current
<1>4. CASE req[r].op = "setup" /\ ~open
  <2>1. req' = [req EXCEPT ![r] = Idle] /\ lost' = {"setup lost"} /\ open' = open
    BY <1>4 DEF Write, Return
  <2>2. StaleCopyOnlyByRace' /\ lost' \in Causes
    BY <2>1 DEF StaleCopyOnlyByRace, Causes
  <2> QED
    BY <1>1, <1>2, <1>3, <2>1, <2>2, IdleHandler, IdleKnows, Step
<1>5. CASE ~(req[r].op = "setup" /\ ~open)
  <2>1. Goto(r, "purge") /\ open' = (open /\ req[r].op # "setup") /\ lost' = lost
    BY <1>5 DEF Write
  <2>2. PICK v \in Handler :
          /\ req' = [req EXCEPT ![r] = v]
          /\ v.pc = "purge" /\ v.v = req[r].v /\ v.wait = req[r].wait /\ v.auth = req[r].auth
          /\ v.op = req[r].op /\ v.sets = req[r].sets
    BY <2>1, GotoIs
  <2>3. Knows(req[r])
    BY DEF IInv
  <2>4. Knows(v)
    BY <1>1, <2>2, <2>3 DEF Knows
  <2>5. Knows(v)'
    BY <1>2, <2>4, KnowsKept
  <2>6. req'[r] = v
    BY <2>2, Current
  <2>7. Purging(r)'
    BY <2>2, <2>6 DEF Purging
  <2>8. StaleCopyOnlyByRace'
    BY <2>7 DEF StaleCopyOnlyByRace
  <2>9. open' \in BOOLEAN
    BY <2>1
  <2> QED
    BY <1>1, <1>2, <1>3, <2>1, <2>2, <2>5, <2>8, <2>9, Step
<1> QED
  BY <1>4, <1>5

LEMMA InvalidateStep ==
  ASSUME IInv, NEW r \in Reqs, Invalidate(r)
  PROVE  IInv'
<1>1. req[r].pc = "purge" /\ UNCHANGED <<cur, maint, open, age>> /\ served' = None
  BY DEF Invalidate
<1>2. \/ kv' = [kv EXCEPT !["panel"] = NoCopy] /\ lost' = {}
      \/ kv' = kv /\ lost' = {"failed delete"}
  BY DEF Invalidate
<1>3. kv \in Copies
  BY Current
<1>4. kv' \in Copies /\ lost' \in Causes
  BY <1>2, <1>3 DEF Copies, Causes
<1>5. Timely'
  <2>1. CASE kv' = kv
    BY <1>1, <2>1 DEF IInv, Timely
  <2>2. CASE kv' = [kv EXCEPT !["panel"] = NoCopy]
    <3>1. \A k \in {"panel", "edge"} : kv'[k] = IF k = "panel" THEN NoCopy ELSE kv[k]
      BY <1>3, <2>2 DEF Copies
    <3> QED
      BY <1>1, <3>1, NoCopies DEF IInv, Timely
  <2> QED
    BY <1>2, <2>1, <2>2
<1>6. StaleCopyOnlyByRace'
  <2>1. CASE lost' = {"failed delete"}
    BY <2>1 DEF StaleCopyOnlyByRace
  <2>2. CASE kv' = [kv EXCEPT !["panel"] = NoCopy]
    <3>1. kv'["panel"] = NoCopy
      BY <1>3, <2>2 DEF Copies
    <3> QED
      BY <3>1, NoCopies DEF StaleCopyOnlyByRace
  <2> QED
    BY <1>2, <2>1, <2>2
<1>7. req[r] \in Handler /\ Knows(req[r])
  BY DEF IInv
<1>8. CASE req[r].sets > 1
  <2> DEFINE n == req[r].sets - 1
             w == [req[r] EXCEPT !.pc = "write", !.sets = n, !.v = None]
  <2>1. req' = [req EXCEPT ![r] = w]
    BY <1>8 DEF Invalidate
  <2>2. n \in 1 .. 2 /\ n \in 0 .. 2
    BY <1>1, <1>7, <1>8 DEF Knows
  <2> HIDE DEF n
  <2>3. /\ w \in Handler
        /\ w.pc = "write" /\ w.op = req[r].op /\ w.sets = n /\ w.auth = req[r].auth
        /\ w.wait = req[r].wait
    BY <1>7, <2>2 DEF Handler
  <2> HIDE DEF w
  <2>4. Knows(w)
    BY <1>1, <1>7, <2>2, <2>3 DEF Knows
  <2> QED
    BY <1>1, <1>4, <1>5, <1>6, <2>1, <2>3, <2>4, QuietStep
<1>9. CASE ~(req[r].sets > 1) /\ req[r].op = "patch"
  <2> DEFINE w == [Idle EXCEPT !.pc = "reload", !.wait = req[r].wait]
  <2>1. req' = [req EXCEPT ![r] = w]
    BY <1>9 DEF Invalidate
  <2>2. w \in Handler /\ w.pc = "reload"
    BY <1>7, IdleHandler DEF Handler
  <2> HIDE DEF w
  <2>3. Knows(w)
    BY <2>2 DEF Knows
  <2> QED
    BY <1>1, <1>4, <1>5, <1>6, <2>1, <2>2, <2>3, QuietStep
<1>10. CASE ~(req[r].sets > 1) /\ req[r].op # "patch"
  <2>1. req' = [req EXCEPT ![r] = Idle]
    BY <1>10 DEF Invalidate, Return
  <2> QED
    BY <1>1, <1>4, <1>5, <1>6, <2>1, IdleHandler, IdleKnows, QuietStep
<1> QED
  BY <1>8, <1>9, <1>10

LEMMA AbortStep ==
  ASSUME IInv, NEW r \in Reqs, Abort(r)
  PROVE  IInv'
<1>1. /\ req' = [req EXCEPT ![r] = Idle] /\ UNCHANGED <<cur, maint, open, kv, age>>
      /\ lost' = (IF Purging(r) THEN {"aborted"} ELSE lost) /\ served' = None
  BY DEF Abort, Return
<1>2. CASE ~Purging(r)
  BY <1>1, <1>2, IdleHandler, IdleKnows, QuietStep
<1>3. CASE Purging(r)
  <2>1. lost' = {"aborted"}
    BY <1>1, <1>3
  <2>2. StaleCopyOnlyByRace' /\ lost' \in Causes
    BY <2>1 DEF StaleCopyOnlyByRace, Causes
  <2>3. kv' \in Copies /\ Timely'
    BY <1>1, Current DEF IInv, Timely
  <2> QED
    BY <1>1, <2>2, <2>3, IdleHandler, IdleKnows, QuietStep
<1> QED
  BY <1>2, <1>3

-----------------------------------------------------------------------------
(* The edge.                                                               *)

LEMMA EdgePutStep ==
  ASSUME IInv, NEW r \in Reqs, EdgePut(r)
  PROVE  IInv' /\ req[r].v \in Versions /\ age[req[r].v] <= Window
<1>1. /\ req[r].pc = "edge" /\ served' = req[r].v /\ req' = [req EXCEPT ![r] = Idle]
      /\ UNCHANGED <<cur, maint, open, age, lost>>
      /\ PutCopy("edge", req[r].v) \/ kv' = kv
  BY DEF EdgePut, Return
<1>2. /\ req[r].v \in 0 .. cur /\ age[req[r].v] <= req[r].wait /\ req[r].wait \in 0 .. MaxDelay
  BY <1>1 DEF IInv, Knows, Handler
<1>3. req[r].v \in Versions
  BY <1>2, Current
<1>4. age[req[r].v] \in 0 .. Window + 1
  BY <1>3, Current
<1>5. age[req[r].v] <= MaxDelay /\ age[req[r].v] <= Window
  BY <1>2, <1>4, Numbers
<1>6. ~Purging(r) /\ \A x \in Reqs : Purging(x) => Purging(x)'
  BY <1>1 DEF Purging
<1>7. CASE kv' = kv
  BY <1>1, <1>3, <1>5, <1>6, <1>7, IdleHandler, IdleKnows, QuietStep
<1>8. CASE PutCopy("edge", req[r].v)
  <2>1. kv' \in Copies /\ Timely' /\ kv'["panel"] = kv["panel"]
    BY <1>1, <1>2, <1>5, <1>8, FreshCopy
  <2>2. StaleCopyOnlyByRace' /\ lost' \in Causes
    BY <1>1, <1>6, <2>1, PanelKept, Current
  <2> QED
    BY <1>1, <1>3, <1>5, <2>1, <2>2, IdleHandler, IdleKnows, QuietStep
<1> QED
  BY <1>1, <1>7, <1>8


LEMMA StillStep ==
  ASSUME IInv, UNCHANGED <<cur, maint, open, kv, req, age, lost>>,
         served' \in Versions \cup {None}
  PROVE  IInv'
<1>1. TypeOK'
  BY DEF IInv, TypeOK
<1>2. req' \in [Reqs -> Handler] /\ Timely' /\ StaleCopyOnlyByRace'
  BY DEF IInv, Timely, StaleCopyOnlyByRace, Purging
<1>3. \A r \in Reqs : Knows(req[r])'
  BY DEF IInv, Knows, Recent
<1> QED
  BY <1>1, <1>2, <1>3 DEF IInv

LEMMA EdgeHitStep ==
  ASSUME IInv, EdgeHit
  PROVE  IInv' /\ kv["edge"].v \in Versions /\ age[kv["edge"].v] <= Window
<1>1. /\ kv["edge"] # NoCopy /\ served' = kv["edge"].v
      /\ UNCHANGED <<cur, maint, open, kv, req, age, lost>>
  BY DEF EdgeHit
<1>2. kv["edge"].v \in Versions /\ age[kv["edge"].v] <= Window
  BY <1>1, CopyIsRecent
<1> QED
  BY <1>1, <1>2, StillStep

-----------------------------------------------------------------------------
(* Time.                                                                   *)

LEMMA AgedCopy ==
  ASSUME NEW c \in [v : Versions, ttl : 1 .. Ttl] \cup {NoCopy}
  PROVE  /\ Aged(c) \in [v : Versions, ttl : 1 .. Ttl] \cup {NoCopy}
         /\ Aged(c).v \in Versions =>
               c.v \in Versions /\ Aged(c).v = c.v /\ c.ttl \in 1 .. Ttl /\ Aged(c).ttl = c.ttl - 1
<1>1. CASE c = NoCopy
  BY <1>1, NoCopies DEF Aged, NoCopy
<1>2. CASE c # NoCopy /\ c.ttl > 1
  <2>1. c \in [v : Versions, ttl : 1 .. Ttl] /\ c.ttl \in 1 .. Ttl /\ c.v \in Versions
    BY <1>2
  <2> DEFINE t == c.ttl - 1
  <2>2. t \in 1 .. Ttl
    BY <1>2, <2>1, Numbers
  <2>3. Aged(c) = [c EXCEPT !.ttl = t]
    BY <1>2 DEF Aged
  <2>4. t = c.ttl - 1
    OBVIOUS
  <2> HIDE DEF t
  <2> QED
    BY <2>1, <2>2, <2>3, <2>4
<1>3. CASE c # NoCopy /\ ~(c.ttl > 1)
  BY <1>3, NoCopies DEF Aged
<1> QED
  BY <1>1, <1>2, <1>3

LEMMA TickStep ==
  ASSUME IInv, Tick
  PROVE  IInv'
<1>1. /\ \A r \in Reqs : req[r].pc # "idle" => req[r].wait < MaxDelay
      /\ req' = [r \in Reqs |-> IF req[r].pc = "idle" THEN Idle
                                ELSE [req[r] EXCEPT !.wait = @ + 1]]
      /\ kv' = [panel |-> Aged(kv["panel"]), edge |-> Aged(kv["edge"])]
      /\ age' = [v \in Versions |-> IF v # cur /\ age[v] <= Window THEN age[v] + 1 ELSE age[v]]
      /\ served' = None /\ UNCHANGED <<cur, maint, open, lost>>
  BY DEF Tick
<1>2. /\ cur \in Nat /\ cur \in Versions /\ 0 .. cur \subseteq Versions
      /\ \A v \in Versions : age[v] \in 0 .. Window + 1
  BY Current
<1>3. \A v \in Versions : age'[v] \in 0 .. Window + 1 /\ age'[v] <= age[v] + 1
  BY <1>1, <1>2, Numbers
<1>4. age' \in [Versions -> 0 .. Window + 1] /\ age'[cur] = 0
  <2>1. age' = [v \in Versions |-> age'[v]]
    BY <1>1
  <2>2. age[cur] = 0
    BY DEF IInv, Timely
  <2> QED
    BY <1>1, <1>2, <1>3, <2>1, <2>2
<1>5. ASSUME NEW r \in Reqs, req[r].pc # "idle"
      PROVE  /\ req'[r] \in Handler
             /\ req'[r].pc = req[r].pc /\ req'[r].v = req[r].v /\ req'[r].auth = req[r].auth
             /\ req'[r].op = req[r].op /\ req'[r].sets = req[r].sets
             /\ req'[r].wait = req[r].wait + 1 /\ req[r].wait \in Nat
  <2>1. req[r] \in Handler /\ req[r].wait < MaxDelay /\ req[r].wait \in 0 .. MaxDelay
    BY <1>1, <1>5, Current DEF Handler
  <2> DEFINE t == req[r].wait + 1
  <2>2. t \in 0 .. MaxDelay /\ req[r].wait \in Nat
    BY <2>1, Numbers
  <2>3. req'[r] = [req[r] EXCEPT !.wait = t]
    BY <1>1, <1>5
  <2>4. t = req[r].wait + 1
    OBVIOUS
  <2> HIDE DEF t
  <2> QED
    BY <2>1, <2>2, <2>3, <2>4 DEF Handler
<1>6. \A r \in Reqs : req[r].pc = "idle" => req'[r] = Idle
  BY <1>1
<1>7. \A r \in Reqs : req'[r] \in Handler /\ req'[r].pc = req[r].pc
  BY <1>5, <1>6, IdleHandler
<1>8. req' \in [Reqs -> Handler]
  <2>1. req' = [r \in Reqs |-> req'[r]]
    BY <1>1
  <2> QED
    BY <1>7, <2>1
<1>9. ASSUME NEW v \in 0 .. cur, NEW w \in Nat, Recent(v, w)
      PROVE  Recent(v, w + 1)'
  <2>1. v \in Versions /\ age[v] <= Life + w
    BY <1>2, <1>9 DEF Recent
  <2>2. age'[v] <= Life + (w + 1)
    BY <1>2, <1>3, <2>1, Numbers
  <2> QED
    BY <1>1, <2>2 DEF Recent
<1>10. ASSUME NEW r \in Reqs PROVE Knows(req[r])'
  <2>1. CASE req[r].pc = "idle"
    BY <1>6, <2>1, IdleHandler DEF Knows
  <2>2. CASE req[r].pc # "idle"
    <3>1. /\ req'[r].pc = req[r].pc /\ req'[r].v = req[r].v /\ req'[r].auth = req[r].auth
          /\ req'[r].op = req[r].op /\ req'[r].sets = req[r].sets
          /\ req'[r].wait = req[r].wait + 1 /\ req[r].wait \in Nat
      BY <1>5, <2>2
    <3>2. Knows(req[r])
      BY DEF IInv
    <3>3. req[r].pc \in {"put", "reput", "edge"} =>
             req'[r].v \in 0 .. cur /\ age'[req'[r].v] <= req'[r].wait
      <4>1. ASSUME req[r].pc \in {"put", "reput", "edge"}
            PROVE  req[r].v \in 0 .. cur /\ req[r].v \in Versions /\ age[req[r].v] <= req[r].wait
        BY <1>2, <3>2, <4>1 DEF Knows
      <4> QED
        BY <1>2, <1>3, <3>1, <4>1
    <3>4. ASSUME req[r].pc \in {"guard", "answer"}
          PROVE  req'[r].v \in 0 .. cur /\ age'[req'[r].v] <= Life + req'[r].wait
      <4>1. Recent(req[r].v, req[r].wait)
        BY <3>2, <3>4 DEF Knows
      <4>2. PICK v \in 0 .. cur, w \in Nat : v = req[r].v /\ w = req[r].wait
        BY <3>1, <4>1 DEF Recent
      <4>3. Recent(v, w)
        BY <4>1, <4>2
      <4>4. Recent(v, w + 1)'
        BY <1>9, <4>3
      <4>5. age'[v] <= Life + (w + 1)
        BY <4>4 DEF Recent
      <4> QED
        BY <3>1, <4>2, <4>5
    <3>5. ASSUME req[r].pc \in {"write", "purge"}
          PROVE  /\ req'[r].sets \in 1 .. 2 /\ Signed(req'[r])
                 /\ \E v \in 0 .. cur : age'[v] <= Life + req'[r].wait /\ ~maint[v]
      <4>1. PICK v \in 0 .. cur : Recent(v, req[r].wait) /\ ~maint[v]
        BY <3>2, <3>5 DEF Knows
      <4>2. PICK w \in Nat : w = req[r].wait
        BY <3>1
      <4>3. Recent(v, w + 1)'
        BY <1>9, <4>1, <4>2
      <4>4. age'[v] <= Life + req'[r].wait
        BY <3>1, <4>2, <4>3 DEF Recent
      <4> QED
        BY <3>1, <3>2, <3>5, <4>1, <4>4 DEF Knows
    <3> QED
      BY <1>1, <2>2, <3>1, <3>2, <3>3, <3>4, <3>5 DEF Knows, Recent
  <2> QED
    BY <2>1, <2>2
<1>11. kv' \in Copies /\ \A k \in {"panel", "edge"} : kv'[k] = Aged(kv[k])
  <2>1. \A k \in {"panel", "edge"} : kv[k] \in [v : Versions, ttl : 1 .. Ttl] \cup {NoCopy}
    BY Current DEF Copies
  <2>2. \A k \in {"panel", "edge"} :
           Aged(kv[k]) \in [v : Versions, ttl : 1 .. Ttl] \cup {NoCopy}
    BY <2>1, AgedCopy
  <2>3. kv'["panel"] = Aged(kv["panel"]) /\ kv'["edge"] = Aged(kv["edge"])
    BY <1>1
  <2>4. kv' = [k \in {"panel", "edge"} |-> kv'[k]]
    BY <1>1
  <2> QED
    BY <2>2, <2>3, <2>4 DEF Copies
<1>12. ASSUME NEW k \in {"panel", "edge"}, kv'[k].v \in Versions
       PROVE  kv[k].v \in Versions /\ kv'[k].v = kv[k].v /\ kv[k].ttl \in Nat
              /\ kv'[k].ttl = kv[k].ttl - 1
  <2>1. kv[k] \in [v : Versions, ttl : 1 .. Ttl] \cup {NoCopy}
    BY Current DEF Copies
  <2> QED
    BY <1>11, <1>12, <2>1, AgedCopy, Numbers
<1>13. Timely'
  <2> SUFFICES ASSUME NEW k \in {"panel", "edge"}, kv'[k].v \in Versions
               PROVE  kv'[k].v <= cur /\ age'[kv'[k].v] + kv'[k].ttl <= Life
    BY <1>1, <1>4 DEF Timely
  <2>1. /\ kv[k].v \in Versions /\ kv'[k].v = kv[k].v /\ kv[k].ttl \in Nat
        /\ kv'[k].ttl = kv[k].ttl - 1
    BY <1>12
  <2>2. PICK v \in Versions : v = kv[k].v
    BY <2>1
  <2>3. v <= cur /\ age[v] + kv[k].ttl <= Life
    BY <2>1, <2>2 DEF IInv, Timely
  <2>4. age[v] \in Nat /\ age'[v] \in Nat /\ age'[v] <= age[v] + 1
    <3>1. /\ age[v] \in 0 .. Window + 1 /\ age'[v] \in 0 .. Window + 1
          /\ age'[v] <= age[v] + 1
      BY <1>2, <1>3
    <3>2. 0 .. Window + 1 \subseteq Nat
      BY Numbers
    <3> QED
      BY <3>1, <3>2
  <2>5. age'[v] + (kv[k].ttl - 1) <= Life
    BY <2>1, <2>3, <2>4, Numbers
  <2> QED
    BY <2>1, <2>2, <2>3, <2>5
<1>14. StaleCopyOnlyByRace'
  <2>1. \A r \in Reqs : Purging(r) => Purging(r)'
    BY <1>7 DEF Purging
  <2> QED
    BY <1>1, <1>12, <2>1 DEF IInv, StaleCopyOnlyByRace
<1>15. ASSUME NEW x \in Reqs
      PROVE  /\ req'[x].pc \in {"idle", "put", "guard", "write", "purge", "reload", "reput",
                                "answer", "edge"}
             /\ req'[x].wait \in 0 .. MaxDelay
             /\ req'[x].pc \in {"write", "purge"} =>
                  req'[x].sets \in 1 .. 2 /\ Signed(req'[x])
  <2>1. req'[x] \in Handler
    BY <1>7
  <2>2. req'[x].pc \in {"write", "purge"} =>
           req'[x].sets \in 1 .. 2 /\ Signed(req'[x])
    BY <1>10 DEF Knows
  <2> QED
    BY <2>1, <2>2 DEF Handler
<1>16. /\ cur' \in Versions /\ maint' \in [Versions -> BOOLEAN] /\ open' \in BOOLEAN
       /\ lost' \in Causes
  BY <1>1, Current
<1>17. TypeOK'
  BY <1>1, <1>4, <1>11, <1>15, <1>16 DEF TypeOK, Copies, Causes
<1> QED
  BY <1>8, <1>10, <1>13, <1>14, <1>17 DEF IInv


-----------------------------------------------------------------------------
(* The invariant.                                                          *)

LEMMA InitInv == Init => IInv
<1> SUFFICES ASSUME Init PROVE IInv
  OBVIOUS
<1>1. 0 \in Versions /\ cur = 0 /\ Window + 1 \in 0 .. Window + 1 /\ 0 \in 0 .. Window + 1
  BY Numbers DEF Init, Versions
<1>2. maint \in [Versions -> BOOLEAN] /\ open \in BOOLEAN /\ served = None /\ lost = {}
  BY DEF Init
<1>3. age \in [Versions -> 0 .. Window + 1] /\ age[cur] = 0
  BY <1>1 DEF Init
<1>4. kv["panel"] = NoCopy /\ kv["edge"] = NoCopy /\ kv \in Copies
  BY DEF Init, Copies
<1>5. \A r \in Reqs : req[r] = Idle
  BY DEF Init
<1>6. req \in [Reqs -> Handler]
  BY IdleHandler DEF Init
<1>7. \A r \in Reqs : Knows(req[r])
  BY <1>5, IdleHandler DEF Knows
<1>8. \A r \in Reqs : req[r].pc = "idle" /\ req[r].wait \in 0 .. MaxDelay
  <2>1. Idle.pc = "idle" /\ Idle.wait \in 0 .. MaxDelay
    BY IdleHandler DEF Handler
  <2> QED
    BY <1>5, <2>1
<1>9. TypeOK
  BY <1>1, <1>2, <1>3, <1>4, <1>8 DEF TypeOK, Copies
<1>10. Timely /\ StaleCopyOnlyByRace
  BY <1>3, <1>4, NoCopies DEF Timely, StaleCopyOnlyByRace
<1> QED
  BY <1>6, <1>7, <1>9, <1>10 DEF IInv

LEMMA NextInv == IInv /\ [Next]_vars => IInv'
<1> SUFFICES ASSUME IInv, [Next]_vars PROVE IInv'
  OBVIOUS
<1>1. CASE UNCHANGED vars
  <2>1. served \in Versions \cup {None}
    BY DEF IInv, TypeOK
  <2>2. UNCHANGED <<cur, maint, open, kv, req, age, lost>> /\ served' \in Versions \cup {None}
    BY <1>1, <2>1 DEF vars
  <2> QED
    BY <2>2, StillStep
<1>2. CASE EdgeHit \/ Tick
  BY <1>2, EdgeHitStep, TickStep
<1>3. ASSUME NEW r \in Reqs, Handle(r) PROVE IInv'
  BY <1>3, LoadHitStep, LoadRowsStep, PutStep, ServeStep, GuardStep, WriteStep, InvalidateStep,
     EdgePutStep, AbortStep DEF Handle
<1> QED
  BY <1>1, <1>2, <1>3 DEF Next

(* The inductive invariant: types, what handlers go by, the account of     *)
(* time, and the causes of a stale copy.                                   *)
THEOREM Invariance == Spec => []IInv
<1> QED
  BY InitInv, NextInv, PTL DEF Spec

(* D1, the copies and the handlers have their types, and a handler that is *)
(* to write has passed the guard, and requireAuth unless it is a setup.    *)
THEOREM TypeCorrect == Spec => []TypeOK
<1>1. IInv => TypeOK
  BY DEF IInv
<1> QED
  BY <1>1, Invariance, PTL

(* SettingsService: the panel's copy in KV is current, or a writer is      *)
(* about to delete it, or it is known what went wrong.                     *)
THEOREM StaleCopyHasCause == Spec => []StaleCopyOnlyByRace
<1>1. IInv => StaleCopyOnlyByRace
  BY DEF IInv
<1> QED
  BY <1>1, Invariance, PTL

-----------------------------------------------------------------------------
(* Maintenance mode.                                                       *)

(* maintenanceGuard: nobody but a super_admin writes once every version    *)
(* without maintenance is further back than a copy can live and be held.   *)
THEOREM MaintenanceHolds == Spec => WritesStop
<1>1. IInv /\ [Next]_vars =>
        [\A r \in Reqs : (\E on \in BOOLEAN : Write(r, on)) /\ req[r].auth # "super_admin" =>
            \E v \in 0 .. cur : ~maint[v] /\ age[v] <= Window]_vars
  <2> SUFFICES ASSUME IInv, NEW r \in Reqs, NEW on \in BOOLEAN, Write(r, on)
               PROVE  \E v \in 0 .. cur : ~maint[v] /\ age[v] <= Window
    OBVIOUS
  <2>4. req[r].pc = "write" /\ Knows(req[r]) /\ req[r] \in Handler
    BY DEF Write, IInv
  <2>5. PICK v \in 0 .. cur : Recent(v, req[r].wait) /\ ~maint[v]
    BY <2>4 DEF Knows
  <2>6. req[r].wait \in 0 .. MaxDelay
    BY <2>4 DEF Handler
  <2>7. v \in Versions
    BY Current
  <2>8. age[v] \in 0 .. Window + 1
    BY <2>7, Current
  <2>9. age[v] <= Window
    BY <2>5, <2>6, <2>8, Numbers DEF Recent
  <2> QED
    BY <2>5, <2>9
<1> QED
  BY <1>1, Invariance, PTL DEF Spec, WritesStop

-----------------------------------------------------------------------------
(* The refinement of Access.                                               *)

LEMMA InitRefines == Init => Promise!AccessInit
<1> SUFFICES ASSUME Init PROVE Promise!AccessInit
  OBVIOUS
<1>1. cur \in Versions /\ cur = 0 /\ served = None
  BY Numbers DEF Init, Versions
<1>2. age = [v \in Versions |-> IF v \in {cur} THEN 0 ELSE Window + 1]
  BY <1>1 DEF Init
<1> QED
  BY <1>1, <1>2 DEF Promise!AccessInit

(* A step that leaves the clock alone is a change of what is allowed, when *)
(* it ends with the new version's age at 0.                                *)
LEMMA ChangeRefines ==
  ASSUME IInv, IInv', served' = None,
         \A v \in Versions : v # cur' => age'[v] = age[v]
  PROVE  Promise!Change
<1>1. cur' \in Versions /\ age' \in [Versions -> 0 .. Window + 1] /\ age'[cur'] = 0
  BY DEF IInv, TypeOK, Timely
<1>2. \A v \in Versions : age[v] \in 0 .. Window + 1
  BY Current
<1>3. \A v \in Versions :
         age'[v] = IF v \in {cur'} THEN 0
                   ELSE IF age[v] + 0 <= Window + 1 THEN age[v] + 0 ELSE Window + 1
  BY <1>1, <1>2, Numbers
<1>4. age' = [v \in Versions |-> age'[v]]
  BY <1>1
<1>5. age' = Promise!Older({cur'}, 0)
  BY <1>3, <1>4 DEF Promise!Older
<1> QED
  BY <1>1, <1>5 DEF Promise!Change

LEMMA LetInRefines ==
  ASSUME NEW v \in Versions, age[v] <= Window, UNCHANGED <<cur, age>>, served' = v
  PROVE  Promise!AccessNext
  BY DEF Promise!AccessNext, Promise!LetIn

LEMMA TickRefines ==
  ASSUME IInv, IInv', Tick
  PROVE  Promise!Pass
<1>1. /\ age' = [v \in Versions |-> IF v # cur /\ age[v] <= Window THEN age[v] + 1 ELSE age[v]]
      /\ cur' = cur /\ served' = None
  BY DEF Tick
<1>2. age[cur] = 0 /\ \A v \in Versions : age[v] \in 0 .. Window + 1
  BY Current DEF IInv, Timely
<1>3. \A v \in Versions :
         age'[v] = IF v \in {cur} THEN 0
                   ELSE IF age[v] + 1 <= Window + 1 THEN age[v] + 1 ELSE Window + 1
  BY <1>1, <1>2, Numbers
<1>4. age' = [v \in Versions |-> age'[v]]
  BY <1>1
<1>5. age' = Promise!Older({cur'}, 1)
  BY <1>1, <1>3, <1>4 DEF Promise!Older
<1> QED
  BY <1>1, <1>5 DEF Promise!Pass

LEMMA WriteRefines ==
  ASSUME IInv, IInv', NEW r \in Reqs, NEW on \in BOOLEAN, Write(r, on)
  PROVE  Promise!Change
<1>1. served' = None /\ cur' = cur + 1 /\ age' = [age EXCEPT ![cur + 1] = 0]
  BY DEF Write, NewVersion
<1>2. \A v \in Versions : v # cur' => age'[v] = age[v]
  BY <1>1, Current
<1> QED
  BY <1>1, <1>2, ChangeRefines

LEMMA NextRefines ==
  IInv /\ IInv' /\ [Next]_vars => [Promise!AccessNext]_(Promise!accessVars)
<1> SUFFICES ASSUME IInv, IInv', [Next]_vars
             PROVE  [Promise!AccessNext]_(Promise!accessVars)
  OBVIOUS
<1>1. CASE UNCHANGED vars
  BY <1>1 DEF vars, Promise!accessVars
<1>2. CASE EdgeHit
  <2>1. kv["edge"].v \in Versions /\ age[kv["edge"].v] <= Window
    BY <1>2, EdgeHitStep
  <2>2. UNCHANGED <<cur, age>> /\ served' = kv["edge"].v
    BY <1>2 DEF EdgeHit
  <2> QED
    BY <2>1, <2>2, LetInRefines
<1>3. CASE Tick
  BY <1>3, TickRefines DEF Promise!AccessNext
<1>4. ASSUME NEW r \in Reqs, Serve(r) \/ EdgePut(r) PROVE Promise!AccessNext
  <2>1. req[r].v \in Versions /\ age[req[r].v] <= Window
    BY <1>4, ServeStep, EdgePutStep
  <2>2. UNCHANGED <<cur, age>> /\ served' = req[r].v
    BY <1>4 DEF Serve, EdgePut
  <2> QED
    BY <2>1, <2>2, LetInRefines
<1>5. ASSUME NEW r \in Reqs, NEW on \in BOOLEAN, Write(r, on) PROVE Promise!AccessNext
  BY <1>5, WriteRefines DEF Promise!AccessNext
<1>6. ASSUME NEW r \in Reqs,
             \/ LoadHit(r) \/ LoadRows(r) \/ Put(r) \/ Invalidate(r) \/ EdgeRead(r) \/ Abort(r)
             \/ \E op \in DOMAIN Ops, role \in Roles : Guard(r, op, role)
      PROVE  Promise!AccessNext
  <2>1. UNCHANGED <<cur, age>> /\ served' = None
    BY <1>6 DEF LoadHit, LoadRows, Put, Invalidate, EdgeRead, Abort, Guard
  <2> QED
    BY <2>1, ChangeRefines DEF Promise!AccessNext
<1> QED
  BY <1>1, <1>2, <1>3, <1>4, <1>5, <1>6 DEF Next, Handle

(* The caches of load and loadEdgeSettings keep what Access promises: no   *)
(* reader on either worker is handed settings that left D1 more than       *)
(* Window ago.                                                             *)
THEOREM SettingsRefineAccess == Spec => ImplementsAccess
<1> QED
  BY InitRefines, NextRefines, Invariance, PTL
     DEF Spec, ImplementsAccess, Promise!AccessSpec

-----------------------------------------------------------------------------
(* The forms of the web interface (Panel).                                 *)

(* A copy read before old was written may miss the field k.                *)
Missing(old, k) == \E who \in {"own", "other"} : <<k, who>> \in old

Waiting == {"sent", "applied"}
Amounts == 0 .. 100
Display == 0 .. 25 \cup {Web!Blank}

RowShaped ==
    /\ row = [x \in Web!Records |-> row[x]]
    /\ \A x \in Web!Records : row[x] = [k \in Web!Keys |-> row[x][k]]

Kept(c) ==
    /\ c.has \in BOOLEAN
    /\ c.has => c = Web!Holding(c.data, c.old, c.fresh) /\ c.data = [k \in Web!Keys |-> c.data[k]]
CacheShaped ==
    /\ cache = [x \in Web!Records |-> cache[x]]
    /\ \A x \in Web!Records : Kept(cache[x])

Coming(q) ==
    q.pc = "answered" => q = [pc |-> "answered", data |-> q.data, old |-> q.old]
                         /\ q.data = [k \in Web!Keys |-> q.data[k]]
FetchShaped ==
    /\ fetch = [x \in Web!Records |-> fetch[x]]
    /\ \A x \in Web!Records : Coming(fetch[x])

FormShaped ==
    /\ form = [at |-> form.at, values |-> form.values, typed |-> form.typed]
    /\ form.values = [f \in Web!Fields |-> form.values[f]]

SentShaped == sent.pc \in Waiting =>
    /\ sent = [pc |-> sent.pc, at |-> sent.at, todo |-> sent.todo, values |-> sent.values,
               typed |-> sent.typed, blind |-> sent.blind, old |-> sent.old]
    /\ sent.at \in Web!Records /\ sent.todo \subseteq Web!Fields /\ sent.blind \in BOOLEAN

(* Copies, also those under way, are as the record but for what they miss. *)
CopiesTrue == \A x \in Web!Records :
    /\ cache[x].has =>
          \A k \in Web!Keys : ~Missing(cache[x].old, k) => cache[x].data[k] = row[x][k]
    /\ fetch[x].pc = "answered" =>
          \A k \in Web!Keys : ~Missing(fetch[x].old, k) => fetch[x].data[k] = row[x][k]
    /\ fetch[x].pc = "answered" /\ cache[x].has => fetch[x].old \subseteq cache[x].old

(* What has not been typed is the copy's.                                  *)
FormTrue ==
    /\ form.at \in Web!Records \cup {Nobody}
    /\ form.at = Nobody => form.typed = {}
    /\ form.at # Nobody /\ cache[form.at].has =>
          \A f \in Web!Fields \ form.typed : form.values[f] = Web!Show(f, cache[form.at].data[f])

(* What is about to be written is the record's, but for the exceptions.    *)
SentTrue == sent.pc = "sent" /\ ~sent.blind =>
    \A f \in sent.todo :
       \/ f \in sent.typed \/ <<f, "other">> \in sent.old
       \/ page \in Web!Dialogs /\ <<f, "own">> \in sent.old
       \/ sent.values[f] = Web!Show(f, row[sent.at][f])

(* Outside of dialogs nothing is read while a save is under way, and own   *)
(* writes are of what was typed.                                           *)
PageTrue == page \notin Web!Dialogs =>
    /\ form.at = 1
    /\ fetch[1].pc # "none" => sent.pc = "reread" \/ (sent.pc = "none" /\ ~cache[1].has)
    /\ sent.pc \in Waiting =>
          /\ sent.blind => ~cache[1].has
          /\ ~sent.blind => cache[1].has /\ sent.old \subseteq cache[1].old
                               /\ sent.typed \subseteq form.typed
    /\ cache[1].has => \A f \in Web!Fields :
          <<f, "own">> \in cache[1].old => f \in form.typed \/ <<f, "other">> \in cache[1].old
    /\ fetch[1].pc = "answered" => \A f \in Web!Fields : <<f, "own">> \notin fetch[1].old

(* The amounts of a user are ones that the form can tell from nothing.     *)
Sized == {"quota", "left"} \cap Web!Fields
SmallRow == \A x \in Web!Records : \A f \in Sized : row[x][f] \in Amounts
SmallCache == \A x \in Web!Records : cache[x].has => \A f \in Sized : cache[x].data[f] \in Amounts
SmallFetch == \A x \in Web!Records :
    fetch[x].pc = "answered" => \A f \in Sized : fetch[x].data[f] \in Amounts
SmallForm == \A f \in Sized : form.values[f] \in Display
SmallSent == sent.pc \in Waiting => \A f \in Sized : sent.values[f] \in Display
Small == SmallRow /\ SmallCache /\ SmallFetch /\ SmallForm /\ SmallSent

Shaped == RowShaped /\ CacheShaped /\ FetchShaped /\ FormShaped /\ SentShaped
WebInv == Shaped /\ CopiesTrue /\ FormTrue /\ SentTrue /\ PageTrue /\ Small

-----------------------------------------------------------------------------
(* What depends on the page alone stays.                                   *)
LEMMA SamePage ==
    ASSUME page' = page
    PROVE  Web!Records' = Web!Records /\ Web!Fields' = Web!Fields /\ Web!Keys' = Web!Keys
  BY DEF Web!Records, Web!Fields, Web!Keys, Web!Hidden

(* What the pages have in common, and what sets the dialogs apart.        *)
LEMMA PageFacts ==
    /\ Web!Fields \subseteq Web!Keys
    /\ page \notin Web!Dialogs => Web!Records = {1} /\ {"quota", "left", "print"} \cap Web!Fields = {}
    /\ page \in Web!Dialogs => Web!Records = {1, 2}
    /\ Web!Hidden \cap Web!Fields = {}
    /\ Nobody \notin Web!Records
  BY PanelAssumption
     DEF Web!Records, Web!Fields, Web!Keys, Web!Hidden, Web!Dialogs, Web!ConstantsAssumption

(* A whole amount that is shown and read again is the same amount.        *)
LEMMA Shows ==
    ASSUME NEW f \in {"quota", "left"}, NEW v \in Amounts
    PROVE  /\ Web!Show(f, v) \in Display
           /\ Web!Whole(f, v) => \A w : Web!Parse(f, Web!Show(f, v), w) = v
  BY DEF Web!Show, Web!Parse, Web!Whole, Amounts, Display, Web!Blank, Web!Never

(* Every other field is shown and read as it is stored, a fingerprint if  *)
(* there is one.                                                          *)
LEMMA ShowsAsStored ==
    ASSUME NEW f, f \notin {"quota", "left"}, NEW v, f = "print" => v # Web!Null
    PROVE  Web!Show(f, v) = v /\ \A w : Web!Parse(f, v, w) = v
  BY DEF Web!Show, Web!Parse

(* What the form holds is read as an amount.                              *)
LEMMA Parses ==
    ASSUME NEW f \in {"quota", "left"}, NEW s \in Display, NEW v \in Amounts
    PROVE  Web!Parse(f, s, v) \in Amounts
  BY DEF Web!Parse, Amounts, Display, Web!Blank, Web!Never

(* What a write does to the record, the copy and the answer under way.    *)
LEMMA Putting ==
    ASSUME Shaped, page' = page, NEW x \in Web!Records, NEW new, new = [k \in Web!Keys |-> new[k]],
           NEW who, Web!Put(x, new, who)
    PROVE  /\ RowShaped' /\ CacheShaped' /\ FetchShaped'
           /\ row'[x] = new /\ \A y \in Web!Records \ {x} : row'[y] = row[y]
           /\ \A y \in Web!Records :
                /\ cache'[y].has = cache[y].has
                /\ cache[y].has => cache'[y].data = cache[y].data
                     /\ cache'[y].old = cache[y].old
                            \cup (IF y = x THEN Web!Changed(x, new, who) ELSE {})
                /\ fetch'[y].pc = fetch[y].pc
                /\ fetch[y].pc = "answered" => fetch'[y].data = fetch[y].data
                     /\ fetch'[y].old = fetch[y].old
                            \cup (IF y = x THEN Web!Changed(x, new, who) ELSE {})
<1> DEFINE C == Web!Changed(x, new, who)
<1>1. /\ row' = [row EXCEPT ![x] = new]
      /\ cache' = [cache EXCEPT ![x] = IF cache[x].has
            THEN [cache[x] EXCEPT !.old = cache[x].old \cup C] ELSE cache[x]]
      /\ fetch' = [fetch EXCEPT ![x] = IF fetch[x].pc = "answered"
            THEN [fetch[x] EXCEPT !.old = fetch[x].old \cup C] ELSE fetch[x]]
  BY DEF Web!Put
<1> HIDE DEF C
<1>2. Web!Records' = Web!Records /\ Web!Keys' = Web!Keys BY SamePage
<1>3. RowShaped' /\ row'[x] = new /\ \A y \in Web!Records \ {x} : row'[y] = row[y]
  BY <1>1, <1>2 DEF Shaped, RowShaped
<1>4. /\ cache' = [y \in Web!Records |-> cache'[y]]
      /\ \A y \in Web!Records \ {x} : cache'[y] = cache[y]
      /\ cache'[x] = IF cache[x].has THEN [cache[x] EXCEPT !.old = cache[x].old \cup C] ELSE cache[x]
  BY <1>1 DEF Shaped, CacheShaped
<1>5. Kept(cache[x]) BY DEF Shaped, CacheShaped
<1>6. /\ cache'[x].has = cache[x].has /\ cache'[x].has \in BOOLEAN
      /\ cache[x].has => cache'[x].data = cache[x].data /\ cache'[x].old = cache[x].old \cup C
           /\ cache'[x] = Web!Holding(cache'[x].data, cache'[x].old, cache'[x].fresh)
  <2>1. CASE ~cache[x].has BY <1>4, <1>5, <2>1 DEF Kept
  <2>2. CASE cache[x].has
    <3>1. PICK c : c = cache[x] OBVIOUS
    <3>2. PICK h, d, o, r : c = [has |-> h, data |-> d, old |-> o, fresh |-> r]
      BY <1>5, <2>2, <3>1 DEF Kept, Web!Holding
    <3>3. cache'[x] = [c EXCEPT !.old = c.old \cup C] BY <1>4, <2>2, <3>1
    <3>4. c.has = h /\ c.data = d /\ c.old = o BY <3>2
    <3>5. cache'[x] = [has |-> h, data |-> d, old |-> o \cup C, fresh |-> r]
      BY <3>2, <3>3, <3>4
    <3>6. cache'[x].has = h /\ cache'[x].data = d /\ cache'[x].old = o \cup C /\ cache'[x].fresh = r
      BY <3>5
    <3> QED BY <1>5, <2>2, <3>1, <3>4, <3>5, <3>6 DEF Web!Holding, Kept
  <2> QED BY <2>1, <2>2
<1>7. CacheShaped'
  <2>1. ASSUME NEW y \in Web!Records PROVE Kept(cache[y])'
    <3>1. CASE y = x
      <4>1. ASSUME cache'[x].has
            PROVE  cache'[x].data = [k \in Web!Keys' |-> cache'[x].data[k]]
        <5>1. cache[x].has /\ cache'[x].data = cache[x].data BY <1>6, <4>1
        <5>2. cache[x].data = [k \in Web!Keys |-> cache[x].data[k]] BY <1>5, <5>1 DEF Kept
        <5> QED BY <1>2, <5>1, <5>2
      <4>2. cache'[x].has \in BOOLEAN BY <1>6
      <4>3. cache'[x].has => cache'[x] = Web!Holding(cache'[x].data, cache'[x].old, cache'[x].fresh)
        BY <1>6
      <4> QED BY <3>1, <4>1, <4>2, <4>3 DEF Kept
    <3>2. CASE y # x
      <4>1. Kept(cache[y]) /\ cache'[y] = cache[y] BY <1>4, <3>2 DEF Shaped, CacheShaped
      <4> QED BY <1>2, <4>1 DEF Kept
    <3> QED BY <3>1, <3>2
  <2> QED BY <1>2, <1>4, <2>1 DEF CacheShaped
<1>8. /\ fetch' = [y \in Web!Records |-> fetch'[y]]
      /\ \A y \in Web!Records \ {x} : fetch'[y] = fetch[y]
      /\ fetch'[x] = IF fetch[x].pc = "answered"
                     THEN [fetch[x] EXCEPT !.old = fetch[x].old \cup C] ELSE fetch[x]
  BY <1>1 DEF Shaped, FetchShaped
<1>9. Coming(fetch[x]) BY DEF Shaped, FetchShaped
<1>10. /\ fetch'[x].pc = fetch[x].pc
       /\ fetch[x].pc = "answered" =>
            /\ fetch'[x].data = fetch[x].data /\ fetch'[x].old = fetch[x].old \cup C
            /\ fetch'[x] = [pc |-> "answered", data |-> fetch'[x].data, old |-> fetch'[x].old]
  <2>1. CASE fetch[x].pc # "answered" BY <1>8, <2>1
  <2>2. CASE fetch[x].pc = "answered"
    <3>1. PICK d, o : fetch[x] = [pc |-> "answered", data |-> d, old |-> o]
      BY <1>9, <2>2 DEF Coming
    <3>2. fetch'[x] = [fetch[x] EXCEPT !.old = fetch[x].old \cup C] BY <1>8, <2>2
    <3>3. fetch[x].data = d /\ fetch[x].old = o BY <3>1
    <3>4. fetch'[x] = [pc |-> "answered", data |-> d, old |-> o \cup C]
      BY <3>1, <3>2, <3>3
    <3> QED BY <2>2, <3>3, <3>4
  <2> QED BY <2>1, <2>2
<1>11. FetchShaped'
  <2>1. ASSUME NEW y \in Web!Records PROVE Coming(fetch[y])'
    <3>1. CASE y = x
      <4>1. ASSUME fetch'[x].pc = "answered"
            PROVE  fetch'[x].data = [k \in Web!Keys' |-> fetch'[x].data[k]]
        <5>1. fetch[x].pc = "answered" /\ fetch'[x].data = fetch[x].data BY <1>10, <4>1
        <5>2. fetch[x].data = [k \in Web!Keys |-> fetch[x].data[k]] BY <1>9, <5>1 DEF Coming
        <5> QED BY <1>2, <5>1, <5>2
      <4>2. fetch'[x].pc = "answered" =>
               fetch'[x] = [pc |-> "answered", data |-> fetch'[x].data, old |-> fetch'[x].old]
        BY <1>10
      <4> QED BY <3>1, <4>1, <4>2 DEF Coming
    <3>2. CASE y # x
      <4>1. Coming(fetch[y]) /\ fetch'[y] = fetch[y] BY <1>8, <3>2 DEF Shaped, FetchShaped
      <4> QED BY <1>2, <4>1 DEF Coming
    <3> QED BY <3>1, <3>2
  <2> QED BY <1>2, <1>8, <2>1 DEF FetchShaped
<1>12. ASSUME NEW y \in Web!Records
       PROVE    /\ cache'[y].has = cache[y].has
                /\ cache[y].has => cache'[y].data = cache[y].data
                     /\ cache'[y].old = cache[y].old \cup (IF y = x THEN C ELSE {})
                /\ fetch'[y].pc = fetch[y].pc
                /\ fetch[y].pc = "answered" => fetch'[y].data = fetch[y].data
                     /\ fetch'[y].old = fetch[y].old \cup (IF y = x THEN C ELSE {})
  <2>1. CASE y = x BY <1>6, <1>10, <2>1
  <2>2. CASE y # x BY <1>4, <1>8, <2>2
  <2> QED BY <2>1, <2>2
<1> QED BY <1>3, <1>7, <1>11, <1>12 DEF C

(* What an action leaves alone stays as it should be.                      *)
LEMMA Standing ==
    ASSUME WebInv, page' = page
    PROVE  /\ row' = row => RowShaped' /\ SmallRow'
           /\ cache' = cache => CacheShaped' /\ SmallCache'
           /\ form' = form => FormShaped' /\ SmallForm'
           /\ sent' = sent => SentShaped' /\ SmallSent'
           /\ form' = form /\ cache' = cache => FormTrue'
           /\ sent' = sent /\ row' = row => SentTrue'
           /\ sent'.pc \notin Waiting => SentShaped' /\ SmallSent' /\ SentTrue'
<1>1. /\ Web!Records' = Web!Records /\ Web!Keys' = Web!Keys /\ Web!Fields' = Web!Fields
      /\ Sized' = Sized
  BY SamePage DEF Sized
<1>2. row' = row => RowShaped' /\ SmallRow'
  BY <1>1 DEF WebInv, Shaped, RowShaped, Small, SmallRow
<1>3. cache' = cache => CacheShaped' /\ SmallCache'
  BY <1>1 DEF WebInv, Shaped, CacheShaped, Kept, Small, SmallCache
<1>4. form' = form => FormShaped' /\ SmallForm'
  BY <1>1 DEF WebInv, Shaped, FormShaped, Small, SmallForm
<1>5. sent' = sent => SentShaped' /\ SmallSent'
  BY <1>1 DEF WebInv, Shaped, SentShaped, Small, SmallSent
<1>6. form' = form /\ cache' = cache => FormTrue'
  BY <1>1 DEF WebInv, FormTrue
<1>7. sent' = sent /\ row' = row => SentTrue'
  BY <1>1 DEF WebInv, SentTrue
<1>8. sent'.pc \notin Waiting => SentShaped' /\ SmallSent' /\ SentTrue'
  BY DEF SentShaped, SmallSent, SentTrue, Waiting
<1> QED BY <1>2, <1>3, <1>4, <1>5, <1>6, <1>7, <1>8

(* No copy comes that did not.                                             *)
LEMMA Fewer ==
    ASSUME WebInv, page' = page, row' = row, cache' = cache,
           fetch' = [y \in Web!Records |-> fetch'[y]],
           \A y \in Web!Records : fetch'[y].pc = "answered" => fetch'[y] = fetch[y]
    PROVE  FetchShaped' /\ CopiesTrue' /\ SmallFetch'
<1>1. /\ Web!Records' = Web!Records /\ Web!Keys' = Web!Keys
      /\ Sized' = Sized
  BY SamePage DEF Sized
<1>2. ASSUME NEW y \in Web!Records PROVE Coming(fetch[y])'
  <2>1. Coming(fetch[y]) BY DEF WebInv, Shaped, FetchShaped
  <2> QED BY <1>1, <2>1 DEF Coming
<1>3. FetchShaped' BY <1>1, <1>2 DEF FetchShaped
<1>4. CopiesTrue' BY <1>1 DEF WebInv, CopiesTrue
<1>5. SmallFetch' BY <1>1 DEF WebInv, Small, SmallFetch
<1> QED BY <1>3, <1>4, <1>5

(* A query asked leaves the answers there are.                             *)
LEMMA Asking ==
    ASSUME FetchShaped, NEW x \in Web!Records, Web!Ask(x)
    PROVE  /\ fetch' = [y \in Web!Records |-> fetch'[y]]
           /\ \A y \in Web!Records : fetch'[y].pc = "answered" => fetch'[y] = fetch[y]
  BY DEF FetchShaped, Web!Ask

(* The form filled from a copy.                                            *)
LEMMA Filling ==
    ASSUME page' = page, NEW x, NEW data, \A f \in Sized : data[f] \in Amounts,
           form' = Web!Filled(x, data)
    PROVE  /\ FormShaped' /\ SmallForm'
           /\ form'.at = x /\ form'.typed = {}
           /\ \A f \in Web!Fields : form'.values[f] = Web!Show(f, data[f])
<1>1. Web!Fields' = Web!Fields /\ Sized' = Sized BY SamePage DEF Sized
<1>2. /\ form' = [at |-> x, values |-> form'.values, typed |-> {}]
      /\ form'.at = x /\ form'.typed = {}
      /\ form'.values = [f \in Web!Fields |-> Web!Show(f, data[f])]
  BY DEF Web!Filled
<1>3. \A f \in Sized : form'.values[f] \in Display BY <1>2, Shows DEF Sized
<1> QED BY <1>1, <1>2, <1>3 DEF FormShaped, SmallForm

-----------------------------------------------------------------------------
(* Each action keeps what the forms are owed.                              *)
LEMMA OpenStep == ASSUME WebInv, NEW x \in Web!Records, Web!Open(x) PROVE WebInv'
<1>1. /\ page \in Web!Dialogs /\ form.at = Nobody
      /\ form' = IF cache[x].has THEN Web!Filled(x, cache[x].data)
                 ELSE [form EXCEPT !.at = x, !.typed = {}]
      /\ Web!Ask(x) \/ fetch' = fetch
      /\ page' = page /\ row' = row /\ cache' = cache /\ sent' = sent /\ work' = work
  BY DEF Web!Open
<1>2. Web!Records' = Web!Records /\ Web!Fields' = Web!Fields /\ Sized' = Sized
  BY <1>1, SamePage DEF Sized
<1>3. FetchShaped /\ fetch = [y \in Web!Records |-> fetch[y]]
  BY DEF WebInv, Shaped, FetchShaped
<1>4. FetchShaped' /\ CopiesTrue' /\ SmallFetch'
  <2>1. CASE Web!Ask(x) BY <1>1, <1>3, <2>1, Asking, Fewer
  <2>2. CASE fetch' = fetch BY <1>1, <1>3, <2>2, Fewer
  <2> QED BY <1>1, <2>1, <2>2
<1>5. /\ RowShaped' /\ SmallRow' /\ CacheShaped' /\ SmallCache'
      /\ SentShaped' /\ SmallSent' /\ SentTrue'
  BY <1>1, Standing
<1>6. FormShaped' /\ SmallForm' /\ FormTrue'
  <2>1. CASE cache[x].has
    <3>1. \A f \in Sized : cache[x].data[f] \in Amounts BY <2>1 DEF WebInv, Small, SmallCache
    <3>2. form' = Web!Filled(x, cache[x].data) BY <1>1, <2>1
    <3>3. /\ FormShaped' /\ SmallForm'
          /\ form'.at = x /\ form'.typed = {}
          /\ \A f \in Web!Fields : form'.values[f] = Web!Show(f, cache[x].data[f])
      BY <1>1, <3>1, <3>2, Filling
    <3>4. FormTrue' BY <1>1, <1>2, <3>3, PageFacts DEF FormTrue
    <3> QED BY <3>3, <3>4
  <2>2. CASE ~cache[x].has
    <3>1. PICK a, v, t : form = [at |-> a, values |-> v, typed |-> t]
      BY DEF WebInv, Shaped, FormShaped
    <3>2. form' = [at |-> x, values |-> v, typed |-> {}] /\ form.values = v
      BY <1>1, <2>2, <3>1
    <3>3. FormShaped' /\ SmallForm'
      BY <1>2, <3>2 DEF WebInv, Shaped, FormShaped, Small, SmallForm
    <3>4. FormTrue' BY <1>1, <1>2, <2>2, <3>2, PageFacts DEF FormTrue
    <3> QED BY <3>3, <3>4
  <2> QED BY <2>1, <2>2
<1>7. PageTrue' BY <1>1 DEF PageTrue
<1> QED BY <1>4, <1>5, <1>6, <1>7 DEF WebInv, Shaped, Small

(* The links of a user: a query is asked.                                 *)
LEMMA ViewStep == ASSUME WebInv, NEW x \in Web!Records, Web!View(x) PROVE WebInv'
<1>1. /\ page \in Web!Dialogs /\ Web!Ask(x)
      /\ page' = page /\ row' = row /\ cache' = cache /\ form' = form /\ sent' = sent
  BY DEF Web!View, Web!Dialogs
<1>2. FetchShaped' /\ CopiesTrue' /\ SmallFetch'
  <2>1. FetchShaped BY DEF WebInv, Shaped
  <2> QED BY <1>1, <2>1, Asking, Fewer
<1>3. /\ RowShaped' /\ SmallRow' /\ CacheShaped' /\ SmallCache' /\ FormShaped' /\ SmallForm'
      /\ SentShaped' /\ SmallSent' /\ SentTrue' /\ FormTrue'
  BY <1>1, Standing
<1>4. PageTrue' BY <1>1 DEF PageTrue
<1> QED BY <1>2, <1>3, <1>4 DEF WebInv, Shaped, Small

(* Cancel: nobody's form.                                                 *)
LEMMA CloseStep == ASSUME WebInv, Web!Close PROVE WebInv'
<1>1. /\ page \in Web!Dialogs /\ form' = [form EXCEPT !.at = Nobody, !.typed = {}]
      /\ page' = page /\ row' = row /\ cache' = cache /\ fetch' = fetch /\ sent' = sent
  BY DEF Web!Close
<1>2. Web!Records' = Web!Records /\ Web!Fields' = Web!Fields /\ Sized' = Sized
  BY <1>1, SamePage DEF Sized
<1>3. FetchShaped' /\ CopiesTrue' /\ SmallFetch'
  <2>1. fetch = [y \in Web!Records |-> fetch[y]] BY DEF WebInv, Shaped, FetchShaped
  <2> QED BY <1>1, <2>1, Fewer
<1>4. /\ RowShaped' /\ SmallRow' /\ CacheShaped' /\ SmallCache'
      /\ SentShaped' /\ SmallSent' /\ SentTrue'
  BY <1>1, Standing
<1>5. FormShaped' /\ SmallForm' /\ FormTrue'
  <2>1. PICK a, v, t : form = [at |-> a, values |-> v, typed |-> t]
    BY DEF WebInv, Shaped, FormShaped
  <2>2. form' = [at |-> Nobody, values |-> v, typed |-> {}] /\ form.values = v BY <1>1, <2>1
  <2>3. FormShaped' /\ SmallForm'
    BY <1>2, <2>2 DEF WebInv, Shaped, FormShaped, Small, SmallForm
  <2>4. FormTrue' BY <2>2 DEF FormTrue
  <2> QED BY <2>3, <2>4
<1>6. PageTrue' BY <1>1 DEF PageTrue
<1> QED BY <1>3, <1>4, <1>5, <1>6 DEF WebInv, Shaped, Small

(* The server's answer is the record as it is.                            *)
LEMMA AnswerStep == ASSUME WebInv, NEW x \in Web!Records, Web!Answer(x) PROVE WebInv'
<1>1. /\ fetch[x].pc = "asked"
      /\ fetch' = [fetch EXCEPT ![x] = [pc |-> "answered", data |-> row[x], old |-> {}]]
      /\ page' = page /\ row' = row /\ cache' = cache /\ form' = form /\ sent' = sent
  BY DEF Web!Answer
<1>2. /\ Web!Records' = Web!Records /\ Web!Fields' = Web!Fields /\ Web!Keys' = Web!Keys
      /\ Sized' = Sized
  BY <1>1, SamePage DEF Sized
<1>3. /\ fetch' = [y \in Web!Records |-> fetch'[y]]
      /\ fetch'[x] = [pc |-> "answered", data |-> row[x], old |-> {}]
      /\ \A y \in Web!Records \ {x} : fetch'[y] = fetch[y]
  BY <1>1 DEF WebInv, Shaped, FetchShaped
<1>4. FetchShaped'
  <2>1. ASSUME NEW y \in Web!Records PROVE Coming(fetch[y])'
    <3>1. CASE y = x
      <4>1. row[x] = [k \in Web!Keys |-> row[x][k]] BY DEF WebInv, Shaped, RowShaped
      <4>2. fetch'[x].data = row[x] /\ fetch'[x].old = {} BY <1>3
      <4> QED BY <1>2, <1>3, <3>1, <4>1, <4>2 DEF Coming
    <3>2. CASE y # x
      <4>1. Coming(fetch[y]) /\ fetch'[y] = fetch[y]
        BY <1>3, <3>2 DEF WebInv, Shaped, FetchShaped
      <4> QED BY <1>2, <4>1 DEF Coming
    <3> QED BY <3>1, <3>2
  <2> QED BY <1>2, <1>3, <2>1 DEF FetchShaped
<1>5. CopiesTrue'
  <2>1. ASSUME NEW y \in Web!Records, fetch'[y].pc = "answered"
        PROVE  /\ \A k \in Web!Keys : ~Missing(fetch'[y].old, k) => fetch'[y].data[k] = row[y][k]
               /\ cache[y].has => fetch'[y].old \subseteq cache[y].old
    <3>1. CASE y = x BY <1>3, <3>1
    <3>2. CASE y # x BY <1>3, <2>1, <3>2 DEF WebInv, CopiesTrue
    <3> QED BY <3>1, <3>2
  <2>2. \A y \in Web!Records : cache[y].has =>
            \A k \in Web!Keys : ~Missing(cache[y].old, k) => cache[y].data[k] = row[y][k]
    BY DEF WebInv, CopiesTrue
  <2> QED BY <1>1, <1>2, <2>1, <2>2 DEF CopiesTrue
<1>6. SmallFetch'
  <2>1. ASSUME NEW y \in Web!Records, fetch'[y].pc = "answered"
        PROVE  \A f \in Sized : fetch'[y].data[f] \in Amounts
    <3>1. CASE y = x BY <1>3, <3>1 DEF WebInv, Small, SmallRow
    <3>2. CASE y # x BY <1>3, <2>1, <3>2 DEF WebInv, Small, SmallFetch
    <3> QED BY <3>1, <3>2
  <2> QED BY <1>2, <2>1 DEF SmallFetch
<1>7. /\ RowShaped' /\ SmallRow' /\ CacheShaped' /\ SmallCache' /\ FormShaped' /\ SmallForm'
      /\ SentShaped' /\ SmallSent' /\ SentTrue' /\ FormTrue'
  BY <1>1, Standing
<1>8. PageTrue'
  <2>1. CASE page \in Web!Dialogs BY <1>1, <2>1 DEF PageTrue
  <2>2. CASE page \notin Web!Dialogs
    <3>1. x = 1 BY <2>2, PageFacts
    <3>2. fetch'[1].old = {} /\ fetch[1].pc # "none" BY <1>1, <1>3, <3>1
    <3> QED BY <1>1, <1>2, <2>2, <3>2 DEF WebInv, PageTrue
  <2> QED BY <2>1, <2>2
<1> QED BY <1>4, <1>5, <1>6, <1>7, <1>8 DEF WebInv, Shaped, Small

(* What becomes of the save that waits for the page to be read again.      *)
LEMMA Rereading ==
    ASSUME sent' = Web!Reread
    PROVE  /\ sent.pc = "reread" => sent'.pc = "none"
           /\ sent.pc # "reread" => sent' = sent
  BY DEF Web!Reread, Web!NoSave

(* An answer becomes the copy, and fills the form if it differs.          *)
LEMMA ArriveStep == ASSUME WebInv, NEW x \in Web!Records, Web!Arrive(x) PROVE WebInv'
<1>1. /\ fetch[x].pc = "answered"
      /\ cache' = [cache EXCEPT ![x] = Web!Holding(fetch[x].data, fetch[x].old, TRUE)]
      /\ form' = IF form.at = x /\ (~cache[x].has \/ cache[x].data # fetch[x].data)
                 THEN Web!Filled(x, fetch[x].data) ELSE form
      /\ fetch' = [fetch EXCEPT ![x] = [pc |-> "none"]]
      /\ sent' = Web!Reread
      /\ page' = page /\ row' = row
  BY DEF Web!Arrive, Web!NoFetch
<1>2. /\ Web!Records' = Web!Records /\ Web!Fields' = Web!Fields /\ Web!Keys' = Web!Keys
      /\ Sized' = Sized
  BY <1>1, SamePage DEF Sized
<1>3. /\ fetch' = [y \in Web!Records |-> fetch'[y]]
      /\ fetch'[x].pc = "none"
      /\ \A y \in Web!Records \ {x} : fetch'[y] = fetch[y]
  BY <1>1 DEF WebInv, Shaped, FetchShaped
<1>4. /\ cache' = [y \in Web!Records |-> cache'[y]]
      /\ cache'[x] = Web!Holding(fetch[x].data, fetch[x].old, TRUE)
      /\ \A y \in Web!Records \ {x} : cache'[y] = cache[y]
  BY <1>1 DEF WebInv, Shaped, CacheShaped
<1>5. cache'[x].has /\ cache'[x].data = fetch[x].data /\ cache'[x].old = fetch[x].old
  BY <1>4 DEF Web!Holding
<1>6. FetchShaped' /\ SmallFetch'
  <2>1. ASSUME NEW y \in Web!Records PROVE Coming(fetch[y])'
    <3>1. CASE y = x BY <1>3, <3>1 DEF Coming
    <3>2. CASE y # x
      <4>1. Coming(fetch[y]) /\ fetch'[y] = fetch[y]
        BY <1>3, <3>2 DEF WebInv, Shaped, FetchShaped
      <4> QED BY <1>2, <4>1 DEF Coming
    <3> QED BY <3>1, <3>2
  <2>2. SmallFetch' BY <1>2, <1>3 DEF WebInv, Small, SmallFetch
  <2> QED BY <1>2, <1>3, <2>1, <2>2 DEF FetchShaped
<1>7. CacheShaped'
  <2>1. ASSUME NEW y \in Web!Records PROVE Kept(cache[y])'
    <3>1. CASE y = x
      <4>1. fetch[x].data = [k \in Web!Keys |-> fetch[x].data[k]]
        BY <1>1 DEF WebInv, Shaped, FetchShaped, Coming
      <4>2. cache'[x].data = [k \in Web!Keys' |-> cache'[x].data[k]] BY <1>2, <1>5, <4>1
      <4>3. cache'[x] = Web!Holding(cache'[x].data, cache'[x].old, cache'[x].fresh)
        BY <1>4 DEF Web!Holding
      <4>4. cache'[x].has \in BOOLEAN BY <1>4 DEF Web!Holding
      <4> QED BY <3>1, <4>2, <4>3, <4>4 DEF Kept
    <3>2. CASE y # x
      <4>1. Kept(cache[y]) /\ cache'[y] = cache[y]
        BY <1>4, <3>2 DEF WebInv, Shaped, CacheShaped
      <4> QED BY <1>2, <4>1 DEF Kept
    <3> QED BY <3>1, <3>2
  <2> QED BY <1>2, <1>4, <2>1 DEF CacheShaped
<1>8. \A f \in Sized : fetch[x].data[f] \in Amounts BY <1>1 DEF WebInv, Small, SmallFetch
<1>9. SmallCache'
  <2>1. ASSUME NEW y \in Web!Records, cache'[y].has
        PROVE  \A f \in Sized : cache'[y].data[f] \in Amounts
    <3>1. CASE y = x BY <1>5, <1>8, <3>1
    <3>2. CASE y # x BY <1>4, <2>1, <3>2 DEF WebInv, Small, SmallCache
    <3> QED BY <3>1, <3>2
  <2> QED BY <1>2, <2>1 DEF SmallCache
<1>10. CopiesTrue'
  <2>1. ASSUME NEW y \in Web!Records
        PROVE  /\ cache'[y].has => \A k \in Web!Keys :
                     ~Missing(cache'[y].old, k) => cache'[y].data[k] = row[y][k]
               /\ fetch'[y].pc = "answered" => \A k \in Web!Keys :
                     ~Missing(fetch'[y].old, k) => fetch'[y].data[k] = row[y][k]
               /\ fetch'[y].pc = "answered" /\ cache'[y].has => fetch'[y].old \subseteq cache'[y].old
    <3>1. CASE y = x
      <4>1. \A k \in Web!Keys : ~Missing(fetch[x].old, k) => fetch[x].data[k] = row[x][k]
        BY <1>1 DEF WebInv, CopiesTrue
      <4>2. fetch'[x].pc # "answered" BY <1>3
      <4> QED BY <1>5, <3>1, <4>1, <4>2
    <3>2. CASE y # x
      <4>1. cache'[y] = cache[y] /\ fetch'[y] = fetch[y] BY <1>3, <1>4, <3>2
      <4> QED BY <4>1 DEF WebInv, CopiesTrue
    <3> QED BY <3>1, <3>2
  <2>2. row' = row /\ Web!Records' = Web!Records /\ Web!Keys' = Web!Keys BY <1>1, <1>2
  <2> QED BY <2>1, <2>2 DEF CopiesTrue
<1>11. FormShaped' /\ SmallForm' /\ FormTrue'
  <2>1. CASE form.at = x /\ (~cache[x].has \/ cache[x].data # fetch[x].data)
    <3>1. form' = Web!Filled(x, fetch[x].data) BY <1>1, <2>1
    <3>2. /\ FormShaped' /\ SmallForm'
          /\ form'.at = x /\ form'.typed = {}
          /\ \A f \in Web!Fields : form'.values[f] = Web!Show(f, fetch[x].data[f])
      BY <1>1, <1>8, <3>1, Filling
    <3>3. FormTrue' BY <1>2, <1>5, <3>2, PageFacts DEF FormTrue
    <3> QED BY <3>2, <3>3
  <2>2. CASE ~(form.at = x /\ (~cache[x].has \/ cache[x].data # fetch[x].data))
    <3>1. form' = form BY <1>1, <2>2
    <3>2. FormShaped' /\ SmallForm' BY <1>1, <3>1, Standing
    <3>3. ASSUME form.at # Nobody, cache'[form.at].has, NEW f \in Web!Fields \ form.typed
          PROVE  form.values[f] = Web!Show(f, cache'[form.at].data[f])
      <4>1. form.at \in Web!Records BY <3>3 DEF WebInv, FormTrue
      <4>2. CASE form.at = x
        <5>1. cache[x].has /\ cache[x].data = fetch[x].data BY <2>2, <4>2
        <5> QED BY <1>5, <3>3, <4>2, <5>1 DEF WebInv, FormTrue
      <4>3. CASE form.at # x
        BY <1>4, <3>3, <4>1, <4>3 DEF WebInv, FormTrue
      <4> QED BY <4>2, <4>3
    <3>4. FormTrue' BY <1>2, <3>1, <3>3 DEF WebInv, FormTrue
    <3> QED BY <3>2, <3>4
  <2> QED BY <2>1, <2>2
<1>12. SentShaped' /\ SmallSent' /\ SentTrue'
  <2>1. CASE sent.pc = "reread"
    <3>1. sent'.pc \notin Waiting BY <1>1, <2>1, Rereading DEF Waiting
    <3> QED BY <1>1, <3>1, Standing
  <2>2. CASE sent.pc # "reread" BY <1>1, <2>2, Rereading, Standing
  <2> QED BY <2>1, <2>2
<1>13. PageTrue'
  <2>1. CASE page \in Web!Dialogs BY <1>1, <2>1 DEF PageTrue
  <2>2. CASE page \notin Web!Dialogs
    <3>1. x = 1 BY <2>2, PageFacts
    <3>2. form'.at = 1
      <4>1. form.at = 1 BY <2>2 DEF WebInv, PageTrue
      <4> QED BY <1>1, <3>1, <4>1 DEF Web!Filled
    <3>3. sent'.pc = "none" BY <1>1, <2>2, <3>1, Rereading DEF WebInv, PageTrue
    <3>4. \A f \in Web!Fields : <<f, "own">> \notin cache'[1].old
      BY <1>1, <1>5, <2>2, <3>1 DEF WebInv, PageTrue
    <3>5. fetch'[1].pc = "none" BY <1>3, <3>1
    <3>6. sent'.pc \notin Waiting BY <3>3 DEF Waiting
    <3> QED BY <1>1, <1>2, <2>2, <3>2, <3>4, <3>5, <3>6 DEF PageTrue
  <2> QED BY <2>1, <2>2
<1>14. RowShaped' /\ SmallRow' BY <1>1, Standing
<1> QED BY <1>6, <1>7, <1>9, <1>10, <1>11, <1>12, <1>13, <1>14 DEF WebInv, Shaped, Small

(* No answer; a save that waits for one is done.                          *)
LEMMA FailFetchStep == ASSUME WebInv, NEW x \in Web!Records, Web!FailFetch(x) PROVE WebInv'
<1>1. /\ fetch[x].pc # "none"
      /\ fetch' = [fetch EXCEPT ![x] = [pc |-> "none"]]
      /\ sent' = Web!Reread
      /\ page' = page /\ row' = row /\ cache' = cache /\ form' = form
  BY DEF Web!FailFetch, Web!NoFetch
<1>2. /\ fetch' = [y \in Web!Records |-> fetch'[y]]
      /\ fetch'[x].pc = "none"
      /\ \A y \in Web!Records \ {x} : fetch'[y] = fetch[y]
  BY <1>1 DEF WebInv, Shaped, FetchShaped
<1>3. FetchShaped' /\ CopiesTrue' /\ SmallFetch' BY <1>1, <1>2, Fewer
<1>4. /\ RowShaped' /\ SmallRow' /\ CacheShaped' /\ SmallCache' /\ FormShaped' /\ SmallForm'
      /\ FormTrue'
  BY <1>1, Standing
<1>5. SentShaped' /\ SmallSent' /\ SentTrue'
  <2>1. CASE sent.pc = "reread"
    <3>1. sent'.pc \notin Waiting BY <1>1, <2>1, Rereading DEF Waiting
    <3> QED BY <1>1, <3>1, Standing
  <2>2. CASE sent.pc # "reread" BY <1>1, <2>2, Rereading, Standing
  <2> QED BY <2>1, <2>2
<1>6. PageTrue'
  <2>1. CASE page \in Web!Dialogs BY <1>1, <2>1 DEF PageTrue
  <2>2. CASE page \notin Web!Dialogs
    <3>1. x = 1 BY <2>2, PageFacts
    <3>2. sent'.pc = "none" BY <1>1, <2>2, <3>1, Rereading DEF WebInv, PageTrue
    <3>3. fetch'[1].pc = "none" BY <1>2, <3>1
    <3>4. sent'.pc \notin Waiting BY <3>2 DEF Waiting
    <3>5. Web!Fields' = Web!Fields BY <1>1, SamePage
    <3> QED BY <1>1, <2>2, <3>3, <3>4, <3>5 DEF WebInv, PageTrue
  <2> QED BY <2>1, <2>2
<1> QED BY <1>3, <1>4, <1>5, <1>6 DEF WebInv, Shaped, Small

(* A copy ages: nothing is said of its age.                               *)
LEMMA AgeStep == ASSUME WebInv, NEW x \in Web!Records, Web!Age(x) PROVE WebInv'
<1>1. /\ page \in Web!Dialogs /\ cache[x].has
      /\ cache' = [cache EXCEPT ![x].fresh = FALSE]
      /\ page' = page /\ row' = row /\ fetch' = fetch /\ form' = form /\ sent' = sent
  BY DEF Web!Age
<1>2. /\ Web!Records' = Web!Records /\ Web!Fields' = Web!Fields /\ Web!Keys' = Web!Keys
      /\ Sized' = Sized
  BY <1>1, SamePage DEF Sized
<1>3. /\ cache' = [y \in Web!Records |-> cache'[y]]
      /\ cache'[x] = [cache[x] EXCEPT !.fresh = FALSE]
      /\ \A y \in Web!Records \ {x} : cache'[y] = cache[y]
  BY <1>1 DEF WebInv, Shaped, CacheShaped
<1>4. Kept(cache[x]) BY DEF WebInv, Shaped, CacheShaped
<1>5. /\ cache'[x].has = cache[x].has /\ cache'[x].has \in BOOLEAN
      /\ cache'[x].data = cache[x].data /\ cache'[x].old = cache[x].old
      /\ cache'[x] = Web!Holding(cache'[x].data, cache'[x].old, cache'[x].fresh)
  <2>1. PICK c : c = cache[x] OBVIOUS
  <2>2. PICK h, d, o, r : c = [has |-> h, data |-> d, old |-> o, fresh |-> r]
    BY <1>1, <1>4, <2>1 DEF Kept, Web!Holding
  <2>3. PICK s : s = FALSE OBVIOUS
  <2>4. cache'[x] = [c EXCEPT !.fresh = s] BY <1>3, <2>1, <2>3
  <2>5. c.has = h /\ c.data = d /\ c.old = o BY <2>2
  <2>6. cache'[x] = [has |-> h, data |-> d, old |-> o, fresh |-> s] BY <2>2, <2>4
  <2>7. cache'[x].has = h /\ cache'[x].data = d /\ cache'[x].old = o /\ cache'[x].fresh = s
    BY <2>6
  <2> QED BY <1>1, <1>4, <2>1, <2>5, <2>6, <2>7 DEF Web!Holding, Kept
<1>6. CacheShaped'
  <2>1. ASSUME NEW y \in Web!Records PROVE Kept(cache[y])'
    <3>1. CASE y = x
      <4>1. cache[x].data = [k \in Web!Keys |-> cache[x].data[k]] BY <1>1, <1>4 DEF Kept
      <4>2. cache'[x].data = [k \in Web!Keys' |-> cache'[x].data[k]] BY <1>2, <1>5, <4>1
      <4> QED BY <1>5, <3>1, <4>2 DEF Kept
    <3>2. CASE y # x
      <4>1. Kept(cache[y]) /\ cache'[y] = cache[y]
        BY <1>3, <3>2 DEF WebInv, Shaped, CacheShaped
      <4> QED BY <1>2, <4>1 DEF Kept
    <3> QED BY <3>1, <3>2
  <2> QED BY <1>2, <1>3, <2>1 DEF CacheShaped
<1>7. \A y \in Web!Records :
        cache'[y].has = cache[y].has /\ cache'[y].data = cache[y].data /\ cache'[y].old = cache[y].old
  BY <1>3, <1>5
<1>8. SmallCache' /\ CopiesTrue' /\ FormTrue'
  <2>1. SmallCache' BY <1>2, <1>7 DEF WebInv, Small, SmallCache
  <2>2. CopiesTrue' BY <1>1, <1>2, <1>7 DEF WebInv, CopiesTrue
  <2>3. FormTrue' BY <1>1, <1>2, <1>7 DEF WebInv, FormTrue
  <2> QED BY <2>1, <2>2, <2>3
<1>9. FetchShaped' /\ SmallFetch'
  <2>1. FetchShaped' BY <1>1, <1>2 DEF WebInv, Shaped, FetchShaped, Coming
  <2>2. SmallFetch' BY <1>1, <1>2 DEF WebInv, Small, SmallFetch
  <2> QED BY <2>1, <2>2
<1>10. /\ RowShaped' /\ SmallRow' /\ FormShaped' /\ SmallForm'
       /\ SentShaped' /\ SmallSent' /\ SentTrue'
  BY <1>1, Standing
<1>11. PageTrue' BY <1>1 DEF PageTrue
<1> QED BY <1>6, <1>8, <1>9, <1>10, <1>11 DEF WebInv, Shaped, Small

(* What is typed is named.                                                *)
LEMMA TypeStep ==
    ASSUME WebInv, NEW f \in Web!Fields, NEW s \in Web!Inputs(f), Web!Type(f, s)
    PROVE  WebInv'
<1>1. /\ form' = [form EXCEPT !.values = [form.values EXCEPT ![f] = s], !.typed = form.typed \cup {f}]
      /\ form.at # Nobody
      /\ page' = page /\ row' = row /\ cache' = cache /\ fetch' = fetch /\ sent' = sent
  BY DEF Web!Type
<1>2. Web!Records' = Web!Records /\ Web!Fields' = Web!Fields /\ Sized' = Sized
  BY <1>1, SamePage DEF Sized
<1>3. FetchShaped' /\ CopiesTrue' /\ SmallFetch'
  <2>1. fetch = [y \in Web!Records |-> fetch[y]] BY DEF WebInv, Shaped, FetchShaped
  <2> QED BY <1>1, <2>1, Fewer
<1>4. /\ RowShaped' /\ SmallRow' /\ CacheShaped' /\ SmallCache'
      /\ SentShaped' /\ SmallSent' /\ SentTrue'
  BY <1>1, Standing
<1>5. PICK a, v, t : form = [at |-> a, values |-> v, typed |-> t]
  BY DEF WebInv, Shaped, FormShaped
<1>6. form.at = a /\ form.values = v /\ form.typed = t BY <1>5
<1>7. form' = [at |-> a, values |-> [v EXCEPT ![f] = s], typed |-> t \cup {f}]
  BY <1>1, <1>5, <1>6
<1>8. form'.at = a /\ form'.values = [v EXCEPT ![f] = s] /\ form'.typed = t \cup {f} BY <1>7
<1>9. v = [g \in Web!Fields |-> v[g]] BY <1>6 DEF WebInv, Shaped, FormShaped
<1>10. form'.values = [g \in Web!Fields |-> IF g = f THEN s ELSE v[g]] BY <1>8, <1>9
<1>11. FormShaped' BY <1>2, <1>7, <1>8, <1>10 DEF FormShaped
<1>12. SmallForm'
  <2>1. ASSUME NEW g \in Sized PROVE form'.values[g] \in Display
    <3>1. CASE g = f
      <4>1. f \in {"quota", "left"} BY <2>1, <3>1 DEF Sized
      <4>2. s \in Display BY <4>1 DEF Web!Inputs, Display
      <4> QED BY <1>10, <3>1, <4>2
    <3>2. CASE g # f
      <4>1. v[g] \in Display /\ g \in Web!Fields BY <1>6 DEF WebInv, Small, SmallForm, Sized
      <4> QED BY <1>10, <3>2, <4>1
    <3> QED BY <3>1, <3>2
  <2> QED BY <1>2, <2>1 DEF SmallForm
<1>13. FormTrue'
  <2>1. \A g \in Web!Fields \ form'.typed : g \in Web!Fields \ form.typed /\ form'.values[g] = form.values[g]
    BY <1>6, <1>8, <1>10
  <2>2. form'.at = form.at BY <1>6, <1>8
  <2> QED BY <1>1, <1>2, <2>1, <2>2 DEF WebInv, FormTrue
<1>14. PageTrue'
  <2>1. CASE page \in Web!Dialogs BY <1>1, <2>1 DEF PageTrue
  <2>2. CASE page \notin Web!Dialogs
    <3>1. form'.at = form.at /\ form.typed \subseteq form'.typed BY <1>6, <1>8
    <3> QED BY <1>1, <1>2, <2>2, <3>1 DEF WebInv, PageTrue
  <2> QED BY <2>1, <2>2
<1> QED BY <1>3, <1>4, <1>11, <1>12, <1>13, <1>14 DEF WebInv, Shaped, Small

(* A save takes along what the copy in the form misses.                   *)
LEMMA PressStep ==
    ASSUME WebInv, NEW section \in Web!Sections, Web!Press(section) PROVE WebInv'
<1>1. /\ form.at # Nobody /\ sent.pc = "none"
      /\ page \notin Web!Dialogs => cache[1].has \/ fetch[1].pc = "none"
      /\ sent' = [pc |-> "sent", at |-> form.at, todo |-> section,
                  values |-> form.values, typed |-> form.typed,
                  blind |-> ~cache[form.at].has,
                  old |-> IF cache[form.at].has THEN cache[form.at].old ELSE {}]
      /\ page' = page /\ row' = row /\ cache' = cache /\ fetch' = fetch /\ form' = form
  BY DEF Web!Press
<1>2. /\ Web!Records' = Web!Records /\ Web!Fields' = Web!Fields /\ Web!Keys' = Web!Keys
      /\ Sized' = Sized
  BY <1>1, SamePage DEF Sized
<1>3. FetchShaped' /\ CopiesTrue' /\ SmallFetch'
  <2>1. fetch = [y \in Web!Records |-> fetch[y]] BY DEF WebInv, Shaped, FetchShaped
  <2> QED BY <1>1, <2>1, Fewer
<1>4. /\ RowShaped' /\ SmallRow' /\ CacheShaped' /\ SmallCache' /\ FormShaped' /\ SmallForm'
      /\ FormTrue'
  BY <1>1, Standing
<1>5. section \subseteq Web!Fields BY DEF Web!Sections
<1>6. form.at \in Web!Records BY <1>1 DEF WebInv, FormTrue
<1>7. cache[form.at].has \in BOOLEAN BY <1>6 DEF WebInv, Shaped, CacheShaped, Kept
<1>8. /\ sent'.pc = "sent" /\ sent'.at = form.at /\ sent'.todo = section
      /\ sent'.values = form.values /\ sent'.typed = form.typed
      /\ sent'.blind \in BOOLEAN /\ (sent'.blind <=> ~cache[form.at].has)
      /\ cache[form.at].has => sent'.old = cache[form.at].old
  BY <1>1, <1>7
<1>9. SentShaped'
  <2>1. sent' = [pc |-> sent'.pc, at |-> sent'.at, todo |-> sent'.todo, values |-> sent'.values,
                 typed |-> sent'.typed, blind |-> sent'.blind, old |-> sent'.old]
    BY <1>1
  <2> QED BY <1>2, <1>5, <1>6, <1>8, <2>1 DEF SentShaped
<1>10. SmallSent' BY <1>2, <1>8 DEF WebInv, Small, SmallForm, SmallSent
<1>11. SentTrue'
  <2> SUFFICES ASSUME ~sent'.blind, NEW f \in section
               PROVE  \/ f \in sent'.typed \/ <<f, "other">> \in sent'.old
                      \/ page \in Web!Dialogs /\ <<f, "own">> \in sent'.old
                      \/ sent'.values[f] = Web!Show(f, row[form.at][f])
    BY <1>1, <1>8 DEF SentTrue
  <2>1. cache[form.at].has /\ sent'.old = cache[form.at].old BY <1>8
  <2>2. f \in Web!Fields /\ f \in Web!Keys BY <1>5, PageFacts
  <2>3. CASE f \in form.typed BY <1>8, <2>3
  <2>4. CASE <<f, "other">> \in cache[form.at].old BY <2>1, <2>4
  <2>5. CASE f \notin form.typed /\ <<f, "own">> \in cache[form.at].old
    <3>1. CASE page \in Web!Dialogs BY <2>1, <2>5, <3>1
    <3>2. CASE page \notin Web!Dialogs
      BY <2>1, <2>2, <2>5, <3>2 DEF WebInv, PageTrue
    <3> QED BY <3>1, <3>2
  <2>6. CASE f \notin form.typed /\ ~Missing(cache[form.at].old, f)
    <3>1. form.values[f] = Web!Show(f, cache[form.at].data[f])
      BY <1>1, <2>1, <2>2, <2>6 DEF WebInv, FormTrue
    <3>2. cache[form.at].data[f] = row[form.at][f]
      BY <1>6, <2>1, <2>2, <2>6 DEF WebInv, CopiesTrue
    <3> QED BY <1>8, <3>1, <3>2
  <2> QED BY <2>3, <2>4, <2>5, <2>6 DEF Missing
<1>12. PageTrue'
  <2>1. CASE page \in Web!Dialogs BY <1>1, <2>1 DEF PageTrue
  <2>2. CASE page \notin Web!Dialogs
    <3>1. form.at = 1 BY <2>2 DEF WebInv, PageTrue
    <3>2. fetch[1].pc = "none" BY <1>1, <2>2 DEF WebInv, PageTrue
    <3>3. sent'.blind => ~cache[1].has BY <1>8, <3>1
    <3>4. ~sent'.blind => cache[1].has /\ sent'.old \subseteq cache[1].old
                          /\ sent'.typed \subseteq form.typed
      BY <1>8, <3>1
    <3> QED BY <1>1, <1>2, <2>2, <3>1, <3>2, <3>3, <3>4 DEF WebInv, PageTrue
  <2> QED BY <2>1, <2>2
<1> QED BY <1>3, <1>4, <1>9, <1>10, <1>11, <1>12 DEF WebInv, Shaped, Small

(* A page reads again after a save, a dialog closes.                      *)
LEMMA ReplyStep == ASSUME WebInv, Web!Reply PROVE WebInv'
<1>1. /\ page' = page /\ row' = row /\ cache' = cache /\ sent'.pc \in {"none", "reread"}
      /\ page \in Web!Dialogs =>
            form' = [form EXCEPT !.at = Nobody, !.typed = {}] /\ fetch' = fetch
      /\ page \notin Web!Dialogs =>
            form' = form /\ fetch' = [fetch EXCEPT ![1] = [pc |-> "asked"]] /\ sent'.pc = "reread"
  BY DEF Web!Reply, Web!NoSave
<1>2. Web!Records' = Web!Records /\ Web!Fields' = Web!Fields /\ Sized' = Sized
  BY <1>1, SamePage DEF Sized
<1>3. /\ RowShaped' /\ SmallRow' /\ CacheShaped' /\ SmallCache'
      /\ SentShaped' /\ SmallSent' /\ SentTrue'
  BY <1>1, Standing DEF Waiting
<1>4. fetch = [y \in Web!Records |-> fetch[y]] BY DEF WebInv, Shaped, FetchShaped
<1>5. CASE page \in Web!Dialogs
  <2>1. FetchShaped' /\ CopiesTrue' /\ SmallFetch' BY <1>1, <1>4, <1>5, Fewer
  <2>2. PICK a, v, t : form = [at |-> a, values |-> v, typed |-> t]
    BY DEF WebInv, Shaped, FormShaped
  <2>3. form' = [at |-> Nobody, values |-> v, typed |-> {}] /\ form.values = v BY <1>1, <1>5, <2>2
  <2>4. FormShaped' /\ SmallForm'
    BY <1>2, <2>3 DEF WebInv, Shaped, FormShaped, Small, SmallForm
  <2>5. FormTrue' BY <2>3 DEF FormTrue
  <2>6. PageTrue' BY <1>1, <1>5 DEF PageTrue
  <2> QED BY <1>3, <2>1, <2>4, <2>5, <2>6 DEF WebInv, Shaped, Small
<1>6. CASE page \notin Web!Dialogs
  <2>1. fetch' = [fetch EXCEPT ![1] = [pc |-> "asked"]] BY <1>1, <1>6
  <2>2. /\ fetch' = [y \in Web!Records |-> fetch'[y]]
        /\ fetch'[1].pc = "asked"
        /\ \A y \in Web!Records \ {1} : fetch'[y] = fetch[y]
    BY <1>4, <1>6, <2>1, PageFacts
  <2>3. FetchShaped' /\ CopiesTrue' /\ SmallFetch' BY <1>1, <2>2, Fewer
  <2>4. FormShaped' /\ SmallForm' /\ FormTrue' BY <1>1, <1>6, Standing
  <2>5. PageTrue' BY <1>1, <1>2, <1>6, <2>2 DEF WebInv, PageTrue, Waiting
  <2> QED BY <1>3, <2>3, <2>4, <2>5 DEF WebInv, Shaped, Small
<1> QED BY <1>5, <1>6

(* A save that failed is forgotten.                                       *)
LEMMA FailedStep == ASSUME WebInv, Web!Failed PROVE WebInv'
<1>1. /\ sent.pc \in Waiting /\ sent'.pc = "none"
      /\ page' = page /\ row' = row /\ cache' = cache /\ fetch' = fetch /\ form' = form
  BY DEF Web!Failed, Web!NoSave, Waiting
<1>2. FetchShaped' /\ CopiesTrue' /\ SmallFetch'
  <2>1. fetch = [y \in Web!Records |-> fetch[y]] BY DEF WebInv, Shaped, FetchShaped
  <2> QED BY <1>1, <2>1, Fewer
<1>3. sent'.pc \notin Waiting BY <1>1 DEF Waiting
<1>4. /\ RowShaped' /\ SmallRow' /\ CacheShaped' /\ SmallCache' /\ FormShaped' /\ SmallForm'
      /\ SentShaped' /\ SmallSent' /\ SentTrue' /\ FormTrue'
  BY <1>1, <1>3, Standing
<1>5. Web!Fields' = Web!Fields BY <1>1, SamePage
<1>6. PageTrue' BY <1>1, <1>3, <1>5 DEF WebInv, PageTrue, Waiting
<1> QED BY <1>2, <1>4, <1>6 DEF WebInv, Shaped, Small

(* What a write changes is named among what the copies miss.               *)
LEMMA Changes ==
    ASSUME NEW x, NEW new, NEW who
    PROVE  \A k, w : <<k, w>> \in Web!Changed(x, new, who)
                        <=> w = who /\ k \in Web!Keys /\ new[k] # row[x][k]
  BY DEF Web!Changed

(* A write that comes with the account of what it changes leaves the       *)
(* copies true.                                                            *)
LEMMA Recorded ==
    ASSUME WebInv, page' = page, form' = form, NEW x \in Web!Records,
           NEW new, new = [k \in Web!Keys |-> new[k]], \A f \in Sized : new[f] \in Amounts,
           NEW who \in {"own", "other"}, Web!Put(x, new, who)
    PROVE  /\ RowShaped' /\ CacheShaped' /\ FetchShaped' /\ FormShaped'
           /\ SmallRow' /\ SmallCache' /\ SmallFetch' /\ SmallForm'
           /\ CopiesTrue' /\ FormTrue'
<1> DEFINE C == Web!Changed(x, new, who)
<1>1. /\ RowShaped' /\ CacheShaped' /\ FetchShaped'
      /\ row'[x] = new /\ \A y \in Web!Records \ {x} : row'[y] = row[y]
      /\ \A y \in Web!Records :
                /\ cache'[y].has = cache[y].has
                /\ cache[y].has => cache'[y].data = cache[y].data
                     /\ cache'[y].old = cache[y].old \cup (IF y = x THEN C ELSE {})
                /\ fetch'[y].pc = fetch[y].pc
                /\ fetch[y].pc = "answered" => fetch'[y].data = fetch[y].data
                     /\ fetch'[y].old = fetch[y].old \cup (IF y = x THEN C ELSE {})
  BY Putting DEF WebInv
<1>2. \A k \in Web!Keys : <<k, who>> \notin C => new[k] = row[x][k] BY Changes
<1> HIDE DEF C
<1>3. /\ Web!Records' = Web!Records /\ Web!Fields' = Web!Fields /\ Web!Keys' = Web!Keys
      /\ Sized' = Sized
  BY SamePage DEF Sized
<1>4. FormShaped' /\ SmallForm' BY Standing
<1>5. SmallRow' BY <1>1, <1>3 DEF WebInv, Small, SmallRow
<1>6. SmallCache' BY <1>1, <1>3 DEF WebInv, Small, SmallCache
<1>7. SmallFetch' BY <1>1, <1>3 DEF WebInv, Small, SmallFetch
<1>8. FormTrue' BY <1>1, <1>3 DEF WebInv, FormTrue
<1>9. CopiesTrue'
  <2>1. ASSUME NEW y \in Web!Records, NEW k \in Web!Keys, NEW o, NEW d, NEW p,
               ~Missing(o, k) => d[k] = row[y][k],
               p = o \cup (IF y = x THEN C ELSE {}), ~Missing(p, k)
        PROVE  d[k] = row'[y][k]
    <3>1. ~Missing(o, k) BY <2>1 DEF Missing
    <3>2. d[k] = row[y][k] BY <2>1, <3>1
    <3>3. CASE y = x
      <4>1. <<k, who>> \notin C BY <2>1, <3>3 DEF Missing
      <4> QED BY <1>1, <1>2, <3>2, <3>3, <4>1
    <3>4. CASE y # x BY <1>1, <3>2, <3>4
    <3> QED BY <3>3, <3>4
  <2>2. ASSUME NEW y \in Web!Records, cache'[y].has, NEW k \in Web!Keys, ~Missing(cache'[y].old, k)
        PROVE  cache'[y].data[k] = row'[y][k]
    <3>1. cache[y].has /\ cache'[y].data = cache[y].data
          /\ cache'[y].old = cache[y].old \cup (IF y = x THEN C ELSE {})
      BY <1>1, <2>2
    <3>2. ~Missing(cache[y].old, k) => cache[y].data[k] = row[y][k]
      BY <3>1 DEF WebInv, CopiesTrue
    <3>3. cache[y].data[k] = row'[y][k] BY <2>1, <2>2, <3>1, <3>2
    <3> QED BY <3>1, <3>3
  <2>3. ASSUME NEW y \in Web!Records, fetch'[y].pc = "answered", NEW k \in Web!Keys,
               ~Missing(fetch'[y].old, k)
        PROVE  fetch'[y].data[k] = row'[y][k]
    <3>1. fetch[y].pc = "answered" /\ fetch'[y].data = fetch[y].data
          /\ fetch'[y].old = fetch[y].old \cup (IF y = x THEN C ELSE {})
      BY <1>1, <2>3
    <3>2. ~Missing(fetch[y].old, k) => fetch[y].data[k] = row[y][k]
      BY <3>1 DEF WebInv, CopiesTrue
    <3>3. fetch[y].data[k] = row'[y][k] BY <2>1, <2>3, <3>1, <3>2
    <3> QED BY <3>1, <3>3
  <2>4. ASSUME NEW y \in Web!Records, fetch'[y].pc = "answered", cache'[y].has
        PROVE  fetch'[y].old \subseteq cache'[y].old
    <3>1. fetch[y].pc = "answered" /\ cache[y].has
          /\ fetch'[y].old = fetch[y].old \cup (IF y = x THEN C ELSE {})
          /\ cache'[y].old = cache[y].old \cup (IF y = x THEN C ELSE {})
      BY <1>1, <2>4
    <3>2. fetch[y].old \subseteq cache[y].old BY <3>1 DEF WebInv, CopiesTrue
    <3> QED BY <3>1, <3>2
  <2> QED BY <1>3, <2>2, <2>3, <2>4 DEF CopiesTrue
<1> QED BY <1>1, <1>4, <1>5, <1>6, <1>7, <1>8, <1>9

(* What Apply writes of the field it handles, when the form shows what is  *)
(* stored and can say it, is what is stored.                               *)
LEMMA WrittenBack ==
    ASSUME WebInv, NEW x \in Web!Records, NEW f \in Web!Fields, Web!Whole(f, row[x][f])
    PROVE  \A w : Web!Parse(f, Web!Show(f, row[x][f]), w) = row[x][f]
<1>1. CASE f \in {"quota", "left"}
  <2>1. row[x][f] \in Amounts BY <1>1 DEF WebInv, Small, SmallRow, Sized
  <2> QED BY <1>1, <2>1, Shows
<1>2. CASE f \notin {"quota", "left"}
  <2>1. f = "print" => row[x][f] # Web!Null BY DEF Web!Whole
  <2>2. Web!Show(f, row[x][f]) = row[x][f] BY <1>2, <2>1, ShowsAsStored
  <2>3. \A w : Web!Parse(f, row[x][f], w) = row[x][f] BY <1>2, <2>1, ShowsAsStored
  <2> QED BY <2>2, <2>3
<1> QED BY <1>1, <1>2

(* The parts of a save that Apply writes, and what it writes.              *)
Writes(part, new) ==
    /\ part \subseteq sent.todo
    /\ \A k \in Web!Keys : new[k] = IF k \in part
                 THEN Web!Parse(k, sent.values[k], row[sent.at][k])
                 ELSE IF k \in Web!Hidden THEN Web!Fixed ELSE row[sent.at][k]
    /\ new = [k \in Web!Keys |-> new[k]]
    /\ Web!Put(sent.at, new, "own")
    /\ sent' = [sent EXCEPT !.todo = sent.todo \ part,
                            !.pc = IF sent.todo = part THEN "applied" ELSE "sent"]
    /\ sent.pc = "sent" /\ page' = page /\ form' = form

LEMMA Applying ==
    ASSUME WebInv, Web!Apply
    PROVE  \E part, new : Writes(part, new)
<1> DEFINE part == Web!NextPart(sent.todo)
           new == [k \in Web!Keys |-> IF k \in part
                     THEN Web!Parse(k, sent.values[k], row[sent.at][k])
                     ELSE IF k \in Web!Hidden THEN Web!Fixed ELSE row[sent.at][k]]
<1>1. part \subseteq sent.todo BY DEF Web!NextPart
<1>2. /\ Web!Put(sent.at, new, "own")
      /\ sent' = [sent EXCEPT !.todo = sent.todo \ part,
                              !.pc = IF sent.todo = part THEN "applied" ELSE "sent"]
      /\ sent.pc = "sent" /\ page' = page /\ form' = form
  BY DEF Web!Apply
<1>3. /\ \A k \in Web!Keys : new[k] = IF k \in part
                 THEN Web!Parse(k, sent.values[k], row[sent.at][k])
                 ELSE IF k \in Web!Hidden THEN Web!Fixed ELSE row[sent.at][k]
      /\ new = [k \in Web!Keys |-> new[k]]
  OBVIOUS
<1> HIDE DEF part, new
<1>4. Writes(part, new) BY <1>1, <1>2, <1>3 DEF Writes
<1> QED BY <1>4

(* Apart from dialogs, the own writes are of what was typed.              *)
LEMMA ApplyStep == ASSUME WebInv, Web!Apply PROVE WebInv'
<1> DEFINE x == sent.at
<1>0. PICK part, new : Writes(part, new) BY Applying
<1>1. /\ part \subseteq sent.todo
      /\ \A k \in Web!Keys : new[k] = IF k \in part
                   THEN Web!Parse(k, sent.values[k], row[x][k])
                   ELSE IF k \in Web!Hidden THEN Web!Fixed ELSE row[x][k]
      /\ new = [k \in Web!Keys |-> new[k]]
      /\ Web!Put(x, new, "own")
      /\ sent' = [sent EXCEPT !.todo = sent.todo \ part,
                              !.pc = IF sent.todo = part THEN "applied" ELSE "sent"]
      /\ sent.pc = "sent" /\ page' = page /\ form' = form
  BY <1>0 DEF Writes
<1>2. sent.pc \in Waiting BY <1>1 DEF Waiting
<1>3. /\ x \in Web!Records /\ sent.todo \subseteq Web!Fields /\ sent.blind \in BOOLEAN
      /\ Web!Fields \subseteq Web!Keys
  BY <1>2, PageFacts DEF WebInv, Shaped, SentShaped
<1>4. PICK p, a, t, v, y, b, o : sent = [pc |-> p, at |-> a, todo |-> t, values |-> v,
                                         typed |-> y, blind |-> b, old |-> o]
  BY <1>2 DEF WebInv, Shaped, SentShaped
<1>5. /\ sent.pc = p /\ sent.at = a /\ sent.todo = t /\ sent.values = v
      /\ sent.typed = y /\ sent.blind = b /\ sent.old = o
  BY <1>4
<1>6. PICK q \in Waiting : q = IF sent.todo = part THEN "applied" ELSE "sent" BY DEF Waiting
<1>7. sent' = [pc |-> q, at |-> a, todo |-> t \ part, values |-> v, typed |-> y, blind |-> b, old |-> o]
  BY <1>1, <1>4, <1>5, <1>6
<1>8. /\ sent'.pc = q /\ sent'.at = x /\ sent'.todo = sent.todo \ part /\ sent'.values = sent.values
      /\ sent'.typed = sent.typed /\ sent'.blind = sent.blind /\ sent'.old = sent.old
  BY <1>5, <1>7
<1>9. /\ Web!Records' = Web!Records /\ Web!Fields' = Web!Fields /\ Web!Keys' = Web!Keys
      /\ Sized' = Sized
  BY <1>1, SamePage DEF Sized
<1>10. \A f \in Sized : new[f] \in Amounts
  <2> SUFFICES ASSUME NEW f \in Sized PROVE new[f] \in Amounts OBVIOUS
  <2>1. f \in {"quota", "left"} /\ f \in Web!Keys /\ f \notin Web!Hidden
    BY <1>3, PageFacts DEF Sized
  <2>2. row[x][f] \in Amounts BY <1>3 DEF WebInv, Small, SmallRow
  <2>3. sent.values[f] \in Display BY <1>2 DEF WebInv, Small, SmallSent
  <2>4. Web!Parse(f, sent.values[f], row[x][f]) \in Amounts BY <2>1, <2>2, <2>3, Parses
  <2> QED BY <1>1, <2>1, <2>2, <2>4
<1>11. /\ RowShaped' /\ CacheShaped' /\ FetchShaped' /\ FormShaped'
       /\ SmallRow' /\ SmallCache' /\ SmallFetch' /\ SmallForm'
       /\ CopiesTrue' /\ FormTrue'
  <2>1. PICK w \in {"own", "other"} : w = "own" OBVIOUS
  <2>2. Web!Put(x, new, w) /\ page' = page /\ form' = form /\ x \in Web!Records
        /\ new = [k \in Web!Keys |-> new[k]]
    BY <1>1, <1>3, <2>1
  <2> HIDE DEF x
  <2> QED BY <1>10, <2>2, Recorded
<1>12. SentShaped'
  <2>1. sent' = [pc |-> sent'.pc, at |-> sent'.at, todo |-> sent'.todo, values |-> sent'.values,
                 typed |-> sent'.typed, blind |-> sent'.blind, old |-> sent'.old]
    BY <1>7
  <2> QED BY <1>3, <1>8, <1>9, <2>1 DEF SentShaped
<1>13. SmallSent' BY <1>2, <1>8, <1>9 DEF WebInv, Small, SmallSent
<1>14. Shaped BY DEF WebInv
<1>15. /\ row'[x] = new
       /\ \A z \in Web!Records :
            /\ cache'[z].has = cache[z].has
            /\ cache[z].has => cache'[z].old = cache[z].old
                   \cup (IF z = x THEN Web!Changed(x, new, "own") ELSE {})
            /\ fetch'[z].pc = fetch[z].pc
  BY <1>1, <1>3, <1>14, Putting
<1>16. SentTrue'
  <2> SUFFICES ASSUME ~sent.blind, NEW f \in sent.todo \ part
               PROVE  \/ f \in sent.typed \/ <<f, "other">> \in sent.old
                      \/ page \in Web!Dialogs /\ <<f, "own">> \in sent.old
                      \/ sent.values[f] = Web!Show(f, row'[x][f])
    BY <1>1, <1>8 DEF SentTrue
  <2>1. row'[x][f] = row[x][f] BY <1>1, <1>3, <1>15, PageFacts
  <2> QED BY <1>1, <2>1 DEF WebInv, SentTrue
<1>17. PageTrue'
  <2>1. CASE page \in Web!Dialogs BY <1>1, <2>1 DEF PageTrue
  <2>2. CASE page \notin Web!Dialogs
    <3>1. x = 1 /\ {"quota", "left", "print"} \cap Web!Fields = {} BY <1>3, <2>2, PageFacts
    <3>2. fetch'[1].pc = "none" BY <1>2, <1>3, <1>15, <2>2, <3>1 DEF WebInv, PageTrue, Waiting
    <3>3. sent.blind => ~cache[1].has BY <1>2, <2>2 DEF WebInv, PageTrue
    <3>4. ~sent.blind => cache[1].has /\ sent.old \subseteq cache[1].old /\ sent.typed \subseteq form.typed
      BY <1>2, <2>2 DEF WebInv, PageTrue
    <3>5. cache'[1].has = cache[1].has BY <1>3, <1>15, <3>1
    <3>6. cache[1].has => cache'[1].old = cache[1].old \cup Web!Changed(x, new, "own")
      BY <1>3, <1>15, <3>1
    <3>7. ASSUME cache[1].has, NEW f \in Web!Fields, <<f, "own">> \in cache'[1].old
          PROVE  f \in form.typed \/ <<f, "other">> \in cache'[1].old
      <4>1. CASE <<f, "own">> \in cache[1].old
        BY <2>2, <3>6, <3>7, <4>1 DEF WebInv, PageTrue
      <4>2. CASE <<f, "own">> \in Web!Changed(x, new, "own")
        <5>1. new[f] # row[x][f] BY <4>2, Changes
        <5>2. f \in part /\ new[f] = Web!Parse(f, sent.values[f], row[x][f])
          BY <1>1, <1>3, <5>1, PageFacts
        <5>3. ~sent.blind BY <3>3, <3>7
        <5>4. sent.values[f] # Web!Show(f, row[x][f])
          <6> SUFFICES ASSUME sent.values[f] = Web!Show(f, row[x][f]) PROVE FALSE OBVIOUS
          <6>1. f \notin {"quota", "left", "print"} BY <3>1
          <6>2. Web!Show(f, row[x][f]) = row[x][f] BY <6>1, ShowsAsStored
          <6>3. Web!Parse(f, row[x][f], row[x][f]) = row[x][f] BY <6>1, ShowsAsStored
          <6> QED BY <5>1, <5>2, <6>2, <6>3
        <5>5. f \in sent.todo BY <1>1, <5>2
        <5>6. f \in sent.typed \/ <<f, "other">> \in sent.old
          BY <1>1, <2>2, <5>3, <5>4, <5>5 DEF WebInv, SentTrue
        <5> QED BY <3>4, <3>6, <3>7, <5>3, <5>6
      <4> QED BY <3>6, <3>7, <4>1, <4>2
    <3>8. form.at = 1 BY <2>2 DEF WebInv, PageTrue
    <3>9. ~sent.blind => sent.old \subseteq cache'[1].old BY <3>4, <3>6
    <3> QED
      BY <1>1, <1>6, <1>8, <1>9, <2>2, <3>2, <3>3, <3>4, <3>5, <3>7, <3>8, <3>9 DEF PageTrue
  <2> QED BY <2>1, <2>2
<1> QED BY <1>11, <1>12, <1>13, <1>16, <1>17 DEF WebInv, Shaped, Small

(* A write of the others.                                                  *)
LEMMA OthersStep ==
    ASSUME WebInv, NEW x \in Web!Records, NEW new, new = [k \in Web!Keys |-> new[k]],
           \A f \in Sized : new[f] \in Amounts, Web!Others(x, new)
    PROVE  WebInv'
<1> DEFINE C == Web!Changed(x, new, "other")
<1>1. /\ Web!Put(x, new, "other")
      /\ sent' = IF sent.pc = "sent" /\ sent.at = x
                 THEN [sent EXCEPT !.old = sent.old \cup C] ELSE sent
      /\ page' = page /\ form' = form
  BY DEF Web!Others
<1>2. /\ RowShaped' /\ CacheShaped' /\ FetchShaped' /\ FormShaped'
      /\ SmallRow' /\ SmallCache' /\ SmallFetch' /\ SmallForm'
      /\ CopiesTrue' /\ FormTrue'
  <2>1. PICK w \in {"own", "other"} : w = "other" OBVIOUS
  <2>2. Web!Put(x, new, w) BY <1>1, <2>1
  <2> QED BY <1>1, <2>2, Recorded
<1>3. Shaped BY DEF WebInv
<1>4. /\ row'[x] = new /\ \A y \in Web!Records \ {x} : row'[y] = row[y]
      /\ \A z \in Web!Records :
            /\ cache'[z].has = cache[z].has
            /\ cache[z].has => cache'[z].old = cache[z].old \cup (IF z = x THEN C ELSE {})
            /\ fetch'[z].pc = fetch[z].pc
            /\ fetch[z].pc = "answered" => fetch'[z].old = fetch[z].old \cup (IF z = x THEN C ELSE {})
  BY <1>1, <1>3, Putting
<1>5. /\ \A k \in Web!Keys : new[k] # row[x][k] => <<k, "other">> \in C
      /\ \A k : <<k, "own">> \notin C
  BY Changes
<1> HIDE DEF C
<1>6. /\ Web!Records' = Web!Records /\ Web!Fields' = Web!Fields /\ Web!Keys' = Web!Keys
      /\ Sized' = Sized
  BY <1>1, SamePage DEF Sized
<1>7. CASE sent.pc \notin Waiting
  <2>1. sent' = sent BY <1>1, <1>7 DEF Waiting
  <2>2. SentShaped' /\ SmallSent' /\ SentTrue' BY <1>1, <1>7, <2>1, Standing
  <2>3. PageTrue'
    <3>1. CASE page \in Web!Dialogs BY <1>1, <3>1 DEF PageTrue
    <3>2. CASE page \notin Web!Dialogs
      <4>1. 1 \in Web!Records /\ x = 1 BY <3>2, PageFacts
      <4>2. /\ cache'[1].has = cache[1].has /\ fetch'[1].pc = fetch[1].pc
            /\ cache[1].has => cache'[1].old = cache[1].old \cup C
            /\ fetch[1].pc = "answered" => fetch'[1].old = fetch[1].old \cup C
        BY <1>4, <4>1
      <4> QED BY <1>1, <1>5, <1>6, <1>7, <2>1, <3>2, <4>2 DEF WebInv, PageTrue
    <3> QED BY <3>1, <3>2
  <2> QED BY <1>2, <2>2, <2>3 DEF WebInv, Shaped, Small
<1>8. CASE sent.pc \in Waiting
  <2>1. PICK p, a, t, v, y, b, o : sent = [pc |-> p, at |-> a, todo |-> t, values |-> v,
                                           typed |-> y, blind |-> b, old |-> o]
    BY <1>8 DEF WebInv, Shaped, SentShaped
  <2>2. /\ sent.pc = p /\ sent.at = a /\ sent.todo = t /\ sent.values = v
        /\ sent.typed = y /\ sent.blind = b /\ sent.old = o
    BY <2>1
  <2>3. PICK n : n = IF sent.pc = "sent" /\ sent.at = x THEN o \cup C ELSE o OBVIOUS
  <2>4. sent' = [pc |-> p, at |-> a, todo |-> t, values |-> v, typed |-> y, blind |-> b, old |-> n]
    <3>1. CASE sent.pc = "sent" /\ sent.at = x
      <4>1. sent' = [sent EXCEPT !.old = o \cup C] /\ n = o \cup C BY <1>1, <2>2, <2>3, <3>1
      <4> QED BY <2>1, <4>1
    <3>2. CASE ~(sent.pc = "sent" /\ sent.at = x) BY <1>1, <2>1, <2>3, <3>2
    <3> QED BY <3>1, <3>2
  <2>5. /\ sent'.pc = sent.pc /\ sent'.at = sent.at /\ sent'.todo = sent.todo
        /\ sent'.values = sent.values /\ sent'.typed = sent.typed /\ sent'.blind = sent.blind
        /\ sent'.old = n
    BY <2>2, <2>4
  <2>6. sent.at \in Web!Records /\ sent.todo \subseteq Web!Fields /\ sent.blind \in BOOLEAN
        /\ Web!Fields \subseteq Web!Keys
    BY <1>8, PageFacts DEF WebInv, Shaped, SentShaped
  <2>7. SentShaped'
    <3>1. sent' = [pc |-> sent'.pc, at |-> sent'.at, todo |-> sent'.todo, values |-> sent'.values,
                   typed |-> sent'.typed, blind |-> sent'.blind, old |-> sent'.old]
      BY <2>4
    <3> QED BY <1>6, <2>5, <2>6, <3>1 DEF SentShaped
  <2>8. SmallSent' BY <1>6, <1>8, <2>5 DEF WebInv, Small, SmallSent
  <2>9. SentTrue'
    <3> SUFFICES ASSUME sent.pc = "sent", ~sent.blind, NEW f \in sent.todo
                 PROVE  \/ f \in sent.typed \/ <<f, "other">> \in n
                        \/ page \in Web!Dialogs /\ <<f, "own">> \in n
                        \/ sent.values[f] = Web!Show(f, row'[sent.at][f])
      BY <1>1, <2>5 DEF SentTrue
    <3>1. \/ f \in sent.typed \/ <<f, "other">> \in sent.old
          \/ page \in Web!Dialogs /\ <<f, "own">> \in sent.old
          \/ sent.values[f] = Web!Show(f, row[sent.at][f])
      BY DEF WebInv, SentTrue
    <3>2. sent.old \subseteq n BY <2>2, <2>3
    <3>3. row'[sent.at][f] = row[sent.at][f] \/ <<f, "other">> \in n
      <4>1. CASE sent.at = x
        <5>1. n = o \cup C BY <2>3, <4>1
        <5>2. f \in Web!Keys BY <2>6
        <5> QED BY <1>4, <1>5, <4>1, <5>1, <5>2
      <4>2. CASE sent.at # x BY <1>4, <2>6, <4>2
      <4> QED BY <4>1, <4>2
    <3> QED BY <3>1, <3>2, <3>3
  <2>10. PageTrue'
    <3>1. CASE page \in Web!Dialogs BY <1>1, <3>1 DEF PageTrue
    <3>2. CASE page \notin Web!Dialogs
      <4>1. 1 \in Web!Records /\ x = 1 /\ sent.at = 1 BY <2>6, <3>2, PageFacts
      <4>2. /\ cache'[1].has = cache[1].has /\ fetch'[1].pc = fetch[1].pc
            /\ cache[1].has => cache'[1].old = cache[1].old \cup C
        BY <1>4, <4>1
      <4>3. fetch'[1].pc = "none" BY <1>8, <3>2, <4>2 DEF WebInv, PageTrue, Waiting
      <4>4. sent.blind => ~cache[1].has BY <1>8, <3>2 DEF WebInv, PageTrue
      <4>5. ~sent.blind => /\ cache'[1].has /\ n \subseteq cache'[1].old
                           /\ sent.typed \subseteq form.typed
        <5> SUFFICES ASSUME ~sent.blind
                     PROVE  cache'[1].has /\ n \subseteq cache'[1].old /\ sent.typed \subseteq form.typed
          OBVIOUS
        <5>1. cache[1].has /\ sent.old \subseteq cache[1].old /\ sent.typed \subseteq form.typed
          BY <1>8, <3>2 DEF WebInv, PageTrue
        <5>2. n \subseteq sent.old \cup C BY <2>2, <2>3
        <5> QED BY <4>2, <5>1, <5>2
      <4>6. ASSUME cache[1].has, NEW f \in Web!Fields, <<f, "own">> \in cache'[1].old
            PROVE  f \in form.typed \/ <<f, "other">> \in cache'[1].old
        <5>1. <<f, "own">> \in cache[1].old BY <1>5, <4>2, <4>6
        <5>2. f \in form.typed \/ <<f, "other">> \in cache[1].old
          BY <3>2, <4>6, <5>1 DEF WebInv, PageTrue
        <5> QED BY <4>2, <4>6, <5>2
      <4>7. form.at = 1 BY <3>2 DEF WebInv, PageTrue
      <4> QED
        BY <1>1, <1>6, <1>8, <2>5, <3>2, <4>2, <4>3, <4>4, <4>5, <4>6, <4>7 DEF PageTrue
    <3> QED BY <3>1, <3>2
  <2> QED BY <1>2, <2>7, <2>8, <2>9, <2>10 DEF WebInv, Shaped, Small
<1> QED BY <1>7, <1>8

(* The writes of the others are of amounts.                               *)
LEMMA OtherAdminStep ==
    ASSUME WebInv, NEW x \in Web!Records, NEW f \in Web!Keys, Web!OtherAdmin(x, f) PROVE WebInv'
<1>1. PICK s \in {4, 8} : Web!Others(x, [row[x] EXCEPT ![f] = s]) BY DEF Web!OtherAdmin
<1>2. row[x] = [k \in Web!Keys |-> row[x][k]] BY DEF WebInv, Shaped, RowShaped
<1>3. PICK new : new = [row[x] EXCEPT ![f] = s] OBVIOUS
<1>4. new = [k \in Web!Keys |-> IF k = f THEN s ELSE row[x][k]] BY <1>2, <1>3
<1>5. new = [k \in Web!Keys |-> new[k]] BY <1>4
<1>6. \A k \in Sized : new[k] \in Amounts
  <2> SUFFICES ASSUME NEW k \in Sized PROVE new[k] \in Amounts OBVIOUS
  <2>1. k \in Web!Keys BY PageFacts DEF Sized
  <2>2. row[x][k] \in Amounts /\ s \in Amounts
    BY <1>1 DEF WebInv, Small, SmallRow, Amounts
  <2> QED BY <1>4, <2>1, <2>2
<1> QED BY <1>1, <1>3, <1>5, <1>6, OthersStep

LEMMA BotExtendStep ==
    ASSUME WebInv, NEW x \in Web!Records, Web!BotExtend(x, 1) PROVE WebInv'
<1>1. PICK s : /\ s = (IF row[x]["left"] = Web!Never THEN 0 ELSE row[x]["left"]) + 4 * 1
               /\ s <= MaxLeft /\ Web!Others(x, [row[x] EXCEPT !["left"] = s])
               /\ page = "user"
  BY DEF Web!BotExtend
<1>2. row[x] = [k \in Web!Keys |-> row[x][k]] BY DEF WebInv, Shaped, RowShaped
<1>3. PICK new : new = [row[x] EXCEPT !["left"] = s] OBVIOUS
<1>4. new = [k \in Web!Keys |-> IF k = "left" THEN s ELSE row[x][k]] BY <1>2, <1>3
<1>5. new = [k \in Web!Keys |-> new[k]] BY <1>4
<1>6. s \in Amounts
  <2>1. "left" \in Sized BY <1>1 DEF Sized, Web!Fields
  <2>2. row[x]["left"] \in Amounts BY <2>1 DEF WebInv, Small, SmallRow
  <2>3. MaxLeft \in 0 .. 98 BY PanelAssumption DEF Web!ConstantsAssumption, Web!Never
  <2> QED BY <1>1, <2>2, <2>3 DEF Amounts, Web!Never
<1>7. \A k \in Sized : new[k] \in Amounts
  <2> SUFFICES ASSUME NEW k \in Sized PROVE new[k] \in Amounts OBVIOUS
  <2>1. k \in Web!Keys BY PageFacts DEF Sized
  <2>2. row[x][k] \in Amounts BY DEF WebInv, Small, SmallRow
  <2> QED BY <1>4, <1>6, <2>1, <2>2
<1> QED BY <1>1, <1>3, <1>5, <1>7, OthersStep

LEMMA BotQuotaStep ==
    ASSUME WebInv, NEW x \in Web!Records, NEW understood \in BOOLEAN, Web!BotQuota(x, understood)
    PROVE  WebInv'
<1>1. PICK s \in {1, 99} : Web!Others(x, [row[x] EXCEPT !["quota"] = s])
  BY DEF Web!BotQuota, Web!Never
<1>2. row[x] = [k \in Web!Keys |-> row[x][k]] BY DEF WebInv, Shaped, RowShaped
<1>3. PICK new : new = [row[x] EXCEPT !["quota"] = s] OBVIOUS
<1>4. new = [k \in Web!Keys |-> IF k = "quota" THEN s ELSE row[x][k]] BY <1>2, <1>3
<1>5. new = [k \in Web!Keys |-> new[k]] BY <1>4
<1>6. \A k \in Sized : new[k] \in Amounts
  <2> SUFFICES ASSUME NEW k \in Sized PROVE new[k] \in Amounts OBVIOUS
  <2>1. k \in Web!Keys BY PageFacts DEF Sized
  <2>2. row[x][k] \in Amounts /\ s \in Amounts
    BY <1>1 DEF WebInv, Small, SmallRow, Amounts
  <2> QED BY <1>4, <2>1, <2>2
<1> QED BY <1>1, <1>3, <1>5, <1>6, OthersStep

(* Nothing happens.                                                       *)
LEMMA WebIdle == ASSUME WebInv, UNCHANGED Web!vars PROVE WebInv'
<1>1. /\ page' = page /\ row' = row /\ cache' = cache /\ fetch' = fetch /\ form' = form
      /\ sent' = sent
  BY DEF Web!vars
<1>2. FetchShaped' /\ CopiesTrue' /\ SmallFetch'
  <2>1. fetch = [y \in Web!Records |-> fetch[y]] BY DEF WebInv, Shaped, FetchShaped
  <2> QED BY <1>1, <2>1, Fewer
<1>3. /\ RowShaped' /\ SmallRow' /\ CacheShaped' /\ SmallCache' /\ FormShaped' /\ SmallForm'
      /\ SentShaped' /\ SmallSent' /\ SentTrue' /\ FormTrue'
  BY <1>1, Standing
<1>4. PageTrue'
  <2>1. Web!Fields' = Web!Fields BY <1>1, SamePage
  <2> QED BY <1>1, <2>1 DEF WebInv, PageTrue
<1> QED BY <1>2, <1>3, <1>4 DEF WebInv, Shaped, Small

(* Every step keeps the invariant of the forms, and they start with it.   *)
LEMMA WebStep == WebInv /\ [Web!Next]_(Web!vars) => WebInv'
<1> SUFFICES ASSUME WebInv, [Web!Next]_(Web!vars) PROVE WebInv' OBVIOUS
<1>1. CASE UNCHANGED Web!vars BY <1>1, WebIdle
<1>2. CASE Web!Close BY <1>2, CloseStep
<1>3. CASE Web!Apply BY <1>3, ApplyStep
<1>4. CASE Web!Reply BY <1>4, ReplyStep
<1>5. CASE Web!Failed BY <1>5, FailedStep
<1>6. CASE \E section \in Web!Sections : Web!Press(section) BY <1>6, PressStep
<1>7. CASE \E f \in Web!Fields : \E s \in Web!Inputs(f) : Web!Type(f, s) BY <1>7, TypeStep
<1>8. ASSUME NEW x \in Web!Records,
             \/ Web!Open(x) \/ Web!View(x) \/ Web!Answer(x) \/ Web!Arrive(x)
             \/ Web!FailFetch(x) \/ Web!Age(x)
             \/ \E f \in Web!Keys \cap Touched : Web!OtherAdmin(x, f)
             \/ Web!BotExtend(x, 1)
             \/ \E understood \in BOOLEAN : Web!BotQuota(x, understood)
      PROVE  WebInv'
  <2>1. CASE Web!Open(x) BY <2>1, OpenStep
  <2>2. CASE Web!View(x) BY <2>2, ViewStep
  <2>3. CASE Web!Answer(x) BY <2>3, AnswerStep
  <2>4. CASE Web!Arrive(x) BY <2>4, ArriveStep
  <2>5. CASE Web!FailFetch(x) BY <2>5, FailFetchStep
  <2>6. CASE Web!Age(x) BY <2>6, AgeStep
  <2>7. CASE \E f \in Web!Keys \cap Touched : Web!OtherAdmin(x, f) BY <2>7, OtherAdminStep
  <2>8. CASE Web!BotExtend(x, 1) BY <2>8, BotExtendStep
  <2>9. CASE \E understood \in BOOLEAN : Web!BotQuota(x, understood) BY <2>9, BotQuotaStep
  <2> QED BY <1>8, <2>1, <2>2, <2>3, <2>4, <2>5, <2>6, <2>7, <2>8, <2>9
<1> QED BY <1>1, <1>2, <1>3, <1>4, <1>5, <1>6, <1>7, <1>8 DEF Web!Next

LEMMA WebStart == Web!Init => WebInv
<1> SUFFICES ASSUME Web!Init PROVE WebInv OBVIOUS
<1>1. PICK stored \in {<<0, 4>>, <<1, 2>>, <<4, 99>>} :
        row = [x \in Web!Records |-> [f \in Web!Keys |->
                  CASE f = "quota" -> IF x = 1 THEN stored[1] ELSE 4
                    [] f \in {"print", "hidden"} -> IF x = 1 /\ stored[1] = 0 THEN 0 ELSE 4
                    [] f = "left" -> IF x = 1 THEN stored[2] ELSE 4
                    [] f = "rest" -> 0
                    [] OTHER -> x + 1]]
  BY DEF Web!Init, Web!Never
<1>2. /\ cache = [x \in Web!Records |-> [has |-> FALSE]]
      /\ fetch = [x \in Web!Records |-> IF page \in Web!Dialogs THEN [pc |-> "none"] ELSE [pc |-> "asked"]]
      /\ form = [at |-> IF page \in Web!Dialogs THEN Nobody ELSE 1,
                 values |-> [f \in Web!Fields |-> Web!Default(f)], typed |-> {}]
      /\ sent = [pc |-> "none"]
  BY DEF Web!Init, Web!Nothing, Web!NoFetch, Web!NoSave
<1>3. PICK n : n = FALSE OBVIOUS
<1>4. /\ \A x \in Web!Records : cache[x].has = n /\ fetch[x].pc # "answered"
      /\ form.typed = {} /\ sent.pc = "none" /\ \A f \in Web!Fields : form.values[f] = Web!Default(f)
      /\ form.at = IF page \in Web!Dialogs THEN Nobody ELSE 1
  BY <1>2, <1>3
<1>5. Web!Fields \subseteq Web!Keys BY PageFacts
<1>6. \A x \in Web!Records, f \in Web!Keys :
        row[x][f] = CASE f = "quota" -> IF x = 1 THEN stored[1] ELSE 4
                      [] f \in {"print", "hidden"} -> IF x = 1 /\ stored[1] = 0 THEN 0 ELSE 4
                      [] f = "left" -> IF x = 1 THEN stored[2] ELSE 4
                      [] f = "rest" -> 0
                      [] OTHER -> x + 1
  BY <1>1
<1>7. stored[1] \in Amounts /\ stored[2] \in Amounts /\ 4 \in Amounts BY DEF Amounts
<1>8. RowShaped BY <1>1 DEF RowShaped
<1>9. CacheShaped BY <1>2, <1>3, <1>4 DEF CacheShaped, Kept
<1>10. FetchShaped BY <1>2, <1>4 DEF FetchShaped, Coming
<1>11. FormShaped /\ SentShaped BY <1>2, <1>4 DEF FormShaped, SentShaped, Waiting
<1>12. CopiesTrue BY <1>3, <1>4 DEF CopiesTrue
<1>13. FormTrue BY <1>3, <1>4, PageFacts DEF FormTrue
<1>14. SentTrue BY <1>4 DEF SentTrue
<1>15. PageTrue BY <1>3, <1>4, PageFacts DEF PageTrue, Waiting
<1>16. SmallRow
  <2> SUFFICES ASSUME NEW x \in Web!Records, NEW f \in Sized PROVE row[x][f] \in Amounts
    BY DEF SmallRow
  <2>1. f \in Web!Keys /\ f \in {"quota", "left"} BY <1>5 DEF Sized
  <2> QED BY <1>6, <1>7, <2>1
<1>17. SmallForm
  <2> SUFFICES ASSUME NEW f \in Sized PROVE form.values[f] \in Display BY DEF SmallForm
  <2>1. f \in Web!Fields /\ f \in {"quota", "left"} BY DEF Sized
  <2>2. Web!Default(f) \in Display BY <2>1 DEF Web!Default, Display, Web!Blank
  <2> QED BY <1>4, <2>1, <2>2
<1>18. Small BY <1>3, <1>4, <1>16, <1>17 DEF Small, SmallCache, SmallFetch, SmallSent, Waiting
<1> QED
  BY <1>8, <1>9, <1>10, <1>11, <1>12, <1>13, <1>14, <1>15, <1>18 DEF WebInv, Shaped

(* What is typed goes only with a copy that missed something.              *)
LEMMA KeepsTyped ==
    ASSUME WebInv, Web!Next, NEW f \in form.typed, form'.at = form.at, f \notin form'.typed
    PROVE  Web!Behind(form.at)
<1>1. form.at # Nobody /\ form.at \in Web!Records BY DEF WebInv, FormTrue
<1>2. form' # form OBVIOUS
<1>3. PICK a, v, t : form = [at |-> a, values |-> v, typed |-> t]
  BY DEF WebInv, Shaped, FormShaped
<1>4. form.at = a /\ form.values = v /\ form.typed = t BY <1>3
<1>5. ASSUME form' = [form EXCEPT !.at = Nobody, !.typed = {}] PROVE FALSE
  <2>1. form' = [at |-> Nobody, values |-> v, typed |-> {}] BY <1>3, <1>5
  <2> QED BY <1>1, <2>1
<1>6. ~Web!Close BY <1>5 DEF Web!Close
<1>7. ~Web!Reply BY <1>2, <1>5 DEF Web!Reply
<1>8. \A section \in Web!Sections : ~Web!Press(section) BY <1>2 DEF Web!Press
<1>9. ~Web!Apply BY <1>2 DEF Web!Apply
<1>10. ~Web!Failed BY <1>2 DEF Web!Failed
<1>11. ASSUME NEW g, NEW s, Web!Type(g, s) PROVE FALSE
  <2>1. form' = [form EXCEPT !.values = [form.values EXCEPT ![g] = s], !.typed = form.typed \cup {g}]
    BY <1>11 DEF Web!Type
  <2>2. form' = [at |-> a, values |-> [v EXCEPT ![g] = s], typed |-> t \cup {g}] BY <1>3, <1>4, <2>1
  <2> QED BY <1>4, <2>2
<1>12. ASSUME NEW x \in Web!Records,
              \/ Web!Open(x) \/ Web!View(x) \/ Web!Answer(x) \/ Web!Arrive(x)
              \/ Web!FailFetch(x) \/ Web!Age(x)
              \/ \E g \in Web!Keys \cap Touched : Web!OtherAdmin(x, g)
              \/ Web!BotExtend(x, 1)
              \/ \E understood \in BOOLEAN : Web!BotQuota(x, understood)
       PROVE  Web!Behind(form.at)
  <2>1. ~Web!Open(x) BY <1>1 DEF Web!Open
  <2>2. ~Web!View(x) /\ ~Web!Answer(x) BY <1>2 DEF Web!View, Web!Answer
  <2>3. ~Web!FailFetch(x) /\ ~Web!Age(x) BY <1>2 DEF Web!FailFetch, Web!Age
  <2>4. \A g : ~Web!OtherAdmin(x, g) BY <1>2 DEF Web!OtherAdmin, Web!Others
  <2>5. ~Web!BotExtend(x, 1) /\ \A understood : ~Web!BotQuota(x, understood)
    BY <1>2 DEF Web!BotExtend, Web!BotQuota, Web!Others
  <2>6. CASE Web!Arrive(x)
    <3>1. /\ fetch[x].pc = "answered" /\ form.at = x
          /\ ~cache[x].has \/ cache[x].data # fetch[x].data
      BY <1>2, <2>6 DEF Web!Arrive
    <3> SUFFICES ASSUME cache[x].has, cache[x].old = {} PROVE FALSE
      BY <3>1 DEF Web!Behind
    <3>2. fetch[x].old = {} BY <3>1 DEF WebInv, CopiesTrue
    <3>3. \A k \in Web!Keys : cache[x].data[k] = row[x][k] /\ fetch[x].data[k] = row[x][k]
      BY <3>1, <3>2 DEF WebInv, CopiesTrue, Missing
    <3>4. /\ cache[x].data = [k \in Web!Keys |-> cache[x].data[k]]
          /\ fetch[x].data = [k \in Web!Keys |-> fetch[x].data[k]]
      BY <3>1 DEF WebInv, Shaped, CacheShaped, Kept, FetchShaped, Coming
    <3>5. cache[x].data = fetch[x].data BY <3>3, <3>4
    <3> QED BY <3>1, <3>5
  <2> QED BY <1>12, <2>1, <2>2, <2>3, <2>4, <2>5, <2>6
<1> QED BY <1>6, <1>7, <1>8, <1>9, <1>10, <1>11, <1>12 DEF Web!Next

(* Only Apply takes anything off what a save has to write.                 *)
LEMMA OnlyApplies ==
    ASSUME WebInv, Web!Next, sent.pc = "sent", sent'.pc # "none", sent'.todo # sent.todo
    PROVE  Web!Apply
<1>1. sent' # sent OBVIOUS
<1>2. ~Web!Close BY <1>1 DEF Web!Close
<1>3. ~Web!Reply BY DEF Web!Reply
<1>4. ~Web!Failed BY DEF Web!Failed, Web!NoSave
<1>5. \A section \in Web!Sections : ~Web!Press(section) BY DEF Web!Press
<1>6. \A g, s : ~Web!Type(g, s) BY <1>1 DEF Web!Type
<1>7. \A x, new : ~Web!Others(x, new)
  <2> SUFFICES ASSUME NEW x, NEW new, Web!Others(x, new) PROVE FALSE OBVIOUS
  <2>1. sent' = [sent EXCEPT !.old = sent.old \cup Web!Changed(x, new, "other")]
    BY <1>1 DEF Web!Others
  <2>2. PICK p, a, t, v, y, b, o : sent = [pc |-> p, at |-> a, todo |-> t, values |-> v,
                                           typed |-> y, blind |-> b, old |-> o]
    BY DEF WebInv, Shaped, SentShaped, Waiting
  <2>3. PICK n : n = sent.old \cup Web!Changed(x, new, "other") OBVIOUS
  <2>4. sent' = [sent EXCEPT !.old = n] BY <2>1, <2>3
  <2>5. sent' = [pc |-> p, at |-> a, todo |-> t, values |-> v, typed |-> y, blind |-> b, old |-> n]
    BY <2>2, <2>4
  <2> QED BY <2>2, <2>5
<1>8. \A x : /\ ~Web!Open(x) /\ ~Web!View(x) /\ ~Web!Answer(x) /\ ~Web!Age(x)
             /\ ~Web!Arrive(x) /\ ~Web!FailFetch(x)
  <2>1. Web!Reread = sent BY DEF Web!Reread
  <2> QED
    BY <1>1, <2>1 DEF Web!Open, Web!View, Web!Answer, Web!Age, Web!Arrive, Web!FailFetch
<1>9. \A x, g : ~Web!OtherAdmin(x, g) BY <1>7 DEF Web!OtherAdmin
<1>10. \A x : ~Web!BotExtend(x, 1) BY <1>7 DEF Web!BotExtend
<1>11. \A x, understood : ~Web!BotQuota(x, understood) BY <1>7 DEF Web!BotQuota
<1> QED BY <1>2, <1>3, <1>4, <1>5, <1>6, <1>8, <1>9, <1>10, <1>11 DEF Web!Next

(* What Apply changes has been edited, or is one of the exceptions.        *)
LEMMA AppliesEdits ==
    ASSUME WebInv, Web!Apply, NEW x \in Web!Records, NEW f \in Web!Keys
    PROVE  \/ row'[x][f] = row[x][f]
           \/ /\ x = sent.at
              /\ \/ f \in sent.typed
                 \/ sent.blind
                 \/ <<f, "other">> \in sent.old
                 \/ page \in Web!Dialogs /\ <<f, "own">> \in sent.old
                 \/ ~Web!Whole(f, row[x][f])
<1>0. PICK part, new : Writes(part, new) BY Applying
<1>1. /\ part \subseteq sent.todo
      /\ \A k \in Web!Keys : new[k] = IF k \in part
                   THEN Web!Parse(k, sent.values[k], row[sent.at][k])
                   ELSE IF k \in Web!Hidden THEN Web!Fixed ELSE row[sent.at][k]
      /\ new = [k \in Web!Keys |-> new[k]]
      /\ Web!Put(sent.at, new, "own")
      /\ sent' = [sent EXCEPT !.todo = sent.todo \ part,
                              !.pc = IF sent.todo = part THEN "applied" ELSE "sent"]
      /\ sent.pc = "sent" /\ page' = page /\ form' = form
  BY <1>0 DEF Writes
<1>2. sent.at \in Web!Records /\ part \subseteq Web!Fields
  BY <1>1 DEF WebInv, Shaped, SentShaped, Waiting
<1>3. row'[sent.at] = new /\ \A y \in Web!Records \ {sent.at} : row'[y] = row[y]
  <2>1. Shaped BY DEF WebInv
  <2> QED BY <1>1, <1>2, <2>1, Putting
<1>4. CASE x # sent.at BY <1>3, <1>4
<1>5. CASE x = sent.at /\ f \notin part
  <2>1. CASE f \notin Web!Hidden
    <3>1. new[f] = row[sent.at][f] BY <1>1, <1>5, <2>1
    <3> QED BY <1>2, <1>3, <1>5, <3>1
  <2>2. CASE f \in Web!Hidden
    <3>1. row'[x][f] = Web!Fixed BY <1>1, <1>3, <1>5, <2>2
    <3>2. Web!Whole(f, row[x][f]) => row[x][f] = Web!Fixed BY <2>2 DEF Web!Whole
    <3> QED BY <1>5, <3>1, <3>2
  <2> QED BY <2>1, <2>2
<1>6. CASE x = sent.at /\ f \in part
  <2>1. CASE sent.blind BY <1>6, <2>1
  <2>2. CASE ~sent.blind
    <3>1. \/ f \in sent.typed \/ <<f, "other">> \in sent.old
          \/ page \in Web!Dialogs /\ <<f, "own">> \in sent.old
          \/ sent.values[f] = Web!Show(f, row[sent.at][f])
      BY <1>1, <1>6, <2>2 DEF WebInv, SentTrue
    <3>2. CASE sent.values[f] = Web!Show(f, row[sent.at][f]) /\ Web!Whole(f, row[x][f])
      <4>1. row'[x][f] = Web!Parse(f, sent.values[f], row[x][f]) BY <1>1, <1>2, <1>3, <1>6
      <4>2. Web!Parse(f, Web!Show(f, row[x][f]), row[x][f]) = row[x][f]
        BY <1>1, <1>2, <1>6, <3>2, WrittenBack
      <4> QED BY <1>6, <3>2, <4>1, <4>2
    <3> QED BY <1>6, <3>1, <3>2
  <2> QED BY <2>1, <2>2
<1> QED BY <1>4, <1>5, <1>6

(* For any pages, bounds and fields that others write: the copies are as   *)
(* the records but for what is named, and the form as its copy.            *)
THEOREM FormsInvariance == Web!Spec => []WebInv
  BY WebStart, WebStep, PTL DEF Web!Spec

(* For any of them: what has been typed stays in the form unless the       *)
(* record arrives first or anew.                                           *)
THEOREM TypingIsKept == Web!Spec => TypedKept
<1>1. WebInv /\ [Web!Next]_(Web!vars) =>
         [\A f \in form.typed :
            form'.at = form.at /\ f \notin form'.typed => Web!Behind(form.at)]_(Web!vars)
  BY KeepsTyped
<1> QED BY <1>1, FormsInvariance, PTL DEF Web!Spec, TypedKept, Web!TypedKept

(* For any of them: a save leaves alone what has not been edited, and what *)
(* the form does not show, but for what the copy in the form missed, had   *)
(* not shown or could not say, and for what every save of the form of a    *)
(* node sets anew.                                                         *)
THEOREM UneditedFieldsStand == Web!Spec => UneditedStands
<1>1. WebInv /\ [Web!Next]_(Web!vars) =>
        [sent.pc = "sent" /\ sent'.pc # "none" /\ sent'.todo # sent.todo =>
           \A x \in Web!Records, f \in Web!Keys :
            \/ row'[x][f] = row[x][f]
            \/ /\ x = sent.at
               /\ \/ f \in sent.typed
                  \/ sent.blind
                  \/ <<f, "other">> \in sent.old
                  \/ page \in Web!Dialogs /\ <<f, "own">> \in sent.old
                  \/ ~Web!Whole(f, row[x][f])]_(Web!vars)
  BY OnlyApplies, AppliesEdits
<1> QED BY <1>1, FormsInvariance, PTL DEF Web!Spec, UneditedStands, Web!UneditedStands
=============================================================================
