----------------------------- MODULE Backup_proofs -----------------------------
(***************************************************************************)
(* Proofs about Backup, for any backups, handlers, versions and requests.  *)
(*                                                                         *)
(* What a restore puts back depends on what was copied, so the invariant   *)
(* follows a payload from the database through R2 to the database: as long *)
(* as nobody has written, a handler that copies has copied what there is,  *)
(* an object holds all it can of the database of its beginning, and a      *)
(* restore has restored the tables it has passed, those ahead of it being  *)
(* empty if it wipes.  A table refers to earlier ones only, therefore no   *)
(* foreign key is in the way of a complete payload; in a table that is     *)
(* empty no UNIQUE is.  A backup exists from its listing on because nobody *)
(* else has its id before.                                                 *)
(***************************************************************************)
EXTENDS Backup, TLAPS

Request ==
    [pc : {"idle", "copy", "put", "list", "delete", "unlist", "wipe", "fill", "end"},
     id : Ids \cup {NoId}, i : 0 .. 7, data : Rows, secrets : BOOLEAN, wipe : BOOLEAN,
     was : Rows \cup {Torn}]
Objects == [data : Rows, secrets : BOOLEAN, was : Rows \cup {Torn}, stored : BOOLEAN]
Outcomes == [out : {"none", "done", "failed"}, was : Rows \cup {Torn}, secrets : BOOLEAN,
             wipe : BOOLEAN]

Kept(t, secrets) == secrets \/ t \notin Secret

(* The table t of a payload that was made of the database was. *)
Copied(q, t) == q.data[t] = (IF Kept(t, q.secrets) THEN q.was[t] ELSE 0)

(* A payload without secrets has no administrators and no users; if nobody *)
(* wrote while it was made, it holds the rest of a consistent database.    *)
Faithful(q) ==
    /\ q.secrets \/ \A t \in Secret : q.data[t] = 0
    /\ q.was # Torn => /\ \A t \in Tables : Copied(q, t)
                       /\ q.was["user_nodes"] # 0 => Refers("user_nodes", q.was)

(* Restore q has dealt with t, or, if it wipes, has emptied it. *)
Restored(q, t) ==
    IF Kept(t, q.secrets) THEN db[t] = q.was[t] \/ (~q.wipe /\ q.was[t] = 0)
    ELSE q.wipe => db[t] = 0
Emptied(q, t) == q.wipe => db[t] = 0

(* What handler q carries, by where it is. *)
Knows(q) ==
    /\ q.pc \in {"copy", "put", "list", "delete", "unlist"} => q.id \in Ids
    /\ q.pc \in {"copy", "wipe", "fill"} => q.i \in 1 .. 6
    /\ q.pc = "copy" =>
          /\ q.secrets \/ \A t \in Secret : q.data[t] = 0
          /\ q.was # Torn => q.was = db /\ \A j \in 1 .. 6 : j < q.i => Copied(q, Order[j])
    /\ q.pc \in {"put", "wipe", "fill", "end"} => Faithful(q)
    /\ q.pc = "list" => r2[q.id].stored
    /\ q.pc \in {"copy", "put", "list"} => q.id \notin rows
    /\ q.pc = "wipe" => q.wipe
    /\ q.wipe => q.pc \in {"wipe", "fill", "end"}
    /\ q.was # Torn => CASE q.pc = "wipe" -> \A j \in 1 .. 6 : j > q.i => Emptied(q, Order[j])
                         [] q.pc = "fill" -> \A j \in 1 .. 6 :
                                IF j < q.i THEN Restored(q, Order[j]) ELSE Emptied(q, Order[j])
                         [] q.pc = "end" -> \A t \in Tables : Restored(q, t)
                         [] OTHER -> TRUE

(* Nobody else is at work on a backup that is not listed yet. *)
Alone ==
    \A r, q \in Reqs :
        r # q /\ req[r].pc \in {"copy", "put", "list"} => req[q].id # req[r].id

(* The restore that has left the panel without administrators. *)
Culprit(q) ==
    q.wipe /\ (q.pc = "wipe" \/ (q.pc = "fill" /\ q.i = 1) \/ q.data["admins"] = 0)
CulpritThere == db["admins"] = 0 => gone \/ \E r \in Reqs : Culprit(req[r])

IInv ==
    /\ TypeOK
    /\ r2 \in [Ids -> Objects] /\ req \in [Reqs -> Request] /\ last \in Outcomes
    /\ gone \in BOOLEAN
    /\ \A b \in Ids : r2[b].stored => Faithful(r2[b])
    /\ \A r \in Reqs : Knows(req[r])
    /\ Alone /\ CulpritThere /\ ListedExists /\ RoundTrip /\ FailsForCause


-----------------------------------------------------------------------------
(* Tables and types.                                                       *)

LEMMA OrderIs ==
  /\ Len(Order) = 6 /\ Order[1] = "admins" /\ Order[2] = "users" /\ Order[3] = "nodes"
  /\ Order[4] = "user_nodes" /\ Order[5] = "config" /\ Order[6] = "secrets"
  /\ Tables = {"admins", "users", "nodes", "user_nodes", "config", "secrets"}
  /\ \A j \in 1 .. 6 : Order[j] \in Tables
  /\ \A t \in Tables : \E j \in 1 .. 6 : t = Order[j]
  /\ \A j, k \in 1 .. 6 : Order[j] = Order[k] => j = k
<1>1. /\ Len(Order) = 6 /\ Order[1] = "admins" /\ Order[2] = "users" /\ Order[3] = "nodes"
      /\ Order[4] = "user_nodes" /\ Order[5] = "config" /\ Order[6] = "secrets"
  BY DEF Order
<1>2. 1 .. 6 = {1, 2, 3, 4, 5, 6}
  OBVIOUS
<1>3. Tables = {Order[j] : j \in {1, 2, 3, 4, 5, 6}}
  BY <1>1, <1>2 DEF Tables
<1>4. Tables = {"admins", "users", "nodes", "user_nodes", "config", "secrets"}
  BY <1>1, <1>3
<1> QED
  BY <1>1, <1>2, <1>4

LEMMA RowTypes ==
  /\ 0 \in Versions /\ 1 \in Versions /\ Empty \in Rows /\ Torn \notin Rows
  /\ \A t \in Tables : Empty[t] = 0
  /\ \A d \in Rows, t \in Tables : d[t] \in Versions
  /\ \A d \in Rows, t \in Tables, v \in Versions :
        /\ [d EXCEPT ![t] = v] \in Rows /\ [d EXCEPT ![t] = v][t] = v
        /\ \A s \in Tables \ {t} : [d EXCEPT ![t] = v][s] = d[s]
<1>1. 0 \in Versions /\ 1 \in Versions /\ MaxVersion + 1 \notin Versions
  BY ConstantsAssumption DEF Versions
<1>2. Torn["admins"] = MaxVersion + 1 /\ "admins" \in Tables
  BY OrderIs DEF Torn
<1> QED
  BY <1>1, <1>2 DEF Rows, Empty

LEMMA ConstantTypes ==
  /\ Idle \in Request /\ Idle.pc = "idle" /\ ~Idle.wipe /\ Idle.was = Torn /\ Idle.id = NoId
  /\ Idle.data = Empty /\ ~Idle.secrets /\ Idle.i = 0
  /\ None \in Outcomes /\ None.out = "none"
  /\ NoObject \in Objects /\ ~NoObject.stored
  BY RowTypes DEF Idle, Request, None, Outcomes, NoObject, Objects

LEMMA IdleKnows == Knows(Idle)'
  BY ConstantTypes DEF Knows

LEMMA Types ==
  ASSUME IInv
  PROVE  /\ db \in Rows /\ r2 \in [Ids -> Objects] /\ req \in [Reqs -> Request]
         /\ rows \subseteq Ids /\ halted \subseteq Ids /\ work \in 0 .. MaxWork
         /\ last \in Outcomes /\ gone \in BOOLEAN
         /\ db["user_nodes"] # 0 => Refers("user_nodes", db)
         /\ \A b \in Ids : r2[b].stored => Faithful(r2[b])
         /\ \A r \in Reqs : req[r] \in Request /\ Knows(req[r])
  BY DEF IInv, TypeOK

-----------------------------------------------------------------------------
(* What a handler goes by outlasts the steps of others.                    *)

Making(q) == q.pc \in {"copy", "put", "list"}

(* The step of another leaves the backup of q alone. *)
Spared(q) == /\ q.pc = "list" => r2'[q.id].stored
             /\ Making(q) => q.id \notin rows'

LEMMA KnowsStill ==
  ASSUME NEW q \in Request, Knows(q), Spared(q), db' = db \/ q.pc = "put"
  PROVE  Knows(q)'
  BY DEF Knows, Spared, Making, Restored, Emptied

LEMMA KnowsTorn ==
  ASSUME NEW q \in Request, Knows(q), Spared(q), q.pc # "put",
         NEW w \in Request, w = [q EXCEPT !.was = Torn]
  PROVE  Knows(w)'
<1>1. /\ w.pc = q.pc /\ w.id = q.id /\ w.i = q.i /\ w.data = q.data /\ w.secrets = q.secrets
      /\ w.wipe = q.wipe /\ w.was = Torn
  BY DEF Request
<1>2. Faithful(q) => Faithful(w)
  BY <1>1 DEF Faithful
<1> QED
  BY <1>1, <1>2 DEF Knows, Spared, Making

(* A handler whose payload is torn is where it was. *)
SamePlace(q, w) ==
    /\ w.pc = q.pc /\ w.id = q.id /\ w.i = q.i /\ w.data = q.data /\ w.wipe = q.wipe

LEMMA DisturbedKnows ==
  ASSUME IInv, NEW x \in Reqs, req'[x] = Disturbed(x), Spared(req[x])
  PROVE  req'[x] \in Request /\ Knows(req[x])' /\ SamePlace(req[x], req'[x])
<1>1. PICK q \in Request : q = req[x]
  BY Types
<1>2. Knows(q) /\ Spared(q)
  BY <1>1, Types DEF Spared, Making
<1>3. CASE db' = db \/ q.pc = "put"
  <2>1. req'[x] = q
    BY <1>1, <1>3 DEF Disturbed
  <2>2. Knows(q)'
    BY <1>2, <1>3, KnowsStill
  <2> QED
    BY <1>1, <2>1, <2>2 DEF Knows, SamePlace
<1>4. CASE ~(db' = db \/ q.pc = "put")
  <2>1. req'[x] = [q EXCEPT !.was = Torn]
    BY <1>1, <1>4 DEF Disturbed
  <2>2. [q EXCEPT !.was = Torn] \in Request
    BY DEF Request
  <2>3. PICK w \in Request : w = [q EXCEPT !.was = Torn]
    BY <2>2
  <2>4. Knows(w)'
    BY <1>2, <1>4, <2>3, KnowsTorn
  <2>5. req'[x] = w /\ SamePlace(q, w)
    BY <2>1, <2>3 DEF SamePlace, Request
  <2> QED
    BY <1>1, <2>4, <2>5 DEF Knows
<1> QED
  BY <1>3, <1>4


-----------------------------------------------------------------------------
(* What is left to show of a step of handler r.                            *)

(* The rest of the state has its type. *)
RestTyped ==
    /\ db \in Rows /\ r2 \in [Ids -> Objects] /\ rows \subseteq Ids /\ halted \subseteq Ids
    /\ work \in 0 .. MaxWork /\ last \in Outcomes /\ gone \in BOOLEAN
    /\ db["user_nodes"] # 0 => Refers("user_nodes", db)
    /\ \A b \in Ids : r2[b].stored => Faithful(r2[b])

LEMMA Assemble ==
  ASSUME RestTyped', req' \in [Reqs -> Request], \A x \in Reqs : Knows(req[x])',
         Alone', CulpritThere', ListedExists', RoundTrip', FailsForCause'
  PROVE  IInv'
<1>1. \A b \in Ids : r2'[b].data \in Rows
  BY DEF RestTyped, Objects
<1>2. ASSUME NEW x \in Reqs
      PROVE  /\ req'[x].pc \in {"idle", "copy", "put", "list", "delete", "unlist", "wipe",
                                "fill", "end"}
             /\ req'[x].data \in Rows
  <2>1. req'[x] \in Request
    OBVIOUS
  <2> QED
    BY <2>1 DEF Request
<1>3. TypeOK'
  BY <1>1, <1>2 DEF TypeOK, RestTyped
<1> QED
  BY <1>3 DEF IInv, RestTyped

LEMMA RestIsTyped == IInv => RestTyped
  BY DEF IInv, TypeOK, RestTyped

(* Handler r becomes me; the others are disturbed. *)
LEMMA MoveStep ==
  ASSUME IInv, NEW r \in Reqs, NEW me \in Request, Knows(me)', Step(r, me), RestTyped',
         \A x \in Reqs \ {r} : Spared(req[x]),
         Making(me) => \A x \in Reqs \ {r} : req[x].id # me.id,
         \A x \in Reqs \ {r} : Making(req[x]) => me.id # req[x].id,
         CulpritThere', ListedExists', RoundTrip', FailsForCause'
  PROVE  IInv'
<1>1. req'[r] = me /\ \A x \in Reqs \ {r} : req'[x] = Disturbed(x)
  BY DEF Step
<1>2. \A x \in Reqs \ {r} : req'[x] \in Request /\ Knows(req[x])' /\ SamePlace(req[x], req'[x])
  BY <1>1, DisturbedKnows
<1>3. Knows(req[r])'
  BY <1>1 DEF Knows
<1>4. req' \in [Reqs -> Request]
  <2>1. req' = [q \in Reqs |-> req'[q]]
    BY DEF Step
  <2> QED
    BY <1>1, <1>2, <2>1
<1>5. \A x \in Reqs : Knows(req[x])'
  BY <1>2, <1>3
<1>6. Alone'
  <2> SUFFICES ASSUME NEW x \in Reqs, NEW q \in Reqs, x # q,
                      req'[x].pc \in {"copy", "put", "list"}
               PROVE  req'[q].id # req'[x].id
    BY DEF Alone
  <2>1. CASE x = r
    BY <1>1, <1>2, <2>1 DEF Making, SamePlace
  <2>2. CASE q = r
    BY <1>1, <1>2, <2>2 DEF Making, SamePlace
  <2>3. CASE x # r /\ q # r
    BY <1>2, <2>3 DEF IInv, Alone, SamePlace
  <2> QED
    BY <2>1, <2>2, <2>3
<1> QED
  BY <1>4, <1>5, <1>6, Assemble

(* A step that leaves the database alone, as one of Step. *)
LEMMA StepOf ==
  ASSUME IInv, NEW r \in Reqs, NEW me, req' = [req EXCEPT ![r] = me], db' = db
  PROVE  Step(r, me)
<1>1. req = [q \in Reqs |-> req[q]]
  BY Types
<1> QED
  BY <1>1 DEF Step, Disturbed

(* The causes that outlast a step. *)
LEMMA CulpritStays ==
  ASSUME IInv, NEW r \in Reqs, NEW me \in Request, Step(r, me),
         db'["admins"] = 0 => db["admins"] = 0, gone => gone',
         db["admins"] = 0 /\ Culprit(req[r]) => Culprit(me) \/ gone'
  PROVE  CulpritThere'
<1> SUFFICES ASSUME db'["admins"] = 0, ~gone'
             PROVE  \E x \in Reqs : Culprit(req'[x])
  BY DEF CulpritThere, Culprit
<1>1. PICK x \in Reqs : Culprit(req[x])
  BY DEF IInv, CulpritThere
<1>2. CASE x = r
  BY <1>1, <1>2 DEF Step
<1>3. CASE x # r
  <2>1. req'[x] = Disturbed(x) /\ req[x] \in Request
    BY <1>3, Types DEF Step
  <2>2. SamePlace(req[x], req'[x])
    BY <2>1 DEF Disturbed, SamePlace, Request
  <2> QED
    BY <1>1, <2>2 DEF Culprit, SamePlace
<1> QED
  BY <1>2, <1>3

LEMMA ListedStays ==
  ASSUME IInv, NEW r \in Reqs, NEW me \in Request, Step(r, me),
         \A b \in rows' : /\ b \in rows \/ r2'[b].stored
                          /\ r2[b].stored => r2'[b].stored \/ (me.pc = "unlist" /\ me.id = b)
                          /\ b \in halted => b \in halted',
         req[r].pc = "unlist" => \/ me.pc = "unlist" /\ me.id = req[r].id
                                 \/ req[r].id \in halted' \/ req[r].id \notin rows'
  PROVE  ListedExists'
<1> SUFFICES ASSUME NEW b \in rows'
             PROVE  \/ r2'[b].stored \/ b \in halted'
                    \/ \E x \in Reqs : req'[x].pc = "unlist" /\ req'[x].id = b
  BY DEF ListedExists
<1>1. req'[r] = me
  BY DEF Step
<1>2. CASE r2'[b].stored \/ b \in halted \/ r2[b].stored
  BY <1>1, <1>2
<1>3. ASSUME NEW x \in Reqs, req[x].pc = "unlist", req[x].id = b
      PROVE  \/ b \in halted'
             \/ \E y \in Reqs : req'[y].pc = "unlist" /\ req'[y].id = b
  <2>1. CASE x = r
    BY <1>1, <1>3, <2>1
  <2>2. CASE x # r
    <3>1. req'[x] = Disturbed(x) /\ req[x] \in Request
      BY <2>2, Types DEF Step
    <3>2. req'[x].pc = "unlist" /\ req'[x].id = b
      BY <1>3, <3>1 DEF Disturbed, Request
    <3> QED
      BY <3>2
  <2> QED
    BY <2>1, <2>2
<1> QED
  BY <1>2, <1>3 DEF IInv, ListedExists

LEMMA CalmSays == Calm => RoundTrip' /\ FailsForCause' /\ last' \in Outcomes
  BY ConstantTypes DEF Calm, RoundTrip, FailsForCause


-----------------------------------------------------------------------------
(* Making a backup.                                                        *)

LEMMA SparedIfSame ==
  ASSUME IInv, NEW r \in Reqs, UNCHANGED <<r2, rows>>
  PROVE  \A x \in Reqs \ {r} : Spared(req[x])
  BY Types DEF Spared, Knows, Making

LEMMA CreateStep ==
  ASSUME IInv, NEW r \in Reqs, NEW b \in Ids, NEW secrets \in BOOLEAN, Create(r, b, secrets)
  PROVE  IInv'
<1> DEFINE w == [pc |-> "copy", id |-> b, i |-> 1, data |-> Empty, secrets |-> secrets,
                 wipe |-> FALSE, was |-> db]
<1>1. /\ req[r].pc = "idle" /\ work < MaxWork /\ work' = work + 1 /\ b \notin rows
      /\ \A q \in Reqs : req[q].id # b
      /\ req' = [req EXCEPT ![r] = w] /\ Calm /\ UNCHANGED <<db, r2, rows, halted, gone>>
  BY DEF Create
<1>2. /\ w \in Request /\ w.pc = "copy" /\ w.id = b /\ w.i = 1 /\ w.secrets = secrets
      /\ w.was = db /\ w.data = Empty /\ ~w.wipe
  <2>1. db \in Rows /\ Empty \in Rows /\ 1 \in 0 .. 7
    BY Types, RowTypes
  <2> QED
    BY <2>1 DEF Request
<1> HIDE DEF w
<1>3. PICK me \in Request : me = w
  BY <1>2
<1>4. me.secrets \/ \A t \in Secret : me.data[t] = 0
  BY <1>2, <1>3, RowTypes, OrderIs DEF Secret, Required
<1>5. Knows(me)'
  BY <1>1, <1>2, <1>3, <1>4 DEF Knows
<1>6. Step(r, me)
  BY <1>1, <1>3, StepOf
<1>7. RestTyped'
  BY <1>1, Types, CalmSays, ConstantsAssumption DEF RestTyped, Refers
<1>8. CulpritThere'
  BY <1>1, <1>6, CulpritStays, Types DEF Culprit, Knows
<1>9. ListedExists'
  BY <1>1, <1>6, ListedStays
<1>10. \A x \in Reqs \ {r} : Spared(req[x]) /\ req[x].id # me.id
  BY <1>1, <1>2, <1>3, SparedIfSame
<1> QED
  BY <1>1, <1>5, <1>6, <1>7, <1>8, <1>9, <1>10, CalmSays, MoveStep

LEMMA CopyStep ==
  ASSUME IInv, NEW r \in Reqs, CopyTable(r)
  PROVE  IInv'
<1>1. PICK q \in Request : q = req[r]
  BY Types
<1> DEFINE t == Order[q.i]
           value == IF t \in Secret /\ ~q.secrets THEN 0 ELSE db[t]
           data == [q.data EXCEPT ![t] = value]
           pc == IF q.i = 6 THEN "put" ELSE "copy"
           w == [q EXCEPT !.data = data, !.i = q.i + 1, !.pc = pc]
<1>2. q.pc = "copy" /\ Calm /\ UNCHANGED <<db, r2, rows, work, halted, gone>>
  BY <1>1 DEF CopyTable
<1>3. Knows(q) /\ q.i \in 1 .. 6 /\ ~q.wipe
  BY <1>1, <1>2, Types DEF Knows
<1>4. t \in Tables /\ value \in Versions /\ q.data \in Rows
  BY <1>3, OrderIs, RowTypes, Types DEF Request
<1>5. req' = [req EXCEPT ![r] = w]
  <2>1. Len(Order) = 6
    BY OrderIs
  <2>2. req' = [req EXCEPT ![r] =
                  [req[r] EXCEPT !.data = [req[r].data EXCEPT ![Order[req[r].i]] =
                                              IF Order[req[r].i] \in Secret /\ ~req[r].secrets
                                              THEN 0 ELSE db[Order[req[r].i]]],
                                 !.i = req[r].i + 1,
                                 !.pc = IF req[r].i = 6 THEN "put" ELSE "copy"]]
    BY <2>1 DEF CopyTable
  <2> QED
    BY <1>1, <2>2
<1>6. /\ data \in Rows /\ data[t] = value
      /\ \A s \in Tables \ {t} : data[s] = q.data[s]
  BY <1>4, RowTypes
<1> HIDE DEF data
<1>7. /\ w \in Request /\ w.pc = pc /\ w.id = q.id /\ w.i = q.i + 1 /\ w.data = data
      /\ w.secrets = q.secrets /\ w.wipe = q.wipe /\ w.was = q.was
  <2>1. pc \in {"copy", "put"} /\ q.i + 1 \in 0 .. 7
    BY <1>3
  <2> HIDE DEF pc
  <2>2. w \in Request
    BY <1>6, <2>1 DEF Request
  <2> QED
    BY <2>2 DEF Request
<1> HIDE DEF w
<1>8. PICK me \in Request : me = w
  BY <1>7
<1>9. me.secrets \/ \A s \in Secret : me.data[s] = 0
  <2>1. Secret \subseteq Tables
    BY OrderIs DEF Secret, Required
  <2> QED
    BY <1>2, <1>3, <1>6, <1>7, <1>8, <2>1 DEF Knows
<1>10. me.was # Torn => me.was = db /\ \A j \in 1 .. 6 : j < me.i => Copied(me, Order[j])
  <2> SUFFICES ASSUME q.was # Torn
               PROVE  q.was = db /\ \A j \in 1 .. 6 : j < q.i + 1 => Copied(me, Order[j])
    BY <1>7, <1>8
  <2>1. q.was = db /\ \A j \in 1 .. 6 : j < q.i => Copied(q, Order[j])
    BY <1>2, <1>3 DEF Knows
  <2>2. ASSUME NEW j \in 1 .. 6, j < q.i + 1 PROVE Copied(me, Order[j])
    <3>1. CASE j = q.i
      BY <1>6, <1>7, <1>8, <2>1, <3>1 DEF Copied, Kept
    <3>2. CASE j < q.i
      <4>1. Order[j] \in Tables \ {t}
        BY <1>3, <3>2, OrderIs
      <4> QED
        BY <1>6, <1>7, <1>8, <2>1, <3>2, <4>1 DEF Copied, Kept
    <3> QED
      BY <1>3, <2>2, <3>1, <3>2
  <2> QED
    BY <2>1, <2>2
<1>11. Knows(me)'
  <2>1. me.id \in Ids /\ me.id \notin rows
    BY <1>2, <1>3, <1>7, <1>8 DEF Knows
  <2>2. CASE q.i = 6
    <3>1. me.pc = "put"
      BY <1>7, <1>8, <2>2
    <3>2. \A s \in Tables : me.was # Torn => Copied(me, s)
      BY <1>7, <1>8, <1>10, <2>2, OrderIs
    <3>3. me.was # Torn => (me.was["user_nodes"] # 0 => Refers("user_nodes", me.was))
      BY <1>10, Types
    <3>4. Faithful(me)
      BY <1>9, <3>2, <3>3 DEF Faithful
    <3> QED
      BY <1>2, <1>3, <1>7, <1>8, <2>1, <3>1, <3>4 DEF Knows
  <2>3. CASE q.i # 6
    <3>1. me.pc = "copy" /\ me.i \in 1 .. 6
      BY <1>3, <1>7, <1>8, <2>3
    <3> QED
      BY <1>2, <1>3, <1>7, <1>8, <1>9, <1>10, <2>1, <3>1 DEF Knows
  <2> QED
    BY <2>2, <2>3
<1>12. Step(r, me)
  BY <1>2, <1>5, <1>8, StepOf
<1>13. RestTyped'
  BY <1>2, RestIsTyped, CalmSays DEF RestTyped, Refers
<1>14. CulpritThere'
  BY <1>1, <1>2, <1>3, <1>12, CulpritStays DEF Culprit
<1>15. ListedExists'
  BY <1>1, <1>2, <1>12, ListedStays
<1>16. \A x \in Reqs \ {r} : Spared(req[x])
  BY <1>2, SparedIfSame
<1>17. \A x \in Reqs \ {r} : me.id # req[x].id
  BY <1>1, <1>2, <1>7, <1>8 DEF IInv, Alone
<1> QED
  BY <1>2, <1>11, <1>12, <1>13, <1>14, <1>15, <1>16, <1>17, CalmSays, MoveStep


(* A handler that makes or deletes a backup is not a restore that wipes. *)
LEMMA NoCulprit ==
  ASSUME IInv, NEW r \in Reqs, req[r].pc \notin {"wipe", "fill", "end"}
  PROVE  ~Culprit(req[r]) /\ ~req[r].wipe
  BY Types DEF Culprit, Knows

LEMMA PutStep ==
  ASSUME IInv, NEW r \in Reqs, PutObject(r)
  PROVE  IInv'
<1>1. PICK q \in Request : q = req[r]
  BY Types
<1> DEFINE o == [data |-> q.data, secrets |-> q.secrets, was |-> q.was, stored |-> TRUE]
           w == [Idle EXCEPT !.pc = "list", !.id = q.id]
<1>2. /\ q.pc = "put" /\ r2' = [r2 EXCEPT ![q.id] = o] /\ req' = [req EXCEPT ![r] = w]
      /\ Calm /\ UNCHANGED <<db, rows, work, halted, gone>>
  BY <1>1 DEF PutObject, Object
<1>3. Knows(q) /\ q.id \in Ids /\ q.id \notin rows /\ Faithful(q)
  BY <1>1, <1>2, Types DEF Knows
<1>4. o \in Objects /\ Faithful(o)
  BY <1>3 DEF Request, Objects, Faithful, Copied
<1>5. /\ w \in Request /\ w.pc = "list" /\ w.id = q.id /\ w.was = Torn /\ ~w.wipe
  BY <1>3, ConstantTypes DEF Request
<1>6. /\ r2' \in [Ids -> Objects] /\ r2'[q.id] = o /\ o.stored
      /\ \A b \in Ids \ {q.id} : r2'[b] = r2[b]
  BY <1>2, <1>3, <1>4, Types
<1> HIDE DEF o, w
<1>7. PICK me \in Request : me = w
  BY <1>5
<1>8. Knows(me)'
  BY <1>2, <1>3, <1>5, <1>6, <1>7 DEF Knows
<1>9. Step(r, me)
  BY <1>2, <1>7, StepOf
<1>10. RestTyped'
  BY <1>2, <1>4, <1>6, RestIsTyped, CalmSays DEF RestTyped, Refers
<1>11. CulpritThere'
  BY <1>1, <1>2, <1>9, CulpritStays, NoCulprit
<1>12. ListedExists'
  BY <1>1, <1>2, <1>3, <1>6, <1>9, ListedStays, Types
<1>13. \A x \in Reqs \ {r} : Spared(req[x])
  BY <1>2, <1>3, <1>6, Types DEF Spared, Knows, Making
<1>14. \A x \in Reqs \ {r} : me.id # req[x].id
  BY <1>1, <1>2, <1>5, <1>7 DEF IInv, Alone
<1> QED
  BY <1>2, <1>8, <1>9, <1>10, <1>11, <1>12, <1>13, <1>14, CalmSays, MoveStep

LEMMA InsertStep ==
  ASSUME IInv, NEW r \in Reqs, InsertRow(r)
  PROVE  IInv'
<1>1. PICK q \in Request : q = req[r]
  BY Types
<1>2. /\ q.pc = "list" /\ rows' = rows \cup {q.id} /\ req' = [req EXCEPT ![r] = Idle]
      /\ Calm /\ UNCHANGED <<db, r2, work, halted, gone>>
  BY <1>1 DEF InsertRow
<1>3. Knows(q) /\ q.id \in Ids /\ r2[q.id].stored
  BY <1>1, <1>2, Types DEF Knows
<1>4. PICK me \in Request : me = Idle
  BY ConstantTypes
<1>5. Knows(me)'
  BY <1>4, IdleKnows
<1>6. Step(r, me)
  BY <1>2, <1>4, StepOf
<1>7. RestTyped'
  BY <1>2, <1>3, RestIsTyped, CalmSays DEF RestTyped, Refers
<1>8. CulpritThere'
  BY <1>1, <1>2, <1>6, CulpritStays, NoCulprit
<1>9. ListedExists'
  BY <1>1, <1>2, <1>3, <1>6, ListedStays, Types
<1>10. \A x \in Reqs \ {r} : req[x].id # q.id
  BY <1>1, <1>2 DEF IInv, Alone
<1>11. \A x \in Reqs \ {r} : Spared(req[x])
  BY <1>2, <1>10, Types DEF Spared, Knows, Making
<1>12. ~Making(me) /\ me.id = NoId
  BY <1>4, ConstantTypes DEF Making
<1>13. \A x \in Reqs \ {r} : Making(req[x]) => me.id # req[x].id
  BY <1>12, Types, ConstantsAssumption DEF Making, Knows
<1> QED
  BY <1>2, <1>5, <1>6, <1>7, <1>8, <1>9, <1>11, <1>12, <1>13, CalmSays, MoveStep


-----------------------------------------------------------------------------
(* Deleting one.                                                           *)

LEMMA FindStep ==
  ASSUME IInv, NEW r \in Reqs, NEW b \in Ids, FindRow(r, b)
  PROVE  IInv'
<1> DEFINE w == [Idle EXCEPT !.pc = "delete", !.id = b]
<1>1. /\ req[r].pc = "idle" /\ b \in rows /\ work < MaxWork /\ work' = work + 1
      /\ req' = [req EXCEPT ![r] = w] /\ Calm /\ UNCHANGED <<db, r2, rows, halted, gone>>
  BY DEF FindRow
<1>2. w \in Request /\ w.pc = "delete" /\ w.id = b /\ w.was = Torn /\ ~w.wipe
  BY ConstantTypes DEF Request
<1> HIDE DEF w
<1>3. PICK me \in Request : me = w
  BY <1>2
<1>4. Knows(me)'
  BY <1>2, <1>3 DEF Knows
<1>5. Step(r, me)
  BY <1>1, <1>3, StepOf
<1>6. RestTyped'
  BY <1>1, Types, CalmSays, ConstantsAssumption DEF RestTyped, Refers
<1>7. CulpritThere'
  BY <1>1, <1>5, CulpritStays, NoCulprit
<1>8. ListedExists'
  BY <1>1, <1>5, ListedStays
<1>9. \A x \in Reqs \ {r} : Spared(req[x])
  BY <1>1, SparedIfSame
<1>10. \A x \in Reqs \ {r} : Making(req[x]) => me.id # req[x].id
  BY <1>1, <1>2, <1>3, Types DEF Making, Knows
<1>11. ~Making(me)
  BY <1>2, <1>3 DEF Making
<1> QED
  BY <1>1, <1>4, <1>5, <1>6, <1>7, <1>8, <1>9, <1>10, <1>11, CalmSays, MoveStep

LEMMA DeleteObjectStep ==
  ASSUME IInv, NEW r \in Reqs, DeleteObject(r)
  PROVE  IInv'
<1>1. PICK q \in Request : q = req[r]
  BY Types
<1> DEFINE w == [q EXCEPT !.pc = "unlist"]
<1>2. /\ q.pc = "delete" /\ r2' = [r2 EXCEPT ![q.id] = NoObject]
      /\ req' = [req EXCEPT ![r] = w]
      /\ Calm /\ UNCHANGED <<db, rows, work, halted, gone>>
  <2>1. req[r] = q
    BY <1>1
  <2>2. req' = [req EXCEPT ![r] = [req[r] EXCEPT !.pc = "unlist"]]
    BY DEF DeleteObject
  <2> QED
    BY <2>1, <2>2 DEF DeleteObject
<1>3. Knows(q) /\ q.id \in Ids
  BY <1>1, <1>2, Types DEF Knows
<1>4. w \in Request /\ w.pc = "unlist" /\ w.id = q.id /\ w.wipe = q.wipe
  BY DEF Request
<1>5. /\ r2' \in [Ids -> Objects] /\ ~r2'[q.id].stored
      /\ \A b \in Ids \ {q.id} : r2'[b] = r2[b]
  BY <1>2, <1>3, Types, ConstantTypes
<1> HIDE DEF w
<1>6. PICK me \in Request : me = w
  BY <1>4
<1>7. Knows(me)'
  BY <1>2, <1>3, <1>4, <1>6 DEF Knows
<1>8. Step(r, me)
  BY <1>2, <1>6, StepOf
<1>9. RestTyped'
  BY <1>2, <1>5, RestIsTyped, CalmSays DEF RestTyped, Refers
<1>10. CulpritThere'
  BY <1>1, <1>2, <1>8, CulpritStays, NoCulprit
<1>11. ListedExists'
  BY <1>1, <1>2, <1>3, <1>4, <1>5, <1>6, <1>8, ListedStays, Types
<1>12. \A x \in Reqs \ {r} : Making(req[x]) => q.id # req[x].id
  BY <1>1 DEF IInv, Alone, Making
<1>13. \A x \in Reqs \ {r} : Spared(req[x])
  BY <1>2, <1>5, <1>12, Types DEF Spared, Knows, Making
<1>14. ~Making(me)
  BY <1>4, <1>6 DEF Making
<1> QED
  BY <1>2, <1>4, <1>6, <1>7, <1>8, <1>9, <1>10, <1>11, <1>12, <1>13, <1>14, CalmSays, MoveStep

LEMMA DeleteRowStep ==
  ASSUME IInv, NEW r \in Reqs, DeleteRow(r)
  PROVE  IInv'
<1>1. PICK q \in Request : q = req[r]
  BY Types
<1>2. /\ q.pc = "unlist" /\ rows' = rows \ {q.id} /\ halted' = halted \ {q.id}
      /\ req' = [req EXCEPT ![r] = Idle] /\ Calm /\ UNCHANGED <<db, r2, work, gone>>
  BY <1>1 DEF DeleteRow
<1>3. PICK me \in Request : me = Idle
  BY ConstantTypes
<1>4. Knows(me)'
  BY <1>3, IdleKnows
<1>5. Step(r, me)
  BY <1>2, <1>3, StepOf
<1>6. RestTyped'
  BY <1>2, RestIsTyped, CalmSays DEF RestTyped, Refers
<1>7. CulpritThere'
  BY <1>1, <1>2, <1>5, CulpritStays, NoCulprit
<1>8. ListedExists'
  BY <1>1, <1>2, <1>5, ListedStays
<1>9. \A x \in Reqs \ {r} : Spared(req[x])
  BY <1>2, Types DEF Spared, Knows, Making
<1>10. ~Making(me) /\ me.id = NoId
  BY <1>3, ConstantTypes DEF Making
<1>11. \A x \in Reqs \ {r} : Making(req[x]) => me.id # req[x].id
  BY <1>10, Types, ConstantsAssumption DEF Making, Knows
<1> QED
  BY <1>2, <1>4, <1>5, <1>6, <1>7, <1>8, <1>9, <1>10, <1>11, CalmSays, MoveStep


-----------------------------------------------------------------------------
(* Restoring.                                                              *)

LEMMA LoadStep ==
  ASSUME IInv, NEW r \in Reqs, NEW b \in Ids, NEW wipe \in BOOLEAN, Load(r, b, wipe)
  PROVE  IInv'
<1> DEFINE pc == IF wipe THEN "wipe" ELSE "fill"
           i == IF wipe THEN 6 ELSE 1
           w == [pc |-> pc, id |-> NoId, i |-> i, data |-> r2[b].data,
                 secrets |-> r2[b].secrets, wipe |-> wipe, was |-> r2[b].was]
<1>1. /\ req[r].pc = "idle" /\ r2[b].stored /\ work < MaxWork /\ work' = work + 1
      /\ req' = [req EXCEPT ![r] = w] /\ Calm /\ UNCHANGED <<db, r2, rows, halted, gone>>
  BY OrderIs DEF Load
<1>2. /\ pc \in {"wipe", "fill"} /\ i \in 1 .. 6
      /\ wipe => pc = "wipe" /\ i = 6
      /\ ~wipe => pc = "fill" /\ i = 1
  OBVIOUS
<1>3. Faithful(r2[b]) /\ r2[b] \in Objects
  BY <1>1, Types
<1> HIDE DEF pc, i
<1>4. /\ w \in Request /\ w.pc = pc /\ w.id = NoId /\ w.i = i /\ w.data = r2[b].data
      /\ w.secrets = r2[b].secrets /\ w.wipe = wipe /\ w.was = r2[b].was
  BY <1>2, <1>3 DEF Request, Objects
<1> HIDE DEF w
<1>5. PICK me \in Request : me = w
  BY <1>4
<1>6. Faithful(me)
  BY <1>3, <1>4, <1>5 DEF Faithful, Copied
<1>7. Knows(me)'
  <2>1. CASE wipe
    <3>1. \A j \in 1 .. 6 : ~(j > 6)
      OBVIOUS
    <3> QED
      BY <1>2, <1>4, <1>5, <1>6, <2>1, <3>1 DEF Knows
  <2>2. CASE ~wipe
    <3>1. \A j \in 1 .. 6 : ~(j < 1)
      OBVIOUS
    <3> QED
      BY <1>2, <1>4, <1>5, <1>6, <2>2, <3>1 DEF Knows, Emptied
  <2> QED
    BY <2>1, <2>2
<1>8. Step(r, me)
  BY <1>1, <1>5, StepOf
<1>9. RestTyped'
  BY <1>1, Types, CalmSays, ConstantsAssumption DEF RestTyped, Refers
<1>10. CulpritThere'
  BY <1>1, <1>8, CulpritStays, NoCulprit
<1>11. ListedExists'
  BY <1>1, <1>8, ListedStays
<1>12. \A x \in Reqs \ {r} : Spared(req[x])
  BY <1>1, SparedIfSame
<1>13. \A x \in Reqs \ {r} : Making(req[x]) => me.id # req[x].id
  BY <1>4, <1>5, Types, ConstantsAssumption DEF Making, Knows
<1>14. ~Making(me)
  BY <1>2, <1>4, <1>5 DEF Making
<1> QED
  BY <1>1, <1>7, <1>8, <1>9, <1>10, <1>11, <1>12, <1>13, <1>14, CalmSays, MoveStep

LEMMA WithoutSays ==
  ASSUME db \in Rows, NEW t \in Tables,
         db["user_nodes"] # 0 => Refers("user_nodes", db), db' = Without(t)
  PROVE  /\ db' \in Rows /\ db'[t] = 0
         /\ \A s \in Tables : db'[s] = db[s] \/ db'[s] = 0
         /\ \A s \in Tables : s \notin {t, "user_nodes"} => db'[s] = db[s]
         /\ db'["user_nodes"] # 0 => Refers("user_nodes", db)'
<1>1. \A s \in Tables : db'[s] = IF s = t \/ (s = "user_nodes" /\ t \in {"users", "nodes"})
                                 THEN 0 ELSE db[s]
  BY DEF Without
<1>2. db' \in Rows
  <2>1. \A s \in Tables : db'[s] \in Versions
    BY <1>1, RowTypes
  <2>2. db' = [s \in Tables |-> db'[s]]
    BY DEF Without
  <2> QED
    BY <2>1, <2>2 DEF Rows
<1>3. db'["user_nodes"] # 0 => Refers("user_nodes", db)'
  <2> SUFFICES ASSUME db'["user_nodes"] # 0 PROVE db'["users"] # 0 /\ db'["nodes"] # 0
    BY DEF Refers
  <2>1. t \notin {"users", "nodes", "user_nodes"} /\ db["user_nodes"] # 0
    BY <1>1, OrderIs
  <2> QED
    BY <1>1, <2>1, OrderIs DEF Refers
<1> QED
  BY <1>1, <1>2, <1>3

LEMMA WipeStep ==
  ASSUME IInv, NEW r \in Reqs, WipeTable(r)
  PROVE  IInv'
<1>1. PICK q \in Request : q = req[r]
  BY Types
<1> DEFINE pc == IF q.i = 1 THEN "fill" ELSE "wipe"
           i == IF q.i = 1 THEN 1 ELSE q.i - 1
           w == [q EXCEPT !.pc = pc, !.i = i]
<1>2. /\ q.pc = "wipe" /\ db' = Without(Order[q.i]) /\ Step(r, w)
      /\ Calm /\ UNCHANGED <<r2, rows, work, halted, gone>>
  BY <1>1 DEF WipeTable
<1>3. Knows(q) /\ q.i \in 1 .. 6 /\ Faithful(q) /\ q.wipe
  BY <1>1, <1>2, Types DEF Knows
<1>4. /\ pc \in {"wipe", "fill"} /\ i \in 1 .. 6
      /\ q.i = 1 => pc = "fill" /\ i = 1
      /\ q.i # 1 => pc = "wipe" /\ i = q.i - 1
  BY <1>3
<1> HIDE DEF pc, i
<1>5. /\ w \in Request /\ w.pc = pc /\ w.id = q.id /\ w.i = i /\ w.data = q.data
      /\ w.secrets = q.secrets /\ w.wipe = q.wipe /\ w.was = q.was
  <2>1. i \in 0 .. 7
    BY <1>4
  <2>2. w \in Request
    BY <1>4, <2>1 DEF Request
  <2> QED
    BY <2>2 DEF Request
<1> HIDE DEF w
<1>6. PICK me \in Request : me = w
  BY <1>5
<1>7. Order[q.i] \in Tables
  BY <1>3, OrderIs
<1>8. /\ db' \in Rows /\ db'[Order[q.i]] = 0
      /\ \A s \in Tables : db'[s] = db[s] \/ db'[s] = 0
      /\ db'["user_nodes"] # 0 => Refers("user_nodes", db)'
  BY <1>2, <1>7, Types, WithoutSays
<1>9. q.was # Torn => \A j \in 1 .. 6 : j >= q.i => db'[Order[j]] = 0
  <2> SUFFICES ASSUME q.was # Torn, NEW j \in 1 .. 6, j >= q.i
               PROVE  db'[Order[j]] = 0
    OBVIOUS
  <2>1. CASE j = q.i
    BY <1>8, <2>1
  <2>2. CASE j > q.i
    <3>1. db[Order[j]] = 0
      BY <1>2, <1>3, <2>2 DEF Knows, Emptied
    <3> QED
      BY <1>8, <3>1, OrderIs
  <2> QED
    BY <1>3, <2>1, <2>2
<1>10. Faithful(me)
  BY <1>3, <1>5, <1>6 DEF Faithful, Copied
<1>11. Knows(me)'
  <2>1. CASE q.i = 1
    <3>1. me.pc = "fill" /\ me.i = 1 /\ me.i \in 1 .. 6
      BY <1>4, <1>5, <1>6, <2>1
    <3>2. me.was # Torn => \A j \in 1 .. 6 : ~(j < me.i) /\ db'[Order[j]] = 0
      BY <1>5, <1>6, <1>9, <2>1, <3>1
    <3> QED
      BY <1>3, <1>5, <1>6, <1>10, <3>1, <3>2 DEF Knows, Emptied
  <2>2. CASE q.i # 1
    <3>1. me.pc = "wipe" /\ me.i = q.i - 1 /\ me.i \in 1 .. 6
      BY <1>4, <1>5, <1>6, <2>2
    <3>2. me.was # Torn => \A j \in 1 .. 6 : j > me.i => db'[Order[j]] = 0
      BY <1>3, <1>5, <1>6, <1>9, <3>1
    <3> QED
      BY <1>3, <1>5, <1>6, <1>10, <3>1, <3>2 DEF Knows, Emptied
  <2> QED
    BY <2>1, <2>2
<1>12. Step(r, me)
  BY <1>2, <1>6
<1>13. RestTyped'
  BY <1>2, <1>8, RestIsTyped, CalmSays DEF RestTyped
<1>14. CulpritThere'
  <2>1. Culprit(me)
    BY <1>3, <1>4, <1>5, <1>6 DEF Culprit
  <2>2. req'[r] = me
    BY <1>12 DEF Step
  <2> QED
    BY <2>1, <2>2 DEF CulpritThere, Culprit
<1>15. ListedExists'
  BY <1>1, <1>2, <1>12, ListedStays
<1>16. \A x \in Reqs \ {r} : Spared(req[x])
  BY <1>2, SparedIfSame
<1>17. ~Making(me) /\ me.id = q.id
  BY <1>4, <1>5, <1>6 DEF Making
<1>18. \A x \in Reqs \ {r} : Making(req[x]) => me.id # req[x].id
  BY <1>1, <1>17 DEF IInv, Alone, Making
<1> QED
  BY <1>2, <1>11, <1>12, <1>13, <1>14, <1>15, <1>16, <1>17, <1>18, CalmSays, MoveStep


(* Restore q is done with the table of its turn. *)
Advance(q) ==
    [q EXCEPT !.i = q.i + 1, !.pc = IF q.i = 6 THEN "end" ELSE "fill"]

LEMMA Advances ==
  ASSUME NEW q \in Request, q.pc = "fill", q.i \in 1 .. 6
  PROVE  /\ Advance(q) \in Request
         /\ Advance(q).i = q.i + 1 /\ Advance(q).pc = (IF q.i = 6 THEN "end" ELSE "fill")
         /\ Advance(q).data = q.data /\ Advance(q).secrets = q.secrets
         /\ Advance(q).wipe = q.wipe /\ Advance(q).was = q.was /\ Advance(q).id = q.id
<1> DEFINE pc == IF q.i = 6 THEN "end" ELSE "fill"
<1>1. q.i + 1 \in 0 .. 7 /\ pc \in {"end", "fill"}
  OBVIOUS
<1>2. Advance(q) = [q EXCEPT !.i = q.i + 1, !.pc = pc]
  BY DEF Advance
<1> HIDE DEF pc
<1>3. Advance(q) \in Request
  BY <1>1, <1>2 DEF Request
<1>4. /\ Advance(q).i = q.i + 1 /\ Advance(q).pc = pc
      /\ Advance(q).data = q.data /\ Advance(q).secrets = q.secrets
      /\ Advance(q).wipe = q.wipe /\ Advance(q).was = q.was /\ Advance(q).id = q.id
  BY <1>2 DEF Request
<1> QED
  BY <1>3, <1>4 DEF pc

(* The table of its turn is as the payload would have it, the others are   *)
(* as they were: restore q knows one more.                                 *)
LEMMA AdvanceKnows ==
  ASSUME NEW q \in Request, Knows(q), q.pc = "fill", NEW me \in Request, me = Advance(q),
         \A s \in Tables : s # Order[q.i] => db'[s] = db[s],
         q.was # Torn => Restored(q, Order[q.i])'
  PROVE  Knows(me)'
<1>1. q.i \in 1 .. 6 /\ Faithful(q) /\ (q.wipe => q.pc \in {"wipe", "fill", "end"})
  BY DEF Knows
<1>2. /\ me.i = q.i + 1 /\ me.pc = (IF q.i = 6 THEN "end" ELSE "fill")
      /\ me.data = q.data /\ me.secrets = q.secrets /\ me.wipe = q.wipe /\ me.was = q.was
  BY <1>1, Advances
<1>3. Faithful(me)
  BY <1>1, <1>2 DEF Faithful, Copied
<1>4. ASSUME q.was # Torn, NEW j \in 1 .. 6
      PROVE  IF j < q.i + 1 THEN Restored(me, Order[j])' ELSE Emptied(me, Order[j])'
  <2>1. IF j < q.i THEN Restored(q, Order[j]) ELSE Emptied(q, Order[j])
    BY <1>4 DEF Knows
  <2>2. CASE j = q.i
    BY <1>1, <1>2, <1>4, <2>2 DEF Restored
  <2>3. CASE j # q.i
    <3>1. db'[Order[j]] = db[Order[j]]
      BY <1>1, <2>3, OrderIs
    <3> QED
      BY <1>1, <1>2, <2>1, <2>3, <3>1 DEF Restored, Emptied
  <2> QED
    BY <2>2, <2>3
<1>5. CASE q.i = 6
  <2>1. me.pc = "end"
    BY <1>2, <1>5
  <2>2. ASSUME q.was # Torn, NEW s \in Tables PROVE Restored(me, s)'
    <3>1. PICK j \in 1 .. 6 : s = Order[j]
      BY OrderIs
    <3>2. j < q.i + 1
      BY <1>5
    <3>3. Restored(me, Order[j])'
      BY <1>4, <2>2, <3>2
    <3> QED
      BY <3>1, <3>3
  <2> QED
    BY <1>1, <1>2, <1>3, <2>1, <2>2 DEF Knows
<1>6. CASE q.i # 6
  <2>1. me.pc = "fill" /\ me.i \in 1 .. 6 /\ me.i = q.i + 1
    BY <1>1, <1>2, <1>6
  <2> QED
    BY <1>1, <1>2, <1>3, <1>4, <2>1 DEF Knows
<1> QED
  BY <1>5, <1>6


(* Restore r at the table of its turn: what every way of dealing with it   *)
(* starts from.                                                            *)
LEMMA Filling ==
  ASSUME IInv, NEW r \in Reqs, NEW q \in Request, q = req[r], q.pc = "fill"
  PROVE  /\ Knows(q) /\ q.i \in 1 .. 6 /\ Faithful(q) /\ Order[q.i] \in Tables
         /\ Skipped(r, Order[q.i]) <=>
               q.data[Order[q.i]] = 0 \/ ~Kept(Order[q.i], q.secrets)
         /\ q.was # Torn =>
               /\ Copied(q, Order[q.i]) /\ Emptied(q, Order[q.i])
               /\ \A j \in 1 .. 6 : j < q.i => Restored(q, Order[j])
<1>1. Knows(q)
  BY Types
<1>2. q.i \in 1 .. 6 /\ Faithful(q)
  BY <1>1 DEF Knows
<1>3. Order[q.i] \in Tables
  BY <1>2, OrderIs
<1>4. Skipped(r, Order[q.i]) <=> q.data[Order[q.i]] = 0 \/ ~Kept(Order[q.i], q.secrets)
  BY <1>2, <1>3 DEF Skipped, Kept, Secret, Faithful
<1>5. ASSUME q.was # Torn
      PROVE  /\ Copied(q, Order[q.i]) /\ Emptied(q, Order[q.i])
             /\ \A j \in 1 .. 6 : j < q.i => Restored(q, Order[j])
  <2>1. \A j \in 1 .. 6 : IF j < q.i THEN Restored(q, Order[j]) ELSE Emptied(q, Order[j])
    BY <1>1, <1>5 DEF Knows
  <2>2. Copied(q, Order[q.i])
    BY <1>2, <1>3, <1>5 DEF Faithful
  <2> QED
    BY <1>2, <2>1, <2>2
<1> QED
  BY <1>1, <1>2, <1>3, <1>4, <1>5

(* What a restore that advances leaves to the others. *)
LEMMA AdvanceStep ==
  ASSUME IInv, NEW r \in Reqs, NEW q \in Request, q = req[r], q.pc = "fill",
         NEW me \in Request, me = Advance(q), Step(r, me), Knows(me)',
         RestTyped', CulpritThere', Calm, UNCHANGED <<r2, rows, work, halted>>
  PROVE  IInv'
<1>1. /\ me.pc \in {"fill", "end"} /\ me.id = q.id
  BY Filling, Advances
<1>2. ListedExists'
  BY ListedStays
<1>3. \A x \in Reqs \ {r} : Spared(req[x])
  BY SparedIfSame
<1>4. \A x \in Reqs \ {r} : Making(req[x]) => me.id # req[x].id
  BY <1>1 DEF IInv, Alone, Making
<1>5. ~Making(me)
  BY <1>1 DEF Making
<1> QED
  BY <1>2, <1>3, <1>4, <1>5, CalmSays, MoveStep

LEMMA SkipStep ==
  ASSUME IInv, NEW r \in Reqs, req[r].pc = "fill", Skipped(r, Order[req[r].i]),
         req' = [req EXCEPT ![r] = Advance(req[r])],
         Calm, UNCHANGED <<db, r2, rows, work, halted, gone>>
  PROVE  IInv'
<1>1. PICK q \in Request : q = req[r]
  BY Types
<1>2. q.pc = "fill"
  BY <1>1
<1>3. /\ Knows(q) /\ q.i \in 1 .. 6 /\ Faithful(q) /\ Order[q.i] \in Tables
      /\ q.data[Order[q.i]] = 0 \/ ~Kept(Order[q.i], q.secrets)
      /\ q.was # Torn => Copied(q, Order[q.i]) /\ Emptied(q, Order[q.i])
  BY <1>1, <1>2, Filling
<1>4. PICK me \in Request : me = Advance(q)
  BY <1>2, <1>3, Advances
<1>5. Step(r, me)
  BY <1>1, <1>4, StepOf
<1>6. q.was # Torn => Restored(q, Order[q.i])'
  BY <1>3 DEF Restored, Copied, Emptied
<1>7. Knows(me)'
  BY <1>2, <1>3, <1>4, <1>6, AdvanceKnows
<1>8. RestTyped'
  BY RestIsTyped, CalmSays DEF RestTyped, Refers
<1>9. Culprit(q) => Culprit(me)
  <2>1. me.data = q.data /\ me.wipe = q.wipe
    BY <1>2, <1>3, <1>4, Advances
  <2>2. q.i = 1 => q.data["admins"] = 0
    BY <1>3, OrderIs DEF Kept, Faithful
  <2> QED
    BY <1>2, <2>1, <2>2 DEF Culprit
<1>10. CulpritThere'
  BY <1>1, <1>5, <1>9, CulpritStays
<1> QED
  BY <1>1, <1>2, <1>4, <1>5, <1>7, <1>8, <1>10, AdvanceStep

LEMMA UpsertStep ==
  ASSUME IInv, NEW r \in Reqs, req[r].pc = "fill",
         ~Skipped(r, Order[req[r].i]), Refers(Order[req[r].i], db),
         db' = [db EXCEPT ![Order[req[r].i]] = req[r].data[Order[req[r].i]]],
         gone' = (gone /\ Order[req[r].i] # "admins"),
         Step(r, Advance(req[r])), Calm, UNCHANGED <<r2, rows, work, halted>>
  PROVE  IInv'
<1>1. PICK q \in Request : q = req[r]
  BY Types
<1>2. q.pc = "fill"
  BY <1>1
<1>3. /\ Knows(q) /\ q.i \in 1 .. 6 /\ Faithful(q) /\ Order[q.i] \in Tables
      /\ q.data[Order[q.i]] # 0 /\ Kept(Order[q.i], q.secrets)
      /\ q.was # Torn => Copied(q, Order[q.i])
  BY <1>1, <1>2, Filling
<1>4. PICK t \in Tables : t = Order[q.i]
  BY <1>3
<1>5. PICK v \in Versions : v = q.data[t]
  BY RowTypes DEF Request
<1>6. /\ db' = [db EXCEPT ![t] = v] /\ v # 0 /\ Refers(t, db)
      /\ gone' = (gone /\ t # "admins")
  BY <1>1, <1>3, <1>4, <1>5
<1>7. db \in Rows /\ gone \in BOOLEAN /\ (db["user_nodes"] # 0 => Refers("user_nodes", db))
  BY Types
<1>8. db' \in Rows /\ db'[t] = v /\ \A s \in Tables \ {t} : db'[s] = db[s]
  BY <1>6, <1>7 DEF Rows
<1>9. db'["user_nodes"] # 0 => Refers("user_nodes", db)'
  BY <1>6, <1>7, <1>8, OrderIs DEF Refers
<1>10. PICK me \in Request : me = Advance(q)
  BY <1>2, <1>3, Advances
<1>11. Step(r, me)
  BY <1>1, <1>10
<1>12. q.was # Torn => Restored(q, Order[q.i])'
  BY <1>3, <1>4, <1>5, <1>8 DEF Restored, Copied
<1>13. \A s \in Tables : s # Order[q.i] => db'[s] = db[s]
  BY <1>4, <1>8
<1>14. Knows(me)'
  BY <1>2, <1>3, <1>4, <1>10, <1>12, <1>13, AdvanceKnows
<1>15. RestTyped'
  BY <1>6, <1>7, <1>8, <1>9, RestIsTyped, CalmSays DEF RestTyped
<1>16. CulpritThere'
  <2>1. CASE t = "admins"
    BY <1>6, <1>8, <2>1 DEF CulpritThere
  <2>2. CASE t # "admins"
    <3>1. db'["admins"] = db["admins"] /\ gone' = gone
      BY <1>6, <1>7, <1>8, <2>2, OrderIs
    <3>2. q.i # 1 /\ me.data = q.data /\ me.wipe = q.wipe
      BY <1>2, <1>3, <1>4, <1>10, <2>2, OrderIs, Advances
    <3>3. Culprit(q) => Culprit(me)
      BY <1>2, <3>2 DEF Culprit
    <3> QED
      BY <1>1, <1>11, <3>1, <3>3, CulpritStays
  <2> QED
    BY <2>1, <2>2
<1> QED
  BY <1>1, <1>2, <1>10, <1>11, <1>14, <1>15, <1>16, AdvanceStep


LEMMA EndedTyped ==
  ASSUME NEW q \in Request, NEW out \in {"done", "failed"},
         last' = [out |-> out, was |-> q.was, secrets |-> q.secrets, wipe |-> q.wipe]
  PROVE  /\ last' \in Outcomes /\ last'.out = out /\ last'.was = q.was
         /\ last'.secrets = q.secrets /\ last'.wipe = q.wipe
  BY DEF Request, Outcomes

(* What is left of a handler r that stops. *)
Left(r) ==
    /\ halted' \subseteq Ids /\ \A b \in halted : b \in halted'
    /\ req[r].pc = "unlist" => req[r].id \in halted'
    /\ gone => gone'
    /\ gone' \in BOOLEAN
    /\ db["admins"] = 0 /\ Culprit(req[r]) => gone'
    /\ last' \in Outcomes

(* It goes, and leaves the panel as it is. *)
LEMMA StopStep ==
  ASSUME IInv, NEW r \in Reqs, req' = [req EXCEPT ![r] = Idle], Left(r),
         RoundTrip', FailsForCause', UNCHANGED <<db, r2, rows, work>>
  PROVE  IInv'
<1>1. PICK me \in Request : me = Idle
  BY ConstantTypes
<1>2. Knows(me)'
  BY <1>1, IdleKnows
<1>3. Step(r, me)
  BY <1>1, StepOf
<1>4. RestTyped'
  BY RestIsTyped DEF RestTyped, Refers, Left
<1>5. CulpritThere'
  BY <1>3, CulpritStays DEF Left
<1>6. ListedExists'
  BY <1>3, ListedStays DEF Left
<1>7. \A x \in Reqs \ {r} : Spared(req[x])
  BY SparedIfSame
<1>8. ~Making(me) /\ me.id = NoId
  BY <1>1, ConstantTypes DEF Making
<1>9. \A x \in Reqs \ {r} : Making(req[x]) => me.id # req[x].id
  BY <1>8, Types, ConstantsAssumption DEF Making, Knows
<1> QED
  BY <1>2, <1>3, <1>4, <1>5, <1>6, <1>7, <1>8, <1>9, MoveStep

(* What is in the way of a payload that is not torn: for a restore that    *)
(* does not wipe, a row that has changed; or, for the links of a payload   *)
(* without secrets, the users that were skipped.                           *)
LEMMA InTheWay ==
  ASSUME IInv, NEW r \in Reqs, NEW q \in Request, q = req[r], q.pc = "fill", q.was # Torn,
         ~Skipped(r, Order[q.i]), ~Refers(Order[q.i], db) \/ Clashes(r, Order[q.i])
  PROVE  \/ ~q.wipe /\ \E t \in Unique : db[t] \notin {0, q.was[t]}
         \/ ~q.secrets /\ db["users"] = 0
<1>1. CASE Clashes(r, Order[q.i])
  <2>1. q.data[Order[q.i]] = q.was[Order[q.i]] /\ (q.wipe => db[Order[q.i]] = 0)
    BY Filling DEF Copied, Emptied
  <2> QED
    BY <1>1, <2>1 DEF Clashes
<1>2. CASE ~Refers(Order[q.i], db)
  <2>1. Order[q.i] = "user_nodes" /\ (db["users"] = 0 \/ db["nodes"] = 0)
    BY <1>2 DEF Refers
  <2>2. q.i = 4
    BY <2>1, Filling, OrderIs
  <2>3. q.was["user_nodes"] # 0
    BY <2>1, Filling DEF Copied, Kept
  <2>4. q.was["users"] # 0 /\ q.was["nodes"] # 0
    BY <2>3, Filling DEF Faithful, Refers
  <2>5. Restored(q, "users") /\ Restored(q, "nodes")
    BY <2>2, Filling, OrderIs
  <2>6. db["nodes"] # 0
    BY <2>4, <2>5 DEF Restored, Kept, Secret, Required
  <2>7. q.secrets => db["users"] # 0
    BY <2>4, <2>5 DEF Restored, Kept
  <2> QED
    BY <2>1, <2>6, <2>7
<1> QED
  BY <1>1, <1>2

LEMMA FailStep ==
  ASSUME IInv, NEW r \in Reqs, req[r].pc = "fill",
         ~Skipped(r, Order[req[r].i]),
         ~Refers(Order[req[r].i], db) \/ Clashes(r, Order[req[r].i]),
         Outcome(r, "failed"), Leaves(r, TRUE), req' = [req EXCEPT ![r] = Idle],
         UNCHANGED <<db, r2, rows, work, halted>>
  PROVE  IInv'
<1>1. PICK q \in Request : q = req[r]
  BY Types
<1>2. /\ last' \in Outcomes /\ last'.out = "failed" /\ last'.was = q.was
      /\ last'.secrets = q.secrets /\ last'.wipe = q.wipe
  BY <1>1, EndedTyped DEF Outcome
<1>3. FailsForCause' /\ RoundTrip'
  BY <1>1, <1>2, InTheWay DEF FailsForCause, RoundTrip
<1>4. /\ (gone => gone') /\ gone' \in BOOLEAN
      /\ db["admins"] = 0 /\ Culprit(req[r]) => gone'
  BY DEF Leaves, Culprit
<1>5. halted' \subseteq Ids /\ \A b \in halted : b \in halted'
  BY Types
<1>6. Left(r)
  BY <1>2, <1>4, <1>5 DEF Left
<1> QED
  BY <1>3, <1>6, StopStep

LEMMA FillStep ==
  ASSUME IInv, NEW r \in Reqs, FillTable(r)
  PROVE  IInv'
<1>1. req[r].pc = "fill" /\ UNCHANGED <<r2, rows, work, halted>>
  BY DEF FillTable
<1>2. Advance(req[r]) = [req[r] EXCEPT !.i = req[r].i + 1,
                                       !.pc = IF req[r].i = Len(Order) THEN "end" ELSE "fill"]
  BY OrderIs DEF Advance
<1>3. CASE Skipped(r, Order[req[r].i])
  <2>1. /\ req' = [req EXCEPT ![r] = Advance(req[r])]
        /\ Calm /\ UNCHANGED <<db, gone>>
    BY <1>2, <1>3 DEF FillTable
  <2> QED
    BY <1>1, <1>3, <2>1, SkipStep
<1>4. CASE /\ ~Skipped(r, Order[req[r].i]) /\ Refers(Order[req[r].i], db)
           /\ db' = [db EXCEPT ![Order[req[r].i]] = req[r].data[Order[req[r].i]]]
           /\ gone' = (gone /\ Order[req[r].i] # "admins")
           /\ Step(r, Advance(req[r])) /\ Calm
  BY <1>1, <1>4, UpsertStep
<1>5. CASE /\ ~Skipped(r, Order[req[r].i])
           /\ ~Refers(Order[req[r].i], db) \/ Clashes(r, Order[req[r].i])
           /\ Outcome(r, "failed") /\ Leaves(r, TRUE) /\ req' = [req EXCEPT ![r] = Idle]
           /\ UNCHANGED db
  BY <1>1, <1>5, FailStep
<1> QED
  BY <1>2, <1>3, <1>4, <1>5, Zenon DEF FillTable

LEMMA EndStep ==
  ASSUME IInv, NEW r \in Reqs, EndRestore(r)
  PROVE  IInv'
<1>1. PICK q \in Request : q = req[r]
  BY Types
<1>2. /\ q.pc = "end" /\ Outcome(r, "done") /\ Leaves(r, FALSE)
      /\ req' = [req EXCEPT ![r] = Idle] /\ UNCHANGED <<db, r2, rows, work, halted>>
  BY <1>1 DEF EndRestore
<1>3. /\ last' \in Outcomes /\ last'.out = "done" /\ last'.was = q.was
      /\ last'.secrets = q.secrets /\ last'.wipe = q.wipe
  BY <1>1, <1>2, EndedTyped DEF Outcome
<1>4. q.was # Torn => \A t \in Tables : Restored(q, t)
  BY <1>1, <1>2, Types DEF Knows
<1>5. RoundTrip' /\ FailsForCause'
  <2>1. ASSUME last'.was # Torn, NEW t \in Tables
        PROVE  IF Back(t)' THEN db'[t] = last'.was[t] \/ (~last'.wipe /\ last'.was[t] = 0)
               ELSE last'.wipe => db'[t] = 0
    BY <1>2, <1>3, <1>4, <2>1 DEF Back, Restored, Kept
  <2> QED
    BY <1>3, <2>1 DEF RoundTrip, FailsForCause, Back
<1>6. /\ (gone => gone') /\ gone' \in BOOLEAN
      /\ db["admins"] = 0 /\ Culprit(req[r]) => gone'
  BY <1>1, <1>2 DEF Leaves, Culprit
<1>7. halted' \subseteq Ids /\ \A b \in halted : b \in halted'
  BY <1>2, Types
<1>8. Left(r)
  BY <1>1, <1>2, <1>3, <1>6, <1>7 DEF Left
<1> QED
  BY <1>2, <1>5, <1>8, StopStep

LEMMA AbortStep ==
  ASSUME IInv, NEW r \in Reqs, Abort(r)
  PROVE  IInv'
<1>1. /\ halted' = IF req[r].pc = "unlist" THEN halted \cup {req[r].id} ELSE halted
      /\ Leaves(r, TRUE) /\ req' = [req EXCEPT ![r] = Idle]
      /\ Calm /\ UNCHANGED <<db, r2, rows, work>>
  BY DEF Abort
<1>2. /\ halted' \subseteq Ids /\ \A b \in halted : b \in halted'
      /\ req[r].pc = "unlist" => req[r].id \in halted'
  BY <1>1, Types DEF Knows
<1>3. /\ (gone => gone') /\ gone' \in BOOLEAN
      /\ db["admins"] = 0 /\ Culprit(req[r]) => gone'
  BY <1>1 DEF Leaves, Culprit
<1>4. Left(r)
  BY <1>1, <1>2, <1>3, CalmSays DEF Left
<1> QED
  BY <1>1, <1>4, CalmSays, StopStep


-----------------------------------------------------------------------------
(* The other handlers, and the theorems.                                   *)

LEMMA OthersStep ==
  ASSUME IInv, req' = [q \in Reqs |-> Disturbed(q)], db' \in Rows,
         db'["user_nodes"] # 0 => Refers("user_nodes", db)',
         db'["admins"] = 0 /\ ~gone' => db["admins"] = 0 /\ ~gone,
         work' \in 0 .. MaxWork, gone' \in BOOLEAN, Calm, UNCHANGED <<r2, rows, halted>>
  PROVE  IInv'
<1>1. \A x \in Reqs : req'[x] = Disturbed(x) /\ Spared(req[x])
  BY Types DEF Spared, Knows, Making
<1>2. \A x \in Reqs : req'[x] \in Request /\ Knows(req[x])' /\ SamePlace(req[x], req'[x])
  BY <1>1, DisturbedKnows
<1>3. req' \in [Reqs -> Request]
  BY <1>1, <1>2
<1>4. RestTyped'
  BY RestIsTyped, CalmSays DEF RestTyped
<1>5. Alone'
  BY <1>2 DEF IInv, Alone, SamePlace
<1>6. CulpritThere'
  BY <1>2 DEF IInv, CulpritThere, Culprit, SamePlace
<1>7. ListedExists'
  BY <1>2 DEF IInv, ListedExists, SamePlace
<1> QED
  BY <1>2, <1>3, <1>4, <1>5, <1>6, <1>7, CalmSays, Assemble

LEMMA WriteStep ==
  ASSUME IInv, NEW t \in Tables, NEW v \in Versions, Write(t, v)
  PROVE  IInv'
<1>1. /\ work < MaxWork /\ work' = work + 1 /\ Refers(t, db)
      /\ t = "admins" => v # 0
      /\ db' = IF v = 0 THEN Without(t) ELSE [db EXCEPT ![t] = v]
      /\ gone' = (gone /\ t # "admins")
      /\ req' = [q \in Reqs |-> Disturbed(q)] /\ Calm /\ UNCHANGED <<r2, rows, halted>>
  BY DEF Write
<1>2. /\ db \in Rows /\ work \in 0 .. MaxWork /\ gone \in BOOLEAN
      /\ db["user_nodes"] # 0 => Refers("user_nodes", db)
  BY Types
<1>3. /\ db' \in Rows /\ db'["admins"] = (IF t = "admins" THEN v ELSE db["admins"])
      /\ db'["user_nodes"] # 0 => Refers("user_nodes", db)'
  <2>1. CASE v = 0
    BY <1>1, <1>2, <2>1, WithoutSays, OrderIs
  <2>2. CASE v # 0
    <3>1. /\ db' \in Rows /\ db'[t] = v
          /\ \A s \in Tables \ {t} : db'[s] = db[s]
      BY <1>1, <1>2, <2>2 DEF Rows
    <3> QED
      BY <1>1, <1>2, <2>2, <3>1, OrderIs DEF Refers
  <2> QED
    BY <2>1, <2>2
<1>4. work' \in 0 .. MaxWork
  BY <1>1, <1>2, ConstantsAssumption
<1>5. gone' \in BOOLEAN /\ (db'["admins"] = 0 /\ ~gone' => db["admins"] = 0 /\ ~gone)
  <2>1. CASE t = "admins"
    <3>1. db'["admins"] # 0
      BY <1>1, <1>3, <2>1
    <3> QED
      BY <1>1, <3>1
  <2>2. CASE t # "admins"
    <3>1. gone' = gone
      BY <1>1, <1>2, <2>2
    <3> QED
      BY <1>2, <1>3, <2>2, <3>1
  <2> QED
    BY <2>1, <2>2
<1>6. Calm /\ UNCHANGED <<r2, rows, halted>> /\ req' = [q \in Reqs |-> Disturbed(q)]
  BY <1>1
<1> QED
  BY <1>3, <1>4, <1>5, <1>6, OthersStep

LEMMA DeleteBothStep ==
  ASSUME IInv, DeleteBoth
  PROVE  IInv'
<1>1. /\ work < MaxWork /\ work' = work + 1 /\ db' = Without("admins") /\ gone' = TRUE
      /\ req' = [q \in Reqs |-> Disturbed(q)] /\ Calm /\ UNCHANGED <<r2, rows, halted>>
  BY DEF DeleteBoth
<1>2. db' \in Rows /\ (db'["user_nodes"] # 0 => Refers("user_nodes", db)')
  BY <1>1, Types, WithoutSays, OrderIs
<1>3. work' \in 0 .. MaxWork
  BY <1>1, Types, ConstantsAssumption
<1>4. gone' /\ gone' \in BOOLEAN
  BY <1>1, Zenon
<1>5. Calm /\ UNCHANGED <<r2, rows, halted>> /\ req' = [q \in Reqs |-> Disturbed(q)]
  BY <1>1
<1> QED
  BY <1>2, <1>3, <1>4, <1>5, OthersStep

LEMMA SetupStep ==
  ASSUME IInv, Setup
  PROVE  IInv'
<1>1. /\ db' = [db EXCEPT !["admins"] = 1] /\ gone' = FALSE
      /\ req' = [q \in Reqs |-> Disturbed(q)] /\ Calm /\ UNCHANGED <<r2, rows, work, halted>>
  BY DEF Setup
<1>2. /\ db \in Rows /\ work \in 0 .. MaxWork
      /\ db["user_nodes"] # 0 => Refers("user_nodes", db)
  BY Types
<1>3. /\ db' \in Rows /\ db'["admins"] = 1
      /\ \A s \in Tables \ {"admins"} : db'[s] = db[s]
  BY <1>1, <1>2, RowTypes, OrderIs DEF Rows
<1>4. db'["user_nodes"] # 0 => Refers("user_nodes", db)'
  BY <1>2, <1>3, OrderIs DEF Refers
<1>5. db'["admins"] # 0 /\ work' \in 0 .. MaxWork
  BY <1>1, <1>2, <1>3
<1>6. gone' \in BOOLEAN
  BY <1>1, Zenon
<1>7. Calm /\ UNCHANGED <<r2, rows, halted>>
  BY <1>1
<1> QED
  BY <1>1, <1>3, <1>4, <1>5, <1>6, <1>7, OthersStep

LEMMA StutterStep ==
  ASSUME IInv, UNCHANGED vars
  PROVE  IInv'
<1>1. RestTyped' /\ req' \in [Reqs -> Request]
  BY RestIsTyped, Types DEF vars, RestTyped, Refers
<1>2. \A x \in Reqs : Knows(req[x])'
  BY Types DEF vars, Knows, Restored, Emptied
<1>3. Alone' /\ CulpritThere' /\ ListedExists'
  BY DEF IInv, vars, Alone, CulpritThere, Culprit, ListedExists
<1>4. RoundTrip' /\ FailsForCause'
  BY DEF IInv, vars, RoundTrip, Back, FailsForCause
<1> QED
  BY <1>1, <1>2, <1>3, <1>4, Assemble

LEMMA InitInv == Init => IInv
<1> SUFFICES ASSUME Init PROVE IInv
  OBVIOUS
<1>1. db \in Rows /\ \A t \in Tables : db[t] = 1
  BY RowTypes DEF Init, Rows
<1>2. Refers("user_nodes", db) /\ db["admins"] # 0
  BY <1>1, OrderIs DEF Refers
<1>3. /\ r2 \in [Ids -> Objects] /\ req \in [Reqs -> Request] /\ last \in Outcomes
      /\ gone \in BOOLEAN /\ rows = {} /\ halted = {} /\ last.out = "none"
      /\ \A b \in Ids : ~r2[b].stored /\ r2[b].data \in Rows
      /\ \A r \in Reqs : req[r] = Idle
  BY ConstantTypes DEF Init, Objects
<1>4. \A r \in Reqs : Knows(req[r])
  BY <1>3, ConstantTypes DEF Knows
<1>5. TypeOK
  BY <1>1, <1>2, <1>3, ConstantTypes, RowTypes, ConstantsAssumption DEF Init, TypeOK
<1>6. Alone /\ CulpritThere /\ ListedExists /\ RoundTrip /\ FailsForCause
  BY <1>2, <1>3, ConstantTypes
     DEF Alone, CulpritThere, ListedExists, RoundTrip, FailsForCause
<1> QED
  BY <1>3, <1>4, <1>5, <1>6 DEF IInv

LEMMA NextInv == IInv /\ [Next]_vars => IInv'
<1> SUFFICES ASSUME IInv, [Next]_vars PROVE IInv'
  OBVIOUS
<1>1. CASE Setup \/ DeleteBoth
  BY <1>1, SetupStep, DeleteBothStep
<1>2. ASSUME NEW t \in Tables, NEW v \in Versions, Write(t, v) PROVE IInv'
  BY <1>2, WriteStep
<1>3. ASSUME NEW r \in Reqs, NEW b \in Ids, NEW flag \in BOOLEAN,
             Create(r, b, flag) \/ Load(r, b, flag)
      PROVE  IInv'
  BY <1>3, CreateStep, LoadStep
<1>4. ASSUME NEW r \in Reqs, NEW b \in Ids, FindRow(r, b) PROVE IInv'
  BY <1>4, FindStep
<1>5. ASSUME NEW r \in Reqs, CopyTable(r) \/ PutObject(r) \/ InsertRow(r) PROVE IInv'
  BY <1>5, CopyStep, PutStep, InsertStep
<1>6. ASSUME NEW r \in Reqs, DeleteObject(r) \/ DeleteRow(r) PROVE IInv'
  BY <1>6, DeleteObjectStep, DeleteRowStep
<1>7. ASSUME NEW r \in Reqs, WipeTable(r) \/ FillTable(r) \/ EndRestore(r) PROVE IInv'
  BY <1>7, WipeStep, FillStep, EndStep
<1>8. ASSUME NEW r \in Reqs, Abort(r) PROVE IInv'
  BY <1>8, AbortStep
<1>9. CASE UNCHANGED vars
  BY <1>9, StutterStep
<1> QED
  BY <1>1, <1>2, <1>3, <1>4, <1>5, <1>6, <1>7, <1>8, <1>9 DEF Next

(* The inductive invariant holds. *)
THEOREM Invariance == Spec => []IInv
  BY InitInv, NextInv, PTL DEF Spec

(* Every state has its type, and user_nodes refers to rows that are there. *)
THEOREM TypeCorrect == Spec => []TypeOK
<1>1. IInv => TypeOK
  BY DEF IInv
<1> QED
  BY <1>1, Invariance, PTL

(* A backup that is listed has its object in R2, unless a deletion is      *)
(* between the two or has stopped there (backup.routes.ts:135-136).        *)
THEOREM ListedBackupsExist == Spec => []ListedExists
<1>1. IInv => ListedExists
  BY DEF IInv
<1> QED
  BY <1>1, Invariance, PTL

(* A restore that answers has put back what was there when the backup was  *)
(* begun, unless somebody wrote meanwhile (restoreBackup).                 *)
THEOREM RestoresRoundTrip == Spec => []RoundTrip
<1>1. IInv => RoundTrip
  BY DEF IInv
<1> QED
  BY <1>1, Invariance, PTL

(* The order of BACKUP_TABLES keeps foreign keys out of the way: a restore *)
(* that nobody disturbs fails only without secrets, or because it does not *)
(* wipe and meets rows that have changed since the backup (restoreBackup). *)
THEOREM RestoresFailForCause == Spec => []FailsForCause
<1>1. IInv => FailsForCause
  BY DEF IInv
<1> QED
  BY <1>1, Invariance, PTL

(* There is no administrator, so that anybody can set the panel up, only   *)
(* while a wiping restore runs, after one that brought none back or after  *)
(* two deletions at once (restoreBackup, settings.routes.ts:126-145).      *)
THEOREM AdminsReturn == Spec => []AdminsGoneForCause
<1>1. IInv => AdminsGoneForCause
  BY DEF IInv, CulpritThere, Culprit, AdminsGoneForCause
<1> QED
  BY <1>1, Invariance, PTL
=============================================================================
