------------------------------- MODULE Backup -------------------------------
(***************************************************************************)
(* Backup and restore.  A backup copies the tables of D1 one by one into a *)
(* payload, stores it as an object in R2 and then lists it in the table    *)
(* backups; a restore empties the tables (if told to) and fills them from  *)
(* a payload, one at a time, in the order of BACKUP_TABLES and without a   *)
(* transaction, while other handlers go on writing.                        *)
(*                                                                         *)
(* A table is one row here: 0 when there is none, else a version of it, so *)
(* that the chunks of 40 in which a restore fills it are one.  One action  *)
(* is what a handler does between two awaits.                              *)
(***************************************************************************)
EXTENDS Naturals, Sequences

CONSTANTS
    Ids,            \* of backups
    NoId,
    Reqs,           \* handlers in flight at the same time
    MaxVersion,     \* bound on the versions of a row
    MaxWork         \* bound on the requests made

ASSUME ConstantsAssumption ==
    /\ NoId \notin Ids
    /\ MaxVersion \in Nat \ {0}
    /\ MaxWork \in Nat

(* Mutant of Order: the nodes come after the rows that refer to them. *)
OrderNodesLate == <<"admins", "users", "user_nodes", "nodes", "config", "secrets">>

(* BACKUP_TABLES in their order.  "config" stands for the tables nothing   *)
(* refers to: routing rules, DNS, filters, chains, backends and the like,  *)
(* and "secrets" for what is secret in them: backends.secret_enc, which    *)
(* may be NULL, and the secret rows of system_settings.  subscriptions     *)
(* goes with users, on which it depends; the roles, which a wipe leaves    *)
(* alone, are left out.                                                    *)
Order == <<"admins", "users", "nodes", "user_nodes", "config", "secrets">>
Tables == {Order[i] : i \in 1 .. Len(Order)}

(* The tables whose secret columns are NOT NULL (REQUIRED_COLUMNS). *)
Required == {"admins", "users"}

(* What a backup without secrets has not: of the first two it keeps the    *)
(* other columns, which cannot be inserted again; of the last, nothing.    *)
Secret == Required \cup {"secrets"}

(* The tables with a UNIQUE column that ON CONFLICT does not name:         *)
(* admins.username, users.username, subscriptions.user_id and .token,      *)
(* telegram_admins.telegram_id.                                            *)
Unique == {"admins", "users", "config"}

Versions == 0 .. MaxVersion
Rows == [Tables -> Versions]
Empty == [t \in Tables |-> 0]

(* In the place of a database: somebody has written meanwhile. *)
Torn == [t \in Tables |-> MaxVersion + 1]

NoObject == [data |-> Empty, secrets |-> FALSE, was |-> Torn, stored |-> FALSE]

Idle == [pc |-> "idle", id |-> NoId, i |-> 0, data |-> Empty, secrets |-> FALSE,
         wipe |-> FALSE, was |-> Torn]   \* was: history, the database at the beginning

VARIABLES
    db,       \* db[t]: the row of table t
    r2,       \* r2[b]: the object of backup b
    rows,     \* the backups that are listed
    req,      \* req[r]: program counter and locals of handler r
    work,     \* requests made, for the bound
    halted,   \* history: backups of which a deletion stopped half-way
    gone,     \* history: the administrators were lost for good (see Leaves)
    last      \* how a restore that has just ended went

vars == <<db, r2, rows, req, work, halted, gone, last>>

None == [out |-> "none", was |-> Torn, secrets |-> FALSE, wipe |-> FALSE]
Calm == last' = None

(* The foreign keys of user_nodes. *)
Refers(t, d) == t = "user_nodes" => d["users"] # 0 /\ d["nodes"] # 0

(* A row goes, and by cascade the row that refers to it. *)
Without(t) ==
    [s \in Tables |-> IF s = t \/ (s = "user_nodes" /\ t \in {"users", "nodes"})
                      THEN 0 ELSE db[s]]

(* What handler q is copying or restoring is torn by a change of another. *)
Disturbed(q) ==
    IF db' = db \/ req[q].pc = "put" THEN req[q] ELSE [req[q] EXCEPT !.was = Torn]

(* Handler r becomes me. *)
Step(r, me) == req' = [q \in Reqs |-> IF q = r THEN me ELSE Disturbed(q)]

Init ==
    /\ db = [t \in Tables |-> 1]
    /\ r2 = [b \in Ids |-> NoObject]
    /\ rows = {}
    /\ req = [r \in Reqs |-> Idle]
    /\ work = 0
    /\ halted = {}
    /\ gone = FALSE
    /\ last = None

-----------------------------------------------------------------------------
(* The other handlers.                                                     *)

(* Somebody signed in creates or changes a row, or deletes it; a session   *)
(* that KV still has outlives its administrator.  The last administrator   *)
(* stays...                                                                *)
Write(t, v) ==
    /\ work < MaxWork
    /\ v # db[t] /\ Refers(t, db)
    /\ t = "admins" => v # 0
    /\ db' = IF v = 0 THEN Without(t) ELSE [db EXCEPT ![t] = v]
    /\ gone' = (gone /\ t # "admins")
    /\ work' = work + 1
    /\ req' = [q \in Reqs |-> Disturbed(q)]
    /\ Calm /\ UNCHANGED <<r2, rows, halted>>

(* ...unless two of them are deleted at once, each while the other is      *)
(* counted as the one that stays (Accounts has the steps).                 *)
DeleteBoth ==
    /\ work < MaxWork /\ work' = work + 1
    /\ db["admins"] # 0
    /\ db' = Without("admins")
    /\ gone' = TRUE
    /\ req' = [q \in Reqs |-> Disturbed(q)]
    /\ Calm /\ UNCHANGED <<r2, rows, halted>>

(* POST /setup, open to anybody while there is no administrator. *)
Setup ==
    /\ db["admins"] = 0
    /\ db' = [db EXCEPT !["admins"] = 1]
    /\ gone' = FALSE
    /\ req' = [q \in Reqs |-> Disturbed(q)]
    /\ Calm /\ UNCHANGED <<r2, rows, work, halted>>

-----------------------------------------------------------------------------
(* Making a backup: POST /backup, with secrets for a super_admin only, and *)
(* the daily job, without.                                                 *)

Create(r, b, secrets) ==
    /\ req[r].pc = "idle"
    /\ work < MaxWork /\ work' = work + 1
    /\ b \notin rows /\ ~r2[b].stored
    /\ \A q \in Reqs : req[q].id # b
    /\ req' = [req EXCEPT ![r] =
                 [pc |-> "copy", id |-> b, i |-> 1, data |-> Empty, secrets |-> secrets,
                  wipe |-> FALSE, was |-> db]]
    /\ Calm /\ UNCHANGED <<db, r2, rows, halted, gone>>

(* Mutant of CopyTable: the backup is listed before its object is stored. *)
CopyAndList(r) ==
    LET t == Order[req[r].i] IN
    /\ req[r].pc = "copy"
    /\ req' = [req EXCEPT ![r] =
                 [req[r] EXCEPT !.data[t] = db[t],
                                !.i = req[r].i + 1,
                                !.pc = IF req[r].i = Len(Order) THEN "put" ELSE "copy"]]
    /\ rows' = IF req[r].i = Len(Order) THEN rows \cup {req[r].id} ELSE rows
    /\ Calm /\ UNCHANGED <<db, r2, work, halted, gone>>

(* createBackupPayload reads the next table.  Rows that cannot be inserted *)
(* again are left out here.                                                *)
CopyTable(r) ==
    LET t == Order[req[r].i] IN
    /\ req[r].pc = "copy"
    /\ req' = [req EXCEPT ![r] =
                 [req[r] EXCEPT
                    !.data[t] = IF t \in Secret /\ ~req[r].secrets THEN 0 ELSE db[t],
                    !.i = req[r].i + 1,
                    !.pc = IF req[r].i = Len(Order) THEN "put" ELSE "copy"]]
    /\ Calm /\ UNCHANGED <<db, r2, rows, work, halted, gone>>

Object(r) == [data |-> req[r].data, secrets |-> req[r].secrets, was |-> req[r].was,
              stored |-> TRUE]

(* storeBackup puts the object... *)
PutObject(r) ==
    /\ req[r].pc = "put"
    /\ r2' = [r2 EXCEPT ![req[r].id] = Object(r)]
    /\ req' = [req EXCEPT ![r] = [Idle EXCEPT !.pc = "list", !.id = req[r].id]]
    /\ Calm /\ UNCHANGED <<db, rows, work, halted, gone>>

(* ...and lists it. *)
InsertRow(r) ==
    /\ req[r].pc = "list"
    /\ rows' = rows \cup {req[r].id}
    /\ req' = [req EXCEPT ![r] = Idle]
    /\ Calm /\ UNCHANGED <<db, r2, work, halted, gone>>

-----------------------------------------------------------------------------
(* DELETE /backup/:id finds the row, deletes the object and then the row.  *)

FindRow(r, b) ==
    /\ req[r].pc = "idle"
    /\ b \in rows
    /\ work < MaxWork /\ work' = work + 1
    /\ req' = [req EXCEPT ![r] = [Idle EXCEPT !.pc = "delete", !.id = b]]
    /\ Calm /\ UNCHANGED <<db, r2, rows, halted, gone>>

DeleteObject(r) ==
    /\ req[r].pc = "delete"
    /\ r2' = [r2 EXCEPT ![req[r].id] = NoObject]
    /\ req' = [req EXCEPT ![r].pc = "unlist"]
    /\ Calm /\ UNCHANGED <<db, rows, work, halted, gone>>

DeleteRow(r) ==
    /\ req[r].pc = "unlist"
    /\ rows' = rows \ {req[r].id}
    /\ halted' = halted \ {req[r].id}
    /\ req' = [req EXCEPT ![r] = Idle]
    /\ Calm /\ UNCHANGED <<db, r2, work, gone>>

-----------------------------------------------------------------------------
(* POST /backup/restore, for a super_admin.                                *)

(* loadBackup: the payload is whatever the object holds. *)
Load(r, b, wipe) ==
    /\ req[r].pc = "idle"
    /\ r2[b].stored
    /\ work < MaxWork /\ work' = work + 1
    /\ req' = [req EXCEPT ![r] =
                 [pc |-> IF wipe THEN "wipe" ELSE "fill", id |-> NoId,
                  i |-> IF wipe THEN Len(Order) ELSE 1, data |-> r2[b].data,
                  secrets |-> r2[b].secrets, wipe |-> wipe, was |-> r2[b].was]]
    /\ Calm /\ UNCHANGED <<db, r2, rows, halted, gone>>

(* The tables are emptied from the last to the first. *)
WipeTable(r) ==
    LET i == req[r].i IN
    /\ req[r].pc = "wipe"
    /\ db' = Without(Order[i])
    /\ Step(r, [req[r] EXCEPT !.pc = IF i = 1 THEN "fill" ELSE "wipe",
                              !.i = IF i = 1 THEN 1 ELSE i - 1])
    /\ Calm /\ UNCHANGED <<r2, rows, work, halted, gone>>

(* Mutant of Skipped: the tables with secrets always are. *)
SkippedSecrets(r, t) == req[r].data[t] = 0 \/ t \in Required

(* What the payload has nothing of, or nothing that could be inserted. *)
Skipped(r, t) == req[r].data[t] = 0 \/ (t \in Required /\ ~req[r].secrets)

Outcome(r, out) ==
    last' = [out |-> out, was |-> req[r].was, secrets |-> req[r].secrets,
             wipe |-> req[r].wipe]

(* A wiping restore ends with no administrator: it has failed, or its      *)
(* payload had none to insert.                                             *)
Leaves(r, failed) ==
    gone' = (gone \/ (/\ req[r].wipe /\ db["admins"] = 0
                      /\ failed \/ req[r].data["admins"] = 0))

(* Mutant of FillTable: rows that are there are kept as they are. *)
FillMissing(r) ==
    LET i == req[r].i
        t == Order[i]
        next == [req[r] EXCEPT !.i = i + 1, !.pc = IF i = Len(Order) THEN "end" ELSE "fill"] IN
    /\ req[r].pc = "fill"
    /\ Skipped(r, t) \/ Refers(t, db)
    /\ db' = IF Skipped(r, t) \/ db[t] # 0 THEN db ELSE [db EXCEPT ![t] = req[r].data[t]]
    /\ gone' = (gone /\ t # "admins")
    /\ Step(r, next)
    /\ Calm /\ UNCHANGED <<r2, rows, work, halted>>

(* A row that has come or changed since the backup may hold a name, a      *)
(* token or an account of a row of the payload under another id.           *)
Clashes(r, t) == t \in Unique /\ db[t] \notin {0, req[r].data[t]}

(* The next table is skipped, or its rows are upserted, or a foreign key   *)
(* or a UNIQUE fails and with it the restore, which stops where it is.     *)
FillTable(r) ==
    LET i == req[r].i
        t == Order[i]
        next == [req[r] EXCEPT !.i = i + 1, !.pc = IF i = Len(Order) THEN "end" ELSE "fill"] IN
    /\ req[r].pc = "fill"
    /\ \/ /\ Skipped(r, t)
          /\ req' = [req EXCEPT ![r] = next]
          /\ Calm /\ UNCHANGED <<db, gone>>
       \/ /\ ~Skipped(r, t) /\ Refers(t, db)
          /\ db' = [db EXCEPT ![t] = req[r].data[t]]
          /\ gone' = (gone /\ t # "admins")
          /\ Step(r, next)
          /\ Calm
       \/ /\ ~Skipped(r, t) /\ (~Refers(t, db) \/ Clashes(r, t))
          /\ Outcome(r, "failed")
          /\ Leaves(r, TRUE)
          /\ req' = [req EXCEPT ![r] = Idle]
          /\ UNCHANGED db
    /\ UNCHANGED <<r2, rows, work, halted>>

(* The settings' copy in KV is invalidated (Settings has it) and the       *)
(* restore answers with its report.                                        *)
EndRestore(r) ==
    /\ req[r].pc = "end"
    /\ Outcome(r, "done")
    /\ Leaves(r, FALSE)
    /\ req' = [req EXCEPT ![r] = Idle]
    /\ UNCHANGED <<db, r2, rows, work, halted>>

(* A handler stops at an await. *)
Abort(r) ==
    /\ req[r].pc # "idle"
    /\ halted' = IF req[r].pc = "unlist" THEN halted \cup {req[r].id} ELSE halted
    /\ Leaves(r, TRUE)
    /\ req' = [req EXCEPT ![r] = Idle]
    /\ Calm /\ UNCHANGED <<db, r2, rows, work>>

Next ==
    \/ Setup \/ DeleteBoth
    \/ \E t \in Tables, v \in Versions : Write(t, v)
    \/ \E r \in Reqs :
         \/ \E b \in Ids, flag \in BOOLEAN : Create(r, b, flag) \/ Load(r, b, flag)
         \/ \E b \in Ids : FindRow(r, b)
         \/ CopyTable(r) \/ PutObject(r) \/ InsertRow(r)
         \/ DeleteObject(r) \/ DeleteRow(r)
         \/ WipeTable(r) \/ FillTable(r) \/ EndRestore(r)
         \/ Abort(r)

Spec == Init /\ [][Next]_vars

-----------------------------------------------------------------------------
(* Properties.                                                             *)

(* Every state has its type, and user_nodes refers to rows that are there. *)
TypeOK ==
    /\ db \in Rows /\ (db["user_nodes"] # 0 => Refers("user_nodes", db))
    /\ \A b \in Ids : r2[b].data \in Rows
    /\ rows \subseteq Ids /\ halted \subseteq Ids
    /\ work \in 0 .. MaxWork
    /\ \A r \in Reqs :
         /\ req[r].pc \in {"idle", "copy", "put", "list", "delete", "unlist", "wipe", "fill", "end"}
         /\ req[r].data \in Rows

(* A backup that is listed can be downloaded and restored: its object is   *)
(* in R2, unless a deletion is between the object and the row              *)
(* (backup.routes.ts:135-136) or has stopped there.                        *)
ListedExists ==
    \A b \in rows :
        \/ r2[b].stored \/ b \in halted
        \/ \E r \in Reqs : req[r].pc = "unlist" /\ req[r].id = b

(* What a restore puts back: what the backup can hold of the database as   *)
(* it was when the backup began.                                           *)
Back(t) == last.secrets \/ t \notin Secret

(* A restore that answers has put the database back as it was when the     *)
(* backup was begun, unless somebody wrote while the backup copied the     *)
(* tables or while the restore ran; when it does not wipe, rows made since *)
(* then remain, and when it does, what a backup without secrets has not is *)
(* lost: the administrators and the users, as the answer says, and the     *)
(* secrets of the backends and the settings, of which it says nothing      *)
(* (backup.service.ts:27-32, 68-71, 230-255).                              *)
RoundTrip ==
    last.out = "done" /\ last.was # Torn =>
        \A t \in Tables :
            IF Back(t) THEN db[t] = last.was[t] \/ (~last.wipe /\ last.was[t] = 0)
            ELSE last.wipe => db[t] = 0

(* A restore fails half-way only when somebody wrote during it or during   *)
(* the backup; or when it did not wipe and meets rows that have come or    *)
(* changed since the backup; or when the backup has no secrets, so that    *)
(* the users are skipped, and there are none for the rows of user_nodes to *)
(* refer to: then none of the tables after it is restored.                 *)
FailsForCause ==
    last.out = "failed" =>
        \/ last.was = Torn
        \/ ~last.wipe /\ \E t \in Unique : db[t] \notin {0, last.was[t]}
        \/ ~last.secrets /\ db["users"] = 0

(* While there is no administrator anybody can set the panel up: that is   *)
(* only so while a wiping restore runs, after one that failed, stopped or  *)
(* had a payload without administrators (backup.service.ts:216-247), or    *)
(* after two deletions at once (settings.routes.ts:126-145).               *)
AdminsGoneForCause ==
    db["admins"] = 0 => gone \/ \E r \in Reqs : req[r].wipe
=============================================================================
