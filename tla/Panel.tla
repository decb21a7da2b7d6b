------------------------------- MODULE Panel -------------------------------
(***************************************************************************)
(* The forms of the web interface: the dialogs that edit a user or a node, *)
(* the settings page and the page of the Telegram bot.  Each reads a       *)
(* record with a query, fills its form from the answer and sends the form  *)
(* back, while other administrators and the commands of the bot write the  *)
(* same records.  The query cache (TanStack Query) is external: an answer  *)
(* is kept, is fresh for 15 s, and one equal to it changes nothing.        *)
(*                                                                         *)
(* On the users page the quota counts in quarters of a gigabyte and what   *)
(* is left of the validity in quarters of a day; the form shows and reads  *)
(* whole ones.  On that of the nodes a fingerprint that is null is shown   *)
(* as the first of the list.  Elsewhere a field is shown as it is stored.  *)
(***************************************************************************)
EXTENDS Naturals

CONSTANTS
    Pages,          \* among "user", "node", "settings" and "telegram"
    Nobody,
    Touched,        \* fields other administrators write
    MaxLeft,        \* bound on the validity that is left
    MaxWork         \* bound on the saves, the edits and the writes of others

Dialogs == {"user", "node"}
Never == 99     \* in the database: unlimited, without expiry
Blank == 99     \* in the form: an empty input
Null == 0       \* of a node: no tls.fingerprint
Chrome == 1     \* and its default
Fixed == 0      \* of a node: what the form does not show is as the form sends it

(* Assumed where they get their values. *)
ConstantsAssumption ==
    /\ Pages \subseteq {"user", "node", "settings", "telegram"}
    /\ Nobody \notin {1, 2}
    /\ MaxLeft \in 0 .. Never - 1
    /\ MaxWork \in Nat

VARIABLES
    page,     \* the page that is open
    row,      \* row[x]: the record x in D1
    cache,    \* cache[x]: the answer the browser keeps, and what was written since it was read
    fetch,    \* fetch[x]: the query under way for x
    form,     \* the form: whose it is, its values and, as history, what was typed
    sent,     \* the save under way
    work      \* saves, edits and writes of others so far

vars == <<page, row, cache, fetch, form, sent, work>>

Records == IF page \in Dialogs THEN {1, 2} ELSE {1}

Fields ==
    CASE page = "user" -> {"name", "quota", "left"}
      [] page = "node" -> {"name", "print"}
      [] page = "settings" -> {"general", "nodes"}
      [] OTHER -> {"enabled", "events"}

(* What a detail query returns beside the fields of the form: the traffic  *)
(* of a user, the health of a node; and what of TLS and transport the form *)
(* of a node does not show (alpn, minVersion, allowInsecure, the mode), or *)
(* updateNode computes (the flag of the country).                          *)
Hidden == IF page = "node" THEN {"hidden"} ELSE {}
Keys == IF page \in Dialogs THEN Fields \cup Hidden \cup {"rest"} ELSE Fields

(* The fields one Save button sends: a section of the settings, the whole  *)
(* form elsewhere.                                                         *)
Sections == IF page = "settings" THEN {{f} : f \in Fields} ELSE {Fields}

(* What the handler writes at once: a key of the settings on the Telegram  *)
(* page, what it was sent elsewhere.                                       *)
NextPart(todo) ==
    IF page = "telegram" /\ "enabled" \in todo THEN {"enabled"} ELSE todo

(* Math.round of gigabytes, nothing for 0; Math.ceil of days, 0 for never. *)
Show(f, v) ==
    IF f = "print" THEN (IF v = Null THEN Chrome ELSE v)
    ELSE IF f \notin {"quota", "left"} THEN v
    ELSE IF f = "quota" THEN (IF v \in {Never, 0} THEN Blank ELSE (v + 2) \div 4)
    ELSE IF v = Never THEN 0 ELSE (v + 3) \div 4

(* parseSize, and expiresInDays in updateUser: nothing leaves the expiry   *)
(* as it is and 0 removes it.                                              *)
Parse(f, s, v) ==
    IF f \notin {"quota", "left"} THEN s
    ELSE IF f = "quota" THEN (IF s = Blank THEN Never ELSE 4 * s)
    ELSE IF s = Blank THEN v ELSE IF s = 0 THEN Never ELSE 4 * s

(* EMPTY of the dialogs (0: an input the schemas refuse), the fallback     *)
(* values of the other pages.                                              *)
Default(f) ==
    IF page = "user" /\ f # "name" THEN (IF f = "quota" THEN Blank ELSE 1)
    ELSE IF f = "print" THEN Chrome
    ELSE IF page \in Dialogs THEN 0 ELSE 1

Inputs(f) == CASE f = "quota" -> {Blank} [] f = "left" -> {0, Blank} [] OTHER -> {3}

(* What parses and passes the schema of the page. *)
Accepted(values) == page \in Dialogs => values["name"] # 0

Nothing == [has |-> FALSE]
Holding(data, old, fresh) == [has |-> TRUE, data |-> data, old |-> old, fresh |-> fresh]
NoFetch == [pc |-> "none"]
NoSave == [pc |-> "none"]

(* Something was written since the kept copy of x was read. *)
Behind(x) == ~cache[x].has \/ cache[x].old # {}

Init ==
    /\ page \in Pages
    /\ \E stored \in {<<0, 4>>, <<1, 2>>, <<4, Never>>} :
         row = [x \in Records |-> [f \in Keys |->
                   CASE f = "quota" -> IF x = 1 THEN stored[1] ELSE 4
                     [] f \in {"print", "hidden"} -> IF x = 1 /\ stored[1] = 0 THEN 0 ELSE 4
                     [] f = "left" -> IF x = 1 THEN stored[2] ELSE 4
                     [] f = "rest" -> 0
                     [] OTHER -> x + 1]]
    /\ cache = [x \in Records |-> Nothing]
    /\ fetch = [x \in Records |-> IF page \in Dialogs THEN NoFetch ELSE [pc |-> "asked"]]
    /\ form = [at |-> IF page \in Dialogs THEN Nobody ELSE 1,
               values |-> [f \in Fields |-> Default(f)], typed |-> {}]
    /\ sent = NoSave
    /\ work = 0

-----------------------------------------------------------------------------
(* Reading.                                                                *)

Filled(x, data) == [at |-> x, values |-> [f \in Fields |-> Show(f, data[f])], typed |-> {}]

Ask(x) == fetch' = [fetch EXCEPT ![x] = IF fetch[x].pc = "none" THEN [pc |-> "asked"] ELSE fetch[x]]

(* Mutant of Open: the dialog does not fill itself again on opening. *)
OpenAsItWas(x) ==
    /\ page \in Dialogs /\ form.at = Nobody
    /\ form' = [form EXCEPT !.at = x, !.typed = {}]
    /\ IF cache[x].has /\ cache[x].fresh THEN UNCHANGED fetch ELSE Ask(x)
    /\ UNCHANGED <<page, row, cache, sent, work>>

(* The dialog opens for record x: filled from the copy there is, with what *)
(* it held before when there is none.  A copy that is not fresh is fetched *)
(* again.                                                                  *)
Open(x) ==
    /\ page \in Dialogs /\ form.at = Nobody
    /\ form' = IF cache[x].has THEN Filled(x, cache[x].data)
               ELSE [form EXCEPT !.at = x, !.typed = {}]
    /\ IF cache[x].has /\ cache[x].fresh THEN UNCHANGED fetch ELSE Ask(x)
    /\ UNCHANGED <<page, row, cache, sent, work>>

(* The dialog with the links of user x: the same query, no form. *)
View(x) ==
    /\ page = "user" /\ form.at = Nobody
    /\ ~(cache[x].has /\ cache[x].fresh)
    /\ Ask(x)
    /\ UNCHANGED <<page, row, cache, form, sent, work>>

(* Cancel, or Escape.  A save under way goes on. *)
Close ==
    /\ page \in Dialogs /\ form.at # Nobody
    /\ form' = [form EXCEPT !.at = Nobody, !.typed = {}]
    /\ UNCHANGED <<page, row, cache, fetch, sent, work>>

(* The server reads the record. *)
Answer(x) ==
    /\ fetch[x].pc = "asked"
    /\ fetch' = [fetch EXCEPT ![x] = [pc |-> "answered", data |-> row[x], old |-> {}]]
    /\ UNCHANGED <<page, row, cache, form, sent, work>>

(* A save waits for the page to be read again. *)
Reread == IF sent.pc = "reread" THEN NoSave ELSE sent

(* Mutant of Arrive: every answer fills the form. *)
ArriveRefilling(x) ==
    /\ fetch[x].pc = "answered"
    /\ cache' = [cache EXCEPT ![x] = Holding(fetch[x].data, fetch[x].old, TRUE)]
    /\ form' = IF form.at = x THEN Filled(x, fetch[x].data) ELSE form
    /\ fetch' = [fetch EXCEPT ![x] = NoFetch]
    /\ sent' = Reread
    /\ UNCHANGED <<page, row, work>>

(* The answer arrives; one that differs from the kept copy fills the form. *)
Arrive(x) ==
    /\ fetch[x].pc = "answered"
    /\ cache' = [cache EXCEPT ![x] = Holding(fetch[x].data, fetch[x].old, TRUE)]
    /\ form' = IF form.at = x /\ (~cache[x].has \/ cache[x].data # fetch[x].data)
               THEN Filled(x, fetch[x].data) ELSE form
    /\ fetch' = [fetch EXCEPT ![x] = NoFetch]
    /\ sent' = Reread
    /\ UNCHANGED <<page, row, work>>

(* The query and its one retry fail. *)
FailFetch(x) ==
    /\ fetch[x].pc # "none"
    /\ fetch' = [fetch EXCEPT ![x] = NoFetch]
    /\ sent' = Reread
    /\ UNCHANGED <<page, row, cache, form, work>>

(* staleTime passes.  Only a dialog that opens asks whether it has. *)
Age(x) ==
    /\ page \in Dialogs /\ form.at = Nobody
    /\ cache[x].has /\ cache[x].fresh
    /\ cache' = [cache EXCEPT ![x].fresh = FALSE]
    /\ UNCHANGED <<page, row, fetch, form, sent, work>>

-----------------------------------------------------------------------------
(* Writing.                                                                *)

Type(f, s) ==
    /\ form.at # Nobody /\ work < MaxWork
    /\ page \notin Dialogs => cache[1].has \/ fetch[1].pc = "none"
    /\ form' = [form EXCEPT !.values = [form.values EXCEPT ![f] = s], !.typed = form.typed \cup {f}]
    /\ work' = work + 1
    /\ UNCHANGED <<page, row, cache, fetch, sent>>

(* Save.  A dialog does not wait for the record it is to edit; the other   *)
(* pages show LoadingState until the first answer or its failure.          *)
Press(section) ==
    /\ form.at # Nobody /\ sent.pc = "none" /\ work < MaxWork
    /\ page \notin Dialogs => cache[1].has \/ fetch[1].pc = "none"
    /\ sent' = [pc |-> "sent", at |-> form.at, todo |-> section,
                values |-> form.values, typed |-> form.typed,
                blind |-> ~cache[form.at].has,
                old |-> IF cache[form.at].has THEN cache[form.at].old ELSE {}]
    /\ work' = work + 1
    /\ UNCHANGED <<page, row, cache, fetch, form>>

(* History: what the copies of record x miss when it becomes new, by who. *)
Changed(x, new, who) == {<<f, who>> : f \in {g \in Keys : new[g] # row[x][g]}}

Put(x, new, who) ==
    /\ row' = [row EXCEPT ![x] = new]
    /\ cache' = [cache EXCEPT ![x] = IF cache[x].has
            THEN [cache[x] EXCEPT !.old = cache[x].old \cup Changed(x, new, who)] ELSE cache[x]]
    /\ fetch' = [fetch EXCEPT ![x] = IF fetch[x].pc = "answered"
            THEN [fetch[x] EXCEPT !.old = fetch[x].old \cup Changed(x, new, who)] ELSE fetch[x]]

(* users.username is unique, and the handler looks before it writes. *)
NameFree(x, new) == page = "user" => \A y \in Records \ {x} : row[y]["name"] # new["name"]

(* The handler writes what it was sent, or the next part of it; the form   *)
(* of a node sends TLS and transport whole.                                *)
Apply ==
    /\ sent.pc = "sent" /\ Accepted(sent.values)
    /\ LET x == sent.at
           part == NextPart(sent.todo)
           new == [f \in Keys |-> IF f \in part THEN Parse(f, sent.values[f], row[x][f])
                                  ELSE IF f \in Hidden THEN Fixed ELSE row[x][f]]
       IN /\ NameFree(x, new)
          /\ Put(x, new, "own")
          /\ sent' = [sent EXCEPT !.todo = sent.todo \ part,
                                  !.pc = IF sent.todo = part THEN "applied" ELSE "sent"]
    /\ UNCHANGED <<page, form, work>>

(* Success.  A dialog closes, whichever it is by now, and leaves the       *)
(* copies of the records alone; a page reads its record again.             *)
Reply ==
    /\ sent.pc = "applied"
    /\ IF page \in Dialogs
       THEN /\ form' = [form EXCEPT !.at = Nobody, !.typed = {}]
            /\ sent' = NoSave
            /\ UNCHANGED fetch
       ELSE /\ sent' = [pc |-> "reread"]
            /\ fetch' = [fetch EXCEPT ![1] = [pc |-> "asked"]]
            /\ UNCHANGED form
    /\ UNCHANGED <<page, row, cache, work>>

(* The save is refused, the server fails half-way or its answer is lost:   *)
(* the form stays as it is.                                                *)
Failed ==
    /\ sent.pc \in {"sent", "applied"}
    /\ sent' = NoSave
    /\ UNCHANGED <<page, row, cache, fetch, form, work>>

-----------------------------------------------------------------------------
(* The others.                                                             *)

Others(x, new) ==
    /\ work < MaxWork /\ new # row[x] /\ NameFree(x, new)
    /\ Put(x, new, "other")
    /\ sent' = IF sent.pc = "sent" /\ sent.at = x
               THEN [sent EXCEPT !.old = sent.old \cup Changed(x, new, "other")] ELSE sent
    /\ work' = work + 1
    /\ UNCHANGED <<page, form>>

(* Another administrator saves; traffic is counted, a node is probed. *)
OtherAdmin(x, f) ==
    Others(x, [row[x] EXCEPT ![f] = IF f \in {"quota", "left"} THEN 8 ELSE 4])

(* /extend: from the expiry, or from now when there is none or it has      *)
(* passed, in whole days.                                                  *)
BotExtend(x, days) ==
    /\ page = "user"
    /\ LET left == (IF row[x]["left"] = Never THEN 0 ELSE row[x]["left"]) + 4 * days
       IN left <= MaxLeft /\ Others(x, [row[x] EXCEPT !["left"] = left])

(* /quota: what parseSize does not understand means unlimited. *)
BotQuota(x, understood) ==
    /\ page = "user"
    /\ Others(x, [row[x] EXCEPT !["quota"] = IF understood THEN 1 ELSE Never])

Next ==
    \/ Close \/ Apply \/ Reply \/ Failed
    \/ \E section \in Sections : Press(section)
    \/ \E f \in Fields : \E s \in Inputs(f) : Type(f, s)
    \/ \E x \in Records :
         \/ Open(x) \/ View(x) \/ Answer(x) \/ Arrive(x) \/ FailFetch(x) \/ Age(x)
         \/ \E f \in Keys \cap Touched : OtherAdmin(x, f)
         \/ BotExtend(x, 1)
         \/ \E understood \in BOOLEAN : BotQuota(x, understood)

Spec == Init /\ [][Next]_vars

-----------------------------------------------------------------------------
(* Properties.                                                             *)

(* The form can say exactly what is stored. *)
Whole(f, v) ==
    /\ f \in {"quota", "left"} => v = Never \/ (v > 0 /\ v % 4 = 0)
    /\ f = "print" => v # Null
    /\ f \in Hidden => v = Fixed

(* A save leaves alone a field the administrator has not edited, and what  *)
(* the form does not show.  It may undo only what was written since the    *)
(* copy in the form was read: by others, or by an earlier save of a        *)
(* dialog, which does not read its record again.  And it may change a      *)
(* field when the record had never arrived, or when the form cannot say    *)
(* what is stored: a quota or validity that is not whole, a node without a *)
(* fingerprint, which is given one, and one whose alpn, TLS version,       *)
(* allowInsecure, transport mode or flag are not what every save of the    *)
(* form makes them.  (save and the filling effect of UserFormModal,        *)
(* NodeFormModal, SettingsPage and TelegramPage; updateNode.)              *)
UneditedStands ==
    [][sent.pc = "sent" /\ sent'.pc # "none" /\ sent'.todo # sent.todo =>
        \A x \in Records, f \in Keys :
            \/ row'[x][f] = row[x][f]
            \/ /\ x = sent.at
               /\ \/ f \in sent.typed
                  \/ sent.blind
                  \/ <<f, "other">> \in sent.old
                  \/ page \in Dialogs /\ <<f, "own">> \in sent.old
                  \/ ~Whole(f, row[x][f])]_vars

(* What the administrator has typed stays in the form until it closes,     *)
(* unless the record arrives for the first time or has been written since  *)
(* the copy in the form was read.  (The filling effects, and the refetch   *)
(* after a save of the settings page.)                                     *)
TypedKept ==
    [][\A f \in form.typed :
         form'.at = form.at /\ f \notin form'.typed => Behind(form.at)]_vars

=============================================================================
