------------------------------- MODULE SignIn -------------------------------
(***************************************************************************)
(* What one tab of the web interface shows around its pages: the wizard of *)
(* the first setup, the login page, or the pages of whoever is signed in.  *)
(* It decides by two queries, setup-status and me, and keeps the answers   *)
(* the pages were given; the cookie that says who asks is shared with the  *)
(* other tabs.                                                             *)
(*                                                                         *)
(* The query cache (TanStack Query) is external: a query without an answer *)
(* is loading while it is fetched; with one it shows the old answer, and   *)
(* an error leaves that answer in place.  Failed logins, which change only *)
(* what the login page says, are left out.                                 *)
(***************************************************************************)
EXTENDS Naturals

CONSTANTS
    Admins,
    Nobody,
    MaxWork      \* bound on what people do: presses, other tabs, reconnections

VARIABLES
    done,        \* the server has been set up
    cookie,      \* whose valid session the browser's cookie is
    setup,       \* the query setup-status
    me,          \* the query me
    wizard,      \* the step of the wizard, and whether it shows the recovery code
    call,        \* the POST under way
    kept,        \* the query of a page: in whose name it was answered
    crossed,     \* history: the session has changed behind the tab's back
    presses

vars == <<done, cookie, setup, me, wizard, call, kept, crossed, presses>>

Last == 7        \* STEPS.length - 1

NoAnswer == "none"
FirstStep == [step |-> 0, code |-> FALSE]
NoCall == [what |-> "none"]
Asking(why) == [pc |-> "asked", why |-> why]
Quiet == [pc |-> "idle", why |-> "none"]

(* The state of a tab that has just been loaded. *)
Loaded ==
    /\ setup' = [data |-> NoAnswer, fetch |-> Asking("load")]
    /\ me' = [data |-> Nobody, denied |-> FALSE, fetch |-> Asking("load")]
    /\ wizard' = FirstStep
    /\ kept' = [who |-> Nobody, fresh |-> FALSE, fetch |-> Quiet]
    /\ crossed' = FALSE

Init ==
    /\ done \in BOOLEAN
    /\ cookie \in IF done THEN Admins \cup {Nobody} ELSE {Nobody}
    /\ setup = [data |-> NoAnswer, fetch |-> Asking("load")]
    /\ me = [data |-> Nobody, denied |-> FALSE, fetch |-> Asking("load")]
    /\ wizard = FirstStep
    /\ call = NoCall
    /\ kept = [who |-> Nobody, fresh |-> FALSE, fetch |-> Quiet]
    /\ crossed = FALSE
    /\ presses = 0

-----------------------------------------------------------------------------
(* What Shell renders.                                                     *)

ScreenOf(s, m) ==
    IF \/ (s.data = NoAnswer /\ s.fetch.pc # "idle")
       \/ (m.data = Nobody /\ m.fetch.pc # "idle")
    THEN "loading"
    ELSE IF s.data = "no" THEN "wizard"
    ELSE IF m.data = Nobody \/ m.denied THEN "login"
    ELSE "pages"

Screen == ScreenOf(setup, me)

(* A wizard that leaves the screen forgets what it held. *)
Show(s, m, w) ==
    /\ setup' = s /\ me' = m
    /\ wizard' = IF ScreenOf(s, m) = "wizard" THEN w ELSE FirstStep

Press == presses < MaxWork /\ presses' = presses + 1

(* refresh: invalidates me; a fetch under way without an answer is joined. *)
Refreshed == [me EXCEPT !.fetch =
    IF me.fetch.pc # "idle" /\ me.data = Nobody THEN me.fetch ELSE Asking("refresh")]

-----------------------------------------------------------------------------
(* The queries.                                                            *)

(* GET /setup/status and GET /me at the server. *)
AnswerSetup ==
    /\ setup.fetch.pc = "asked"
    /\ setup' = [setup EXCEPT !.fetch =
            [pc |-> "answered", why |-> setup.fetch.why, done |-> done]]
    /\ UNCHANGED <<done, cookie, me, wizard, call, kept, crossed, presses>>

AnswerMe ==
    /\ me.fetch.pc = "asked"
    /\ me' = [me EXCEPT !.fetch = [pc |-> "answered", why |-> me.fetch.why, who |-> cookie]]
    /\ UNCHANGED <<done, cookie, setup, wizard, call, kept, crossed, presses>>

ArriveSetup ==
    /\ setup.fetch.pc = "answered"
    /\ Show([data |-> IF setup.fetch.done THEN "yes" ELSE "no", fetch |-> Quiet], me, wizard)
    /\ UNCHANGED <<done, cookie, call, kept, crossed, presses>>

(* 401 leaves the old answer there, but signs the tab out. *)
ArriveMe ==
    /\ me.fetch.pc = "answered"
    /\ Show(setup, [data |-> IF me.fetch.who = Nobody THEN me.data ELSE me.fetch.who,
                    denied |-> me.fetch.who = Nobody, fetch |-> Quiet], wizard)
    /\ UNCHANGED <<done, cookie, call, kept, crossed, presses>>

(* The answer never arrives; setup-status has been asked for twice by then. *)
FailSetup ==
    /\ setup.fetch.pc # "idle"
    /\ Show([setup EXCEPT !.fetch = Quiet], me, wizard)
    /\ UNCHANGED <<done, cookie, call, kept, crossed, presses>>

FailMe ==
    /\ me.fetch.pc # "idle"
    /\ Show(setup, [me EXCEPT !.denied = FALSE, !.fetch = Quiet], wizard)
    /\ UNCHANGED <<done, cookie, call, kept, crossed, presses>>

(* The browser is online again: what is no longer fresh is fetched again,  *)
(* and setup-status never is.                                              *)
Reconnect(meToo) ==
    /\ Press
    /\ Show([setup EXCEPT !.fetch =
                IF setup.fetch.pc = "idle" THEN Asking("online") ELSE setup.fetch],
            [me EXCEPT !.fetch =
                IF me.fetch.pc = "idle" /\ meToo THEN Asking("online") ELSE me.fetch], wizard)
    /\ kept' = IF Screen = "pages" /\ ~kept.fresh /\ kept.fetch.pc = "idle"
               THEN [kept EXCEPT !.fetch = Asking("online")] ELSE kept
    /\ UNCHANGED <<done, cookie, call, crossed>>

-----------------------------------------------------------------------------
(* A page: what it shows was asked for in somebody's name.                 *)

Visit ==
    /\ Screen = "pages" /\ ~kept.fresh /\ kept.fetch.pc = "idle"
    /\ kept' = [kept EXCEPT !.fetch = Asking("load")]
    /\ UNCHANGED <<done, cookie, setup, me, wizard, call, crossed, presses>>

AnswerPage ==
    /\ kept.fetch.pc = "asked"
    /\ kept' = [kept EXCEPT !.fetch = [pc |-> "answered", why |-> "load", who |-> cookie]]
    /\ UNCHANGED <<done, cookie, setup, me, wizard, call, crossed, presses>>

ArrivePage ==
    /\ kept.fetch.pc = "answered"
    /\ kept' = IF kept.fetch.who = Nobody THEN [kept EXCEPT !.fetch = Quiet]
               ELSE [who |-> kept.fetch.who, fresh |-> TRUE, fetch |-> Quiet]
    /\ UNCHANGED <<done, cookie, setup, me, wizard, call, crossed, presses>>

(* staleTime passes; an answer no page shows is dropped in the end. *)
AgePage ==
    /\ kept.who # Nobody
    /\ kept' = IF kept.fresh THEN [kept EXCEPT !.fresh = FALSE]
               ELSE [who |-> Nobody, fresh |-> FALSE, fetch |-> Quiet]
    /\ kept.fresh \/ (Screen # "pages" /\ kept.fetch = Quiet)
    /\ UNCHANGED <<done, cookie, setup, me, wizard, call, crossed, presses>>

-----------------------------------------------------------------------------
(* Setting up, signing in and out.                                         *)

(* The buttons of the wizard. *)
Turn(step) ==
    /\ Screen = "wizard" /\ call = NoCall
    /\ wizard.step < Last /\ step < Last
    /\ step \in {wizard.step - 1, wizard.step + 1}
    /\ wizard' = [wizard EXCEPT !.step = step]
    /\ UNCHANGED <<done, cookie, setup, me, call, kept, crossed, presses>>

Send(what, a) ==
    /\ call = NoCall /\ Press
    /\ call' = [what |-> what, admin |-> a, pc |-> "sent"]
    /\ UNCHANGED <<done, cookie, setup, me, wizard, kept, crossed>>

SendSetup(a) == Screen = "wizard" /\ wizard.step = Last - 1 /\ Send("setup", a)
SendLogin(a) == Screen = "login" /\ Send("login", a)
SendLogout == Screen = "pages" /\ Send("logout", me.data)

(* The server: a setup is refused when there has been one, a logout ends   *)
(* whatever session the cookie now is.                                     *)
Serve ==
    /\ call.what # "none" /\ call.pc = "sent"
    /\ call' = [call EXCEPT !.pc = IF call.what = "setup" /\ done THEN "refused" ELSE "served"]
    /\ done' = (done \/ call.what = "setup")
    /\ call.what = "login" => done
    /\ cookie' = IF call.what = "logout" THEN Nobody ELSE cookie
    /\ UNCHANGED <<setup, me, wizard, kept, crossed, presses>>

(* Mutant of ReplySetup: setup-status is read again, as after every other  *)
(* mutation.                                                               *)
ReplyRereading ==
    /\ call.what = "setup" /\ call.pc = "served"
    /\ cookie' = call.admin
    /\ wizard' = IF Screen = "wizard" THEN [step |-> Last, code |-> TRUE] ELSE wizard
    /\ setup' = [setup EXCEPT !.fetch = Asking("call")]
    /\ call' = NoCall
    /\ UNCHANGED <<done, me, kept, crossed, presses>>

(* Setup has been carried out: the cookie comes with the answer, and the   *)
(* wizard shows the recovery code on its last step.                        *)
ReplySetup ==
    /\ call.what = "setup" /\ call.pc = "served"
    /\ cookie' = call.admin
    /\ wizard' = IF Screen = "wizard" THEN [step |-> Last, code |-> TRUE] ELSE wizard
    /\ call' = NoCall
    /\ UNCHANGED <<done, setup, me, kept, crossed, presses>>

(* Refused, or any failure before the server has done anything. *)
Refused ==
    /\ call.what = "setup" /\ call.pc \in {"sent", "refused", "served"}
    /\ wizard' = IF Screen = "wizard" THEN [wizard EXCEPT !.step = 1] ELSE wizard
    /\ call' = NoCall
    /\ UNCHANGED <<done, cookie, setup, me, kept, crossed, presses>>

ReplyLogin ==
    /\ call.what = "login" /\ call.pc = "served"
    /\ cookie' = call.admin
    /\ crossed' = (crossed \/ cookie \notin {Nobody, call.admin})
    /\ Show(setup, Refreshed, wizard)
    /\ call' = NoCall
    /\ UNCHANGED <<done, kept, presses>>

(* Mutant of ReplyLogout: signs out without loading the page anew. *)
ReplyRefreshing ==
    /\ call.what = "logout" /\ call.pc = "served"
    /\ cookie' = Nobody
    /\ call' = NoCall
    /\ Show(setup, Refreshed, wizard)
    /\ UNCHANGED <<done, kept, crossed, presses>>

(* logout empties the cache and loads the page anew. *)
ReplyLogout ==
    /\ call.what = "logout" /\ call.pc = "served"
    /\ cookie' = Nobody
    /\ call' = NoCall
    /\ Loaded
    /\ UNCHANGED <<done, presses>>

(* A login or logout fails, perhaps after the server has carried it out. *)
LoseReply ==
    /\ call.what \in {"login", "logout"}
    /\ call' = NoCall
    /\ crossed' = (crossed \/ (call.what = "logout" /\ call.pc = "served"))
    /\ UNCHANGED <<done, cookie, setup, me, wizard, kept, presses>>

(* The last button of the wizard, and saves on the settings page. *)
Enter ==
    /\ Screen = "wizard" /\ wizard.step = Last
    /\ Press
    /\ Show(setup, Refreshed, wizard)
    /\ UNCHANGED <<done, cookie, call, kept, crossed>>

Refresh ==
    /\ Screen = "pages" /\ cookie # Nobody
    /\ Press
    /\ Show(setup, Refreshed, wizard)
    /\ UNCHANGED <<done, cookie, call, kept, crossed>>

(* The browser loads the page anew; a call under way is given up. *)
Reload ==
    /\ Press
    /\ Loaded
    /\ call' = NoCall
    /\ \/ UNCHANGED <<done, cookie>>
       \/ (call.what = "setup" /\ call.pc = "sent" /\ done' = TRUE /\ UNCHANGED cookie)
       \/ (call.what = "logout" /\ cookie' = Nobody /\ UNCHANGED done)

-----------------------------------------------------------------------------
(* Behind the tab's back: another browser sets the panel up; in another    *)
(* tab somebody signs in or out; a session ends.                           *)

SetUpElsewhere ==
    /\ ~done /\ Press
    /\ done' = TRUE
    /\ UNCHANGED <<cookie, setup, me, wizard, call, kept, crossed>>

Elsewhere(who) ==
    /\ done /\ who # cookie /\ Press
    /\ cookie' = who
    /\ crossed' = TRUE
    /\ UNCHANGED <<done, setup, me, wizard, call, kept>>

Next ==
    \/ AnswerSetup \/ AnswerMe \/ ArriveSetup \/ ArriveMe \/ FailSetup \/ FailMe
    \/ \E meToo \in BOOLEAN : Reconnect(meToo)
    \/ Visit \/ AnswerPage \/ ArrivePage \/ AgePage
    \/ \E step \in 0..Last : Turn(step)
    \/ \E a \in Admins : SendSetup(a) \/ SendLogin(a)
    \/ SendLogout \/ Serve \/ ReplySetup \/ Refused \/ ReplyLogin \/ ReplyLogout \/ LoseReply
    \/ Enter \/ Refresh \/ Reload \/ SetUpElsewhere
    \/ \E who \in Admins \cup {Nobody} : Elsewhere(who)

Spec == Init /\ [][Next]_vars

-----------------------------------------------------------------------------
(* The pages of one administrator never show what was answered in the name *)
(* of another, unless the session has changed behind the tab's back: it    *)
(* ended, another tab signed in, or a logout was carried out whose answer  *)
(* was lost.  Only then does somebody sign in here with answers kept.      *)
(* (logout of AuthProvider, the login page's refresh.)                     *)
KeptApart == Screen = "pages" /\ kept.who # Nobody => kept.who = me.data \/ crossed

(* The recovery code, which is shown this once, stays on the screen until  *)
(* the administrator presses the last button or loads the page anew, or    *)
(* the browser has been offline.  (SetupWizard under Shell.)               *)
CodeStays ==
    [][wizard.code /\ ~wizard'.code =>
        \/ me'.fetch.why \in {"refresh", "load", "online"}
        \/ setup.fetch.why = "online"]_vars

(* What the last button of the wizard says: it takes the administrator to  *)
(* the pages.                                                              *)
EntersPages == [][Screen = "loading" /\ me.fetch.why = "refresh" => Screen' # "wizard"]_vars
=============================================================================
