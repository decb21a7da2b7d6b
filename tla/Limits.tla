-------------------------------- MODULE Limits --------------------------------
(***************************************************************************)
(* What a client meets before its request is looked at: the rate limiter,  *)
(* one Durable Object per address with a window and an alarm, and, on      *)
(* POST /login and POST /recover, the failures in login_attempts.          *)
(*                                                                         *)
(* A consume is one step, for the input gate of a Durable Object holds     *)
(* other events back while it waits for its storage; a login is one step   *)
(* per stretch between awaits.  Times are ages in ticks.                   *)
(***************************************************************************)
EXTENDS Naturals, FiniteSets

CONSTANTS
    Clients,      \* addresses, each with a limiter of its own
    Reqs,         \* logins and recoveries in flight at the same time
    Limit,        \* requests per window: 600 for the API
    WindowLength, \* length of a window: 60 seconds
    LoginLimit,   \* settings.loginRateLimit
    FailureWindow \* FAILURE_WINDOW_MINUTES

(* Assumed where they get their values. *)
ConstantsAssumption ==
    /\ Limit \in Nat \ {0}
    /\ WindowLength \in Nat \ {0}
    /\ LoginLimit \in Nat \ {0}
    /\ FailureWindow \in Nat \ {0}
    /\ IsFiniteSet(Reqs)

(* A limiter without stored state, and a handler at rest. *)
NoWindow == [age |-> WindowLength + 1, count |-> 0]
Idle == [pc |-> "idle", kind |-> "none"]

VARIABLES
    window,   \* window[c]: what c's limiter has stored (its alarm comes with it)
    req,      \* req[r]: program counter of handler r
    attempts, \* attempts[k][a]: failures of kind k recorded a ticks ago
    allowed,  \* history: allowed[c][a]: requests of c let through a ticks ago
    refused   \* the clients refused by the last step

vars == <<window, req, attempts, allowed, refused>>

(* The sum of f over the ages below n. *)
Total(f, n) ==
    LET below[m \in 0 .. n] == IF m = 0 THEN 0 ELSE below[m - 1] + f[m - 1] IN below[n]

(* The requests of c let through within one window's length. *)
Recent(c) == Total(allowed[c], WindowLength)

(* The failures of kind k that recentFailureCount counts.  Older ones,     *)
(* which cronDaily deletes some day, count for nothing and are forgotten.  *)
Failures(k) == Total(attempts[k], FailureWindow)

Kinds == {"login", "recover"}

Init ==
    /\ window = [c \in Clients |-> NoWindow]
    /\ req = [r \in Reqs |-> Idle]
    /\ attempts = [k \in Kinds |-> [a \in 0 .. FailureWindow - 1 |-> 0]]
    /\ allowed = [c \in Clients |-> [a \in 0 .. WindowLength - 1 |-> 0]]
    /\ refused = {}

-----------------------------------------------------------------------------
(* RateLimiterDO.                                                          *)

(* The stored window, or a new one when there is none or its time is up. *)
Current(c) == IF window[c].age >= WindowLength THEN [age |-> 0, count |-> 0] ELSE window[c]

(* POST /consume, on behalf of rateLimit; the handler goes on to pc. *)
Consume(c) ==
    IF Current(c).count >= Limit
    THEN /\ refused' = {c}
         /\ UNCHANGED <<window, allowed>>
    ELSE /\ window' = [window EXCEPT ![c] = [Current(c) EXCEPT !.count = @ + 1]]
         /\ allowed' = [allowed EXCEPT ![c][0] = @ + 1]
         /\ refused' = {}

(* Mutant of Alarm: it goes off whenever there is something to delete. *)
AlarmEarly(c) ==
    /\ window[c] # NoWindow
    /\ window' = [window EXCEPT ![c] = NoWindow]
    /\ refused' = {}
    /\ UNCHANGED <<req, attempts, allowed>>

(* The alarm goes off at any time from windowStart + windowMs + 1000, and  *)
(* a consume that opens a window has moved it.                             *)
Alarm(c) ==
    /\ window[c] # NoWindow
    /\ window[c].age > WindowLength
    /\ window' = [window EXCEPT ![c] = NoWindow]
    /\ refused' = {}
    /\ UNCHANGED <<req, attempts, allowed>>

-----------------------------------------------------------------------------
(* The handlers behind it.                                                 *)

(* Any other request of the panel. *)
Request(c) == Consume(c) /\ UNCHANGED <<req, attempts>>

(* POST /login or POST /recover has passed the limiter. *)
Begin(r, c, k) ==
    /\ req[r].pc = "idle"
    /\ Consume(c)
    /\ req' = IF refused' = {} THEN [req EXCEPT ![r] = [pc |-> "begun", kind |-> k]] ELSE req
    /\ UNCHANGED attempts

(* Mutant of CountFailures: blocked only beyond the limit. *)
CountFailuresBeyond(r) ==
    /\ req[r].pc = "begun"
    /\ req' = [req EXCEPT ![r] = IF @.kind = "login" /\ Failures("login") + Failures("recover") > LoginLimit
                                 THEN Idle ELSE [@ EXCEPT !.pc = "verify"]]
    /\ refused' = {}
    /\ UNCHANGED <<window, attempts, allowed>>

(* recentFailureCount of a login; a recovery asks for none. *)
CountFailures(r) ==
    /\ req[r].pc = "begun"
    /\ req' = [req EXCEPT ![r] = IF @.kind = "login" /\ Failures("login") + Failures("recover") >= LoginLimit
                                 THEN Idle ELSE [@ EXCEPT !.pc = "verify"]]
    /\ refused' = {}
    /\ UNCHANGED <<window, attempts, allowed>>

(* recordAttempt of a failure: an unknown name, a wrong password, TOTP     *)
(* code or recovery code.                                                  *)
Fail(r) ==
    /\ req[r].pc = "verify"
    /\ attempts' = [attempts EXCEPT ![req[r].kind][0] = @ + 1]
    /\ req' = [req EXCEPT ![r] = Idle]
    /\ refused' = {}
    /\ UNCHANGED <<window, allowed>>

(* A success, which leaves the failures recorded before in place; the      *)
(* question for a TOTP code, which records nothing; or a handler that      *)
(* stops, its failure not recorded.                                        *)
EndUnrecorded(r) ==
    /\ req[r].pc # "idle"
    /\ req' = [req EXCEPT ![r] = Idle]
    /\ refused' = {}
    /\ UNCHANGED <<window, attempts, allowed>>

-----------------------------------------------------------------------------
(* Counts by age, a tick later. *)
Older(f) == [a \in DOMAIN f |-> IF a = 0 THEN 0 ELSE f[a - 1]]

Tick ==
    /\ window' = [c \in Clients |->
                     IF window[c].age <= WindowLength
                     THEN [window[c] EXCEPT !.age = @ + 1] ELSE window[c]]
    /\ attempts' = [k \in Kinds |-> Older(attempts[k])]
    /\ allowed' = [c \in Clients |-> Older(allowed[c])]
    /\ refused' = {}
    /\ UNCHANGED req

Next ==
    \/ \E c \in Clients :
         \/ Alarm(c)
         \/ Request(c)
         \/ \E r \in Reqs, k \in Kinds : Begin(r, c, k)
    \/ \E r \in Reqs : CountFailures(r) \/ Fail(r) \/ EndUnrecorded(r)
    \/ Tick

Spec == Init /\ [][Next]_vars
-----------------------------------------------------------------------------
(* Properties.                                                             *)

(* Every state has its type; a stored window has let something through,    *)
(* never more than the limit, and never more than has been let through.    *)
TypeOK ==
    /\ \A c \in Clients :
         /\ window[c].age \in 0 .. WindowLength + 1
         /\ window[c].count \in 0 .. Limit
         /\ window[c].count = 0 => window[c] = NoWindow
         /\ window[c].age < WindowLength => window[c].count <= Recent(c)
         /\ allowed[c] \in [0 .. WindowLength - 1 -> Nat]
    /\ attempts \in [Kinds -> [0 .. FailureWindow - 1 -> Nat]]
    /\ \A r \in Reqs : req[r] = Idle \/ (req[r].pc \in {"begun", "verify"} /\ req[r].kind \in Kinds)
    /\ refused \subseteq Clients

(* The limiter's window is fixed, though rate-limiter.ts:2 calls it        *)
(* sliding: around its end a client gets more than Limit through within a  *)
(* window's length, but never twice the limit.                             *)
NeverTwiceTheLimit == \A c \in Clients : Recent(c) < 2 * Limit

(* Failures are counted before the password is verified and recorded       *)
(* after it (auth.routes.ts:110), so logins that overlap pass the limit    *)
(* together: but never more than all that are in flight.                   *)
GuessesBounded == Failures("login") <= LoginLimit + Cardinality(Reqs) - 1
=============================================================================
