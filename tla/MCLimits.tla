------------------------------ MODULE MCLimits ------------------------------
(***************************************************************************)
(* The way into the panel for TLC, from one of two sides: the limits that  *)
(* the server sets it (Limits), or what a tab of the web interface shows   *)
(* on the way (SignIn).  The other side stands still, and so do the        *)
(* administrators behind them (Accounts), who have a run of their own.     *)
(***************************************************************************)
EXTENDS Accounts, TLC

CONSTANTS
    Clients, Limit, WindowLength, LoginLimit, FailureWindow,  \* of Limits
    Nobody, MaxPresses                                        \* of SignIn

VARIABLES
    side,
    window, entry, attempts, allowed, refused,
    done, cookie, setup, me, wizard, call, kept, crossed, presses

gate == <<window, entry, attempts, allowed, refused>>
shell == <<done, cookie, setup, me, wizard, call, kept, crossed, presses>>

Gate == INSTANCE Limits WITH req <- entry
Shell == INSTANCE SignIn WITH MaxWork <- MaxPresses

ASSUME LimitsAssumption == Gate!ConstantsAssumption

Symmetry == Permutations(Clients) \cup Permutations(Reqs)

MCInit ==
    /\ Init /\ Gate!Init /\ Shell!Init
    /\ \/ side = "server" /\ done /\ cookie = Nobody
       \/ side = "tab"

MCNext ==
    \/ side = "server" /\ Gate!Next /\ UNCHANGED <<side, vars, shell>>
    \/ side = "tab" /\ Shell!Next /\ UNCHANGED <<side, vars, gate>>

MCSpec == MCInit /\ [][MCNext]_<<side, vars, gate, shell>>

(* The limiter's fixed window lets less than twice the limit through       *)
(* within its length (Limits).                                             *)
NeverTwiceTheLimit == Gate!NeverTwiceTheLimit

(* Overlapping logins get no more guesses than the limit and one for each  *)
(* of the others in flight (Limits).                                       *)
GuessesBounded == Gate!GuessesBounded

(* What the pages show is of whoever is signed in (SignIn). *)
KeptApart == Shell!KeptApart

(* The recovery code is not taken off the screen (SignIn). *)
CodeStays == Shell!CodeStays
=============================================================================
