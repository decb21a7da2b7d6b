-------------------------------- MODULE Access --------------------------------
(***************************************************************************)
(* What the edge promises about proxy credentials, with no caches and no   *)
(* handlers in sight: when it lets a credential in, the users table        *)
(* allowed that credential at that moment or a short while, Window, ago.   *)
(***************************************************************************)
EXTENDS Naturals

CONSTANTS
    Uuids,     \* credentials
    Window,    \* how long an allowance may outlive its cause
    NoAnswer

VARIABLES
    allowed,   \* the credentials the users table allows now
    age,       \* age[c]: ticks since c was allowed, stopping at Window + 1
    answer     \* the credential let in by the last step, or NoAnswer

accessVars == <<allowed, age, answer>>

(* Ages after d ticks that end with the credentials in S allowed. *)
Older(S, d) ==
    [c \in Uuids |-> IF c \in S THEN 0
                     ELSE IF age[c] + d <= Window + 1 THEN age[c] + d ELSE Window + 1]

AccessInit ==
    /\ allowed \subseteq Uuids
    /\ age = [c \in Uuids |-> IF c \in allowed THEN 0 ELSE Window + 1]
    /\ answer = NoAnswer

(* An administrator, traffic or a housekeeping job changes the users table. *)
Change ==
    /\ allowed' \subseteq Uuids
    /\ age' = Older(allowed', 0)
    /\ answer' = NoAnswer

(* Time passes, and some users expire. *)
Pass ==
    /\ allowed' \subseteq allowed
    /\ age' = Older(allowed', 1)
    /\ answer' = NoAnswer

LetIn(c) ==
    /\ age[c] <= Window
    /\ answer' = c
    /\ UNCHANGED <<allowed, age>>

AccessNext == Change \/ Pass \/ \E c \in Uuids : LetIn(c)

AccessSpec == AccessInit /\ [][AccessNext]_accessVars
=============================================================================
