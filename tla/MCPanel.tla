------------------------------ MODULE MCPanel ------------------------------
(***************************************************************************)
(* The panel's settings and the forms that show them, for TLC, from the    *)
(* side of the browser: Panel, every page of it; three of: saves, edits,   *)
(* writes of others.  The copies of the settings (Settings) stand still    *)
(* here, and have a run of their own.                                      *)
(***************************************************************************)
EXTENDS Settings

CONSTANTS Pages, Nobody, Touched, MaxLeft, MaxWork

VARIABLES page, row, cache, fetch, form, sent, work

shown == <<page, row, cache, fetch, form, sent, work>>

Web == INSTANCE Panel

ASSUME PanelAssumption == Web!ConstantsAssumption

MCInit == Init /\ ~open /\ Web!Init
MCNext == Web!Next /\ UNCHANGED vars
MCSpec == MCInit /\ [][MCNext]_<<vars, shown>>

(* A save leaves alone what has not been edited (Panel). *)
UneditedStands == Web!UneditedStands

(* What has been typed stays in the form (Panel). *)
TypedKept == Web!TypedKept
=============================================================================
