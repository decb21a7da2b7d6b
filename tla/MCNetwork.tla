------------------------------ MODULE MCNetwork ------------------------------
(***************************************************************************)
(* The nodes and what is around them, for TLC, from the side of the        *)
(* network: Network.  Their deployment (Deployment) stands still here, and *)
(* has a run of its own.                                                   *)
(***************************************************************************)
EXTENDS Deployment, Sequences, TLC

CONSTANTS
    Editors, Servers, Backends, Warps, Filters, Rules, Chains,
    Outside, NoServer, Kinds, Values, NoValue

VARIABLES
    servers, backends, health, rules, chains, switches, edits, editor, expected

net == <<servers, backends, health, rules, chains, switches, edits, editor, expected>>

Net == INSTANCE Network WITH Reqs <- Editors, node <- switches, work <- edits, req <- editor

ASSUME NetworkAssumption == Net!ConstantsAssumption

Symmetry == Permutations(Servers) \cup Permutations(Nodes) \cup Permutations(Editors)
                \cup Permutations(Kinds) \cup Permutations(Values)

MCInit == Init /\ Net!Init
MCNext == Net!Next /\ UNCHANGED vars
MCSpec == MCInit /\ [][MCNext]_<<vars, net>>

(* The primary resolver is the one last asked for (Network). *)
PrimaryAsAsked == Net!PrimaryAsAsked

(* Backends, WARP and filters are as last given (Network). *)
BackendAsAsked == Net!BackendAsAsked

(* Rules fit, but for those changed by halves (Network). *)
RulesFit == Net!RulesFit

(* Chains go through nodes that are on (Network). *)
ChainsSound == Net!ChainsSound
=============================================================================
