CONSTANTS
    Nodes = {1}
    Reqs = {r1, r2}
    Width4 = 2
    Width6 = 3
    Slowest = 1000
    Fleets <- MCFleets
    Templates <- MCTemplates
    RuleSets <- MCRuleSets
    Targets <- MCTargets
    Columns <- MCColumns
SPECIFICATION DSpec
INVARIANTS
    AlertsFollowHealth
    ServedAsTold
    FailoverFollows
    DecidedAsRuled
    LinksAgree
PROPERTY BusyClears
CHECK_DEADLOCK FALSE
