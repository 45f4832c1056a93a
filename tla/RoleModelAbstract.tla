-------------------------- MODULE RoleModelAbstract --------------------------
(***************************************************************************)
(* What initUsers promises Create, as one step.  It succeeds exactly when  *)
(* every infrastructure role and robot user is valid and the team          *)
(* directory answers; then both system users exist and each name has the   *)
(* role of the last category that lists it (infrastructure, then robot,    *)
(* then human).  Otherwise it fails, and the roles it leaves behind are    *)
(* some of those the inputs justify, never an unchecked one.               *)
(***************************************************************************)
CONSTANTS Names, ValidNames, FlagSets, BadFlags, NoValue

VARIABLES
    infra, robots,   \* the inputs, as in RoleModel
    team,            \* the team members the directory would return
    dirUp,           \* whether the directory answers
    users,           \* the roles Create may rely on
    sysUsers,        \* the system users Create may rely on
    outcome          \* "running", "done" or "failed"

avars == <<infra, robots, team, dirUp, users, sysUsers, outcome>>

InputMaps == [Names -> FlagSets \cup {NoValue}]

Listed(m) == {n \in Names : m[n] # NoValue}

\* isValidUsername and normalizeUserFlags accept entry n of m.
ValidEntry(m, n) == n \in ValidNames /\ m[n] \notin BadFlags

Valid(m) == \A n \in Listed(m) : ValidEntry(m, n)

HumanRole == [cat |-> "human", flags |-> "login_superuser_pam"]

\* The role of name n after the three categories are stored in order.
Merged(n) ==
    IF n \in team THEN HumanRole
    ELSE IF robots[n] # NoValue THEN [cat |-> "robot", flags |-> robots[n]]
    ELSE IF infra[n] # NoValue THEN [cat |-> "infra", flags |-> infra[n]]
    ELSE NoValue

\* The roles a partly built map may give name n: none, or one of a
\* category that lists n with an entry that passed the checks.
Justified(n) ==
    {NoValue}
    \cup (IF n \in Listed(infra) /\ ValidEntry(infra, n)
          THEN {[cat |-> "infra", flags |-> infra[n]]} ELSE {})
    \cup (IF n \in Listed(robots) /\ ValidEntry(robots, n)
          THEN {[cat |-> "robot", flags |-> robots[n]]} ELSE {})
    \cup (IF dirUp /\ n \in team THEN {HumanRole} ELSE {})

AInit ==
    /\ infra \in InputMaps /\ robots \in InputMaps
    /\ team \in SUBSET Names /\ dirUp \in BOOLEAN
    /\ users = [n \in Names |-> NoValue]
    /\ sysUsers = {}
    /\ outcome = "running"

\* initUsers returns nil.
Build ==
    /\ outcome = "running"
    /\ Valid(infra) /\ Valid(robots) /\ dirUp
    /\ users' = [n \in Names |-> Merged(n)]
    /\ sysUsers' = {"superuser", "replication"}
    /\ outcome' = "done"
    /\ UNCHANGED <<infra, robots, team, dirUp>>

\* initUsers returns an error.
Reject ==
    /\ outcome = "running"
    /\ ~Valid(infra) \/ ~Valid(robots) \/ ~dirUp
    /\ users' \in [Names -> UNION {Justified(n) : n \in Names}]
    /\ \A n \in Names : users'[n] \in Justified(n)
    /\ outcome' = "failed"
    /\ UNCHANGED <<infra, robots, team, dirUp, sysUsers>>

ANext == Build \/ Reject

ASpec == AInit /\ [][ANext]_avars

=============================================================================
