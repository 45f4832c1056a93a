------------------------------ MODULE RoleModel ------------------------------
(***************************************************************************)
(* The Role Model Builder of pkg/cluster/cluster.go: initUsers and the     *)
(* functions it calls, which Create runs once to fill c.systemUsers and    *)
(* c.pgUsers.  The inputs are the operator's infrastructure roles, the     *)
(* robot users of the cluster's spec and the members of its team.  A role  *)
(* is reduced to its category and flags; names and passwords are model     *)
(* values.  isValidUsername, normalizeUserFlags and getTeamMembers are not *)
(* in this repository: a name is valid when it is in ValidNames, a flag    *)
(* set normalises unless it is in BadFlags, and the directory may fail.    *)
(***************************************************************************)
EXTENDS FiniteSets

CONSTANTS
    Names,       \* user names
    ValidNames,  \* the names isValidUsername accepts
    FlagSets,    \* requested flag sets
    BadFlags,    \* the flag sets normalizeUserFlags rejects
    NoValue

ASSUME RoleAssumption ==
    /\ ValidNames \subseteq Names
    /\ BadFlags \subseteq FlagSets
    /\ NoValue \notin FlagSets

\* A map from names to requested flags; NoValue marks a name not in it.
UserMaps == [Names -> FlagSets \cup {NoValue}]

Keys(m) == {n \in Names : m[n] # NoValue}

\* The role a human user gets: LOGIN and SUPERUSER, member of the PAM role.
HumanFlags == "login_superuser_pam"

Role(cat, flags) == [cat |-> cat, flags |-> flags]

VARIABLES
    infra,        \* c.InfrastructureRoles
    robots,       \* c.Spec.Users
    team,         \* the team members the directory would return
    dirUp,        \* whether getTeamMembers gets an answer
    pgUsers,      \* c.pgUsers
    systemUsers,  \* the keys of c.systemUsers
    step          \* the part of initUsers that runs next, or its outcome

vars == <<infra, robots, team, dirUp, pgUsers, systemUsers, step>>

\* Every entry has a valid name and flags that normalise.
AllValid(m) == \A n \in Keys(m) : n \in ValidNames /\ m[n] \notin BadFlags

\* The loop over a Go map: on success every entry is stored with category
\* cat; an invalid entry aborts it after the entries the random iteration
\* order visited first, which can be any of the valid ones.
StoreAll(m, cat) == [n \in Names |-> IF m[n] # NoValue THEN Role(cat, m[n]) ELSE pgUsers[n]]

\* (Each entry stored before its name and flags are checked, so the entry
\* that aborts the loop is stored too.)
StoreSomeBeforeCheck(m, cat) ==
    \E visited \in SUBSET Keys(m) :
        pgUsers' = [n \in Names |-> IF n \in visited THEN Role(cat, m[n]) ELSE pgUsers[n]]

StoreSome(m, cat) ==
    \E visited \in SUBSET {n \in Keys(m) : n \in ValidNames /\ m[n] \notin BadFlags} :
        pgUsers' = [n \in Names |-> IF n \in visited THEN Role(cat, m[n]) ELSE pgUsers[n]]

----------------------------------------------------------------------------

\* initSystemUsers: the superuser and the replication user, in a map of
\* their own.
InitSystemUsers ==
    /\ step = "system"
    /\ systemUsers' = {"superuser", "replication"}
    /\ step' = "infra"
    /\ UNCHANGED <<infra, robots, team, dirUp, pgUsers>>

\* initInfrastructureRoles: c.pgUsers[username] = data for each role.
InitInfrastructureRoles ==
    /\ step = "infra"
    /\ IF AllValid(infra)
       THEN pgUsers' = StoreAll(infra, "infra") /\ step' = "robot"
       ELSE StoreSome(infra, "infra") /\ step' = "failed"
    /\ UNCHANGED <<infra, robots, team, dirUp, systemUsers>>

\* (Robot users stored without isValidUsername and normalizeUserFlags.)
InitRobotUsersUnchecked ==
    /\ step = "robot"
    /\ pgUsers' = StoreAll(robots, "robot")
    /\ step' = "human"
    /\ UNCHANGED <<infra, robots, team, dirUp, systemUsers>>

\* initRobotUsers: the same checks; each robot gets a fresh password.
InitRobotUsers ==
    /\ step = "robot"
    /\ IF AllValid(robots)
       THEN pgUsers' = StoreAll(robots, "robot") /\ step' = "human"
       ELSE StoreSome(robots, "robot") /\ step' = "failed"
    /\ UNCHANGED <<infra, robots, team, dirUp, systemUsers>>

\* (Team members added only where the name is still free.)
InitHumanUsersKeepExisting ==
    /\ step = "human"
    /\ IF ~dirUp
       THEN step' = "failed" /\ UNCHANGED pgUsers
       ELSE /\ pgUsers' = [n \in Names |->
                            IF n \in team /\ pgUsers[n] = NoValue
                            THEN Role("human", HumanFlags) ELSE pgUsers[n]]
            /\ step' = "done"
    /\ UNCHANGED <<infra, robots, team, dirUp, systemUsers>>

\* initHumanUsers: an error of getTeamMembers is returned; otherwise every
\* member is stored, without a name check.
InitHumanUsers ==
    /\ step = "human"
    /\ IF ~dirUp
       THEN step' = "failed" /\ UNCHANGED pgUsers
       ELSE /\ pgUsers' = [n \in Names |->
                            IF n \in team THEN Role("human", HumanFlags) ELSE pgUsers[n]]
            /\ step' = "done"
    /\ UNCHANGED <<infra, robots, team, dirUp, systemUsers>>

\* initUsers has returned.
Finished == step \in {"done", "failed"} /\ UNCHANGED vars

----------------------------------------------------------------------------

\* New made both maps empty; the inputs are any the configuration, the spec
\* and the directory can hold.
Init ==
    /\ infra \in UserMaps
    /\ robots \in UserMaps
    /\ team \in SUBSET Names
    /\ dirUp \in BOOLEAN
    /\ pgUsers = [n \in Names |-> NoValue]
    /\ systemUsers = {}
    /\ step = "system"

Next ==
    \/ InitSystemUsers \/ InitInfrastructureRoles \/ InitRobotUsers
    \/ InitHumanUsers \/ Finished

Spec == Init /\ [][Next]_vars

----------------------------------------------------------------------------
(* Properties.                                                             *)

\* The merge spec.md 4.3 documents: later categories overwrite earlier ones.
MergedRole(n) ==
    IF n \in team THEN Role("human", HumanFlags)
    ELSE IF robots[n] # NoValue THEN Role("robot", robots[n])
    ELSE IF infra[n] # NoValue THEN Role("infra", infra[n])
    ELSE NoValue

(* A build of the role model that succeeds had only valid infrastructure   *)
(* and robot users, holds both system users, and gives every name the role *)
(* of the last category that lists it (infrastructure, then robot, then    *)
(* human), whatever order Go iterates its maps in.                         *)
MergeMatchesReference ==
    step = "done" =>
        /\ AllValid(infra) /\ AllValid(robots)
        /\ systemUsers = {"superuser", "replication"}
        /\ \A n \in Names : pgUsers[n] = MergedRole(n)

----------------------------------------------------------------------------
(* Refinement.  Until initUsers returns, Create relies on nothing it built; *)
(* once it has returned, c.pgUsers is what it left, and after a nil return  *)
(* c.systemUsers too.                                                       *)

Abstract == INSTANCE RoleModelAbstract WITH
    users    <- IF step \in {"done", "failed"} THEN pgUsers ELSE [n \in Names |-> NoValue],
    sysUsers <- IF step = "done" THEN systemUsers ELSE {},
    outcome  <- IF step \in {"done", "failed"} THEN step ELSE "running"

(* initUsers, run step by step in any of Go's map iteration orders,        *)
(* implements its one-step specification: it fails only for an invalid     *)
(* infrastructure role or robot user or an unreachable directory, and a    *)
(* failure leaves in c.pgUsers only entries that passed the checks.         *)
ImplementsAbstract == Abstract!ASpec

=============================================================================
