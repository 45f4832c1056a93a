--------------------------- MODULE RoleModelProofs ---------------------------
(***************************************************************************)
(* Proof that every build of the role model that initUsers completes gives *)
(* each name the role of the last category listing it, for any names, flag *)
(* sets and inputs.  initUsers is a pipeline, so the inductive invariant   *)
(* says, for each of its stages, what c.pgUsers holds on entry to it.      *)
(***************************************************************************)
EXTENDS RoleModel, TLAPS

Steps == {"system", "infra", "robot", "human", "done", "failed"}

SystemRoles == {"superuser", "replication"}

\* c.pgUsers as New leaves it.
NoUsers == [n \in Names |-> NoValue]

\* c.pgUsers after initInfrastructureRoles stored every infrastructure role.
AfterInfra == [n \in Names |-> IF infra[n] # NoValue THEN Role("infra", infra[n]) ELSE NoValue]

\* c.pgUsers after initRobotUsers stored every robot on top of them.
AfterRobots == [n \in Names |-> IF robots[n] # NoValue THEN Role("robot", robots[n])
                                ELSE AfterInfra[n]]

\* The roles RoleModelAbstract lets a failed build leave behind.
Leftovers == [Names -> UNION {Abstract!Justified(n) : n \in Names}]

RoleInv ==
    /\ infra \in UserMaps /\ robots \in UserMaps /\ team \subseteq Names
    /\ step \in Steps
    /\ step = "system" => systemUsers = {} /\ pgUsers = NoUsers
    /\ step \in {"infra", "robot", "human", "done"} => systemUsers = SystemRoles
    /\ step = "infra" => pgUsers = NoUsers
    /\ step \in {"robot", "human", "done"} => AllValid(infra)
    /\ step = "robot" => pgUsers = AfterInfra
    /\ step \in {"human", "done"} => AllValid(robots)
    /\ step = "human" => pgUsers = AfterRobots
    /\ step = "done" => \A n \in Names : pgUsers[n] = MergedRole(n)
    /\ step = "failed" =>
           /\ ~AllValid(infra) \/ ~AllValid(robots) \/ ~dirUp
           /\ pgUsers \in Leftovers
           /\ \A n \in Names : pgUsers[n] \in Abstract!Justified(n)

LEMMA InitRoleInv == Init => RoleInv
BY DEF Init, RoleInv, NoUsers, Steps

LEMMA NextRoleInv == RoleInv /\ [Next]_vars => RoleInv'
<1> SUFFICES ASSUME RoleInv, [Next]_vars PROVE RoleInv'
    OBVIOUS
<1> USE DEF RoleInv, Steps
<1>1. CASE InitSystemUsers
    BY <1>1 DEF InitSystemUsers, SystemRoles
<1>2. CASE InitInfrastructureRoles
    <2>1. CASE AllValid(infra)
        <3>a. pgUsers' = StoreAll(infra, "infra") /\ step' = "robot"
            BY <1>2, <2>1 DEF InitInfrastructureRoles
        <3>b. pgUsers' = AfterInfra'
            BY <1>2, <3>a DEF InitInfrastructureRoles, StoreAll, AfterInfra, NoUsers
        <3>c. QED  BY <1>2, <2>1, <3>a, <3>b DEF InitInfrastructureRoles
    <2>2. CASE ~AllValid(infra)
        <3>a. step' = "failed" /\ UNCHANGED <<infra, robots, team, dirUp, systemUsers>>
            BY <1>2, <2>2 DEF InitInfrastructureRoles
        <3>b. PICK visited \in SUBSET {n \in Keys(infra) : n \in ValidNames /\ infra[n] \notin BadFlags} :
                  pgUsers' = [n \in Names |-> IF n \in visited THEN Role("infra", infra[n])
                                              ELSE pgUsers[n]]
            BY <1>2, <2>2 DEF InitInfrastructureRoles, StoreSome
        <3>c. \A n \in Names : pgUsers'[n] \in Abstract!Justified(n)'
            BY <1>2, <3>a, <3>b
            DEF InitInfrastructureRoles, Abstract!Justified, Abstract!Listed,
                Abstract!ValidEntry, Keys, Role, NoUsers
        <3>d. pgUsers' \in Leftovers'
            BY <3>b, <3>c DEF Leftovers
        <3>e. QED  BY <2>2, <3>a, <3>c, <3>d
    <2>3. QED  BY <2>1, <2>2
<1>3. CASE InitRobotUsers
    <2>1. CASE AllValid(robots)
        <3>a. pgUsers' = StoreAll(robots, "robot") /\ step' = "human"
            BY <1>3, <2>1 DEF InitRobotUsers
        <3>b. pgUsers' = AfterRobots'
            BY <1>3, <3>a DEF InitRobotUsers, StoreAll, AfterRobots, AfterInfra
        <3>c. QED  BY <1>3, <2>1, <3>a, <3>b DEF InitRobotUsers
    <2>2. CASE ~AllValid(robots)
        <3>a. step' = "failed" /\ UNCHANGED <<infra, robots, team, dirUp, systemUsers>>
            BY <1>3, <2>2 DEF InitRobotUsers
        <3>b. PICK visited \in SUBSET {n \in Keys(robots) : n \in ValidNames /\ robots[n] \notin BadFlags} :
                  pgUsers' = [n \in Names |-> IF n \in visited THEN Role("robot", robots[n])
                                              ELSE pgUsers[n]]
            BY <1>3, <2>2 DEF InitRobotUsers, StoreSome
        <3>c. \A n \in Names : pgUsers'[n] \in Abstract!Justified(n)'
            BY <1>3, <3>a, <3>b
            DEF InitRobotUsers, Abstract!Justified, Abstract!Listed,
                Abstract!ValidEntry, Keys, Role, AfterInfra, AllValid
        <3>d. pgUsers' \in Leftovers'
            BY <3>b, <3>c DEF Leftovers
        <3>e. QED  BY <2>2, <3>a, <3>c, <3>d
    <2>3. QED  BY <2>1, <2>2
<1>4. CASE InitHumanUsers
    <2>1. CASE ~dirUp
        <3>a. step' = "failed" /\ UNCHANGED <<infra, robots, team, dirUp, systemUsers, pgUsers>>
            BY <1>4, <2>1 DEF InitHumanUsers
        <3>b. step = "human"
            BY <1>4 DEF InitHumanUsers
        <3>c. \A n \in Names : pgUsers'[n] \in Abstract!Justified(n)'
            BY <3>a, <3>b
            DEF Abstract!Justified, Abstract!Listed, Abstract!ValidEntry,
                Role, AfterRobots, AfterInfra, AllValid, Keys
        <3>d. pgUsers' \in Leftovers'
            BY <3>a, <3>b, <3>c DEF Leftovers, AfterRobots
        <3>e. QED  BY <2>1, <3>a, <3>c, <3>d
    <2>2. CASE dirUp
        <3>a. /\ pgUsers' = [n \in Names |->
                               IF n \in team THEN Role("human", HumanFlags) ELSE pgUsers[n]]
              /\ step' = "done"
            BY <1>4, <2>2 DEF InitHumanUsers
        <3>b. \A n \in Names : pgUsers'[n] = MergedRole(n)'
            BY <1>4, <3>a DEF InitHumanUsers, MergedRole, AfterRobots, AfterInfra
        <3>c. QED  BY <1>4, <3>a, <3>b DEF InitHumanUsers
    <2>3. QED  BY <2>1, <2>2
<1>5. CASE Finished
    BY <1>5 DEF Finished, vars, AllValid, Keys, MergedRole, AfterRobots, AfterInfra,
              Leftovers, Abstract!Justified, Abstract!Listed, Abstract!ValidEntry
<1>6. CASE UNCHANGED vars
    BY <1>6 DEF vars, AllValid, Keys, MergedRole, AfterRobots, AfterInfra,
              Leftovers, Abstract!Justified, Abstract!Listed, Abstract!ValidEntry
<1>7. QED  BY <1>1, <1>2, <1>3, <1>4, <1>5, <1>6 DEF Next

(* The run's invariant for every set of names and flag sets: a completed   *)
(* initUsers saw only valid infrastructure and robot users, created both   *)
(* system users, and merged the three categories in the documented order.  *)
THEOREM MergeInvariant == Spec => []MergeMatchesReference
<1>1. RoleInv => MergeMatchesReference
    BY DEF RoleInv, MergeMatchesReference, SystemRoles
<1>2. QED  BY <1>1, InitRoleInv, NextRoleInv, PTL DEF Spec

(* RoleInv holds in every reachable state: at each stage of initUsers,     *)
(* c.pgUsers holds exactly the roles of the categories already stored.     *)
THEOREM RoleInvInvariant == Spec => []RoleInv
BY InitRoleInv, NextRoleInv, PTL DEF Spec

----------------------------------------------------------------------------
(* Refinement of RoleModelAbstract.                                        *)

\* The abstract state the refinement mapping gives a concrete state.
AUsers == IF step \in {"done", "failed"} THEN pgUsers ELSE NoUsers
ASys == IF step = "done" THEN systemUsers ELSE {}
AOutcome == IF step \in {"done", "failed"} THEN step ELSE "running"

LEMMA MappingDefs ==
    /\ Abstract!avars = <<infra, robots, team, dirUp, AUsers, ASys, AOutcome>>
    /\ Abstract!Valid(infra) = AllValid(infra)
    /\ Abstract!Valid(robots) = AllValid(robots)
    /\ \A n \in Names : Abstract!Merged(n) = MergedRole(n)
BY DEF Abstract!avars, AUsers, ASys, AOutcome, NoUsers, Abstract!Valid, Abstract!Listed,
       AllValid, Keys, Abstract!Merged, MergedRole, Role, HumanFlags,
       Abstract!HumanRole, Abstract!ValidEntry

LEMMA InitRefines == Init => Abstract!AInit
BY DEF Init, Abstract!AInit, Abstract!InputMaps, UserMaps

\* A step that leaves initUsers unfinished, or stays finished, changes no
\* abstract variable.
LEMMA StepRefines == RoleInv /\ [Next]_vars => [Abstract!ANext]_(Abstract!avars)
<1> SUFFICES ASSUME RoleInv, RoleInv', [Next]_vars
             PROVE  [Abstract!ANext]_<<infra, robots, team, dirUp, AUsers, ASys, AOutcome>>
    BY NextRoleInv DEF Abstract!avars, AUsers, ASys, AOutcome, NoUsers
<1> USE DEF RoleInv, Steps
<1>s. ASSUME step \notin {"done", "failed"}, step' \notin {"done", "failed"},
             UNCHANGED <<infra, robots, team, dirUp>>
      PROVE  UNCHANGED <<infra, robots, team, dirUp, AUsers, ASys, AOutcome>>
    BY <1>s DEF AUsers, ASys, AOutcome, NoUsers
\* A step into "failed" is a Reject: RoleInv' gives its reason and says
\* that the roles left behind are justified.
<1>f. ASSUME step \notin {"done", "failed"}, step' = "failed",
             UNCHANGED <<infra, robots, team, dirUp>>
      PROVE  Abstract!Reject
    <2>1. AOutcome = "running" /\ AOutcome' = "failed" /\ UNCHANGED ASys
        BY <1>f DEF AOutcome, ASys
    <2>2. ~Abstract!Valid(infra) \/ ~Abstract!Valid(robots) \/ ~dirUp
        BY <1>f, MappingDefs
    <2>3. AUsers' = pgUsers'
        BY <1>f DEF AUsers
    <2>4. AUsers' \in [Names -> UNION {Abstract!Justified(n) : n \in Names}]
        BY <1>f, <2>3 DEF Leftovers, Abstract!Justified, Abstract!Listed, Abstract!ValidEntry
    <2>5. \A n \in Names : AUsers'[n] \in Abstract!Justified(n)
        BY <1>f, <2>3 DEF Abstract!Justified, Abstract!Listed, Abstract!ValidEntry
    <2>6. QED  BY <1>f, <2>1, <2>2, <2>4, <2>5 DEF Abstract!Reject, AUsers, AOutcome, ASys
<1>1. CASE InitSystemUsers
    BY <1>1, <1>s DEF InitSystemUsers
<1>2. CASE InitInfrastructureRoles
    BY <1>2, <1>s, <1>f DEF InitInfrastructureRoles, Abstract!ANext
<1>3. CASE InitRobotUsers
    BY <1>3, <1>s, <1>f DEF InitRobotUsers, Abstract!ANext
<1>4. CASE InitHumanUsers
    <2>1. CASE step' = "failed"
        BY <1>4, <2>1, <1>f DEF InitHumanUsers, Abstract!ANext
    <2>2. CASE step' = "done"
        <3>1. step = "human" /\ dirUp /\ UNCHANGED <<infra, robots, team, dirUp>>
            BY <1>4, <2>2 DEF InitHumanUsers
        <3>2. AUsers' = [n \in Names |-> Abstract!Merged(n)]'
            <4>1. pgUsers' = [n \in Names |-> IF n \in team THEN Role("human", HumanFlags)
                                                ELSE AfterRobots[n]]
                BY <1>4, <2>2, <3>1 DEF InitHumanUsers
            <4>2. \A n \in Names : (IF n \in team THEN Role("human", HumanFlags)
                                    ELSE AfterRobots[n]) = Abstract!Merged(n)'
                BY <3>1 DEF Abstract!Merged, AfterRobots, AfterInfra, Role, HumanFlags,
                            Abstract!HumanRole
            <4>3. QED  BY <2>2, <4>1, <4>2 DEF AUsers
        <3>3. Abstract!Build
            <4>1. AOutcome = "running" /\ AOutcome' = "done"
                BY <3>1, <2>2 DEF AOutcome
            <4>2. Abstract!Valid(infra) /\ Abstract!Valid(robots)
                BY <3>1, MappingDefs
            <4>3. ASys' = {"superuser", "replication"}
                BY <2>2 DEF ASys, SystemRoles
            <4>4. AUsers' = [n \in Names |-> Abstract!Merged(n)]
                BY <3>1, <3>2 DEF Abstract!Merged
            <4>5. QED
                BY <3>1, <4>1, <4>2, <4>3, <4>4
                DEF Abstract!Build, AUsers, AOutcome, ASys, NoUsers
        <3>4. QED  BY <3>3 DEF Abstract!ANext
    <2>3. QED  BY <1>4, <2>1, <2>2 DEF InitHumanUsers
<1>5. CASE Finished \/ UNCHANGED vars
    BY <1>5 DEF Finished, vars, AUsers, ASys, AOutcome
<1>6. QED  BY <1>1, <1>2, <1>3, <1>4, <1>5 DEF Next

(* The step-by-step initUsers implements its one-step specification, for  *)
(* any inputs and any map iteration order: it fails only for an invalid    *)
(* infrastructure role or robot user or an unreachable team directory,     *)
(* and a failed build leaves in c.pgUsers only roles whose entries passed  *)
(* isValidUsername and normalizeUserFlags (a Reject step); a completed     *)
(* build is a Build step; every other step stutters.                       *)
THEOREM Refinement == Spec => ImplementsAbstract
<1>1. Spec => []RoleInv
    BY RoleInvInvariant
<1>2. QED
    BY <1>1, InitRefines, StepRefines, PTL
       DEF Spec, ImplementsAbstract, Abstract!ASpec

=============================================================================
