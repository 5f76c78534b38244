------------------------------- MODULE TokenSync -------------------------------
(***************************************************************************)
(* The omnigraph actor-token sync (omnigraph/scripts/sync_actor_tokens.py) *)
(* as omnigraph/token_sync.py deploys it: an hourly CronJob whose runs do  *)
(* not overlap, and a bootstrap Job that each deploy runs besides.         *)
(*                                                                         *)
(* A run reads the service map, the actor map and the realm, page by page, *)
(* and then replaces the actor map; every call is an action and may fail,  *)
(* and a run may be killed between any two.  Vault's kv-v1 store has no    *)
(* compare-and-swap.  Abstracted: logins, the JSON in the secrets, the dry *)
(* run, and the servers that restart when the map changes.                 *)
(*                                                                         *)
(* Keycloak lists the realm by user name; a user is its rank there.  The   *)
(* actor 0 is the service actor svc-witan-ci.                              *)
(***************************************************************************)
EXTENDS Integers, FiniteSets, FiniteSetsExt

CONSTANTS
    NUsers,       \* users that may ever be in the realm
    Robots,       \* those of them that are clients' service accounts
    Jobs,         \* the Jobs that may run side by side
    OneShot,      \* those of them that only run at a deploy
    PageSize,     \* MEMBERS_PAGE_SIZE: users asked for in a page
    PageCap,      \* users Keycloak returns in a page at most
    NTokens,      \* bound: token values, enough for a mint to be fresh
    MaxChanges,   \* bound: changes people make
    MaxDeploys    \* bound: runs of the one-shot jobs

Users  == 1..NUsers
Svc    == 0
Actors == Users \cup {Svc}
Tokens == 1..NTokens
None   == 0

ASSUME SyncAssumption ==
    /\ NUsers \in Nat /\ NTokens \in Nat /\ MaxChanges \in Nat /\ MaxDeploys \in Nat
    /\ PageSize \in Nat \ {0} /\ PageCap \in Nat \ {0}
    /\ Robots \subseteq Users
    /\ OneShot \subseteq Jobs /\ IsFiniteSet(Jobs)
    \* The maps, written and read, never hold so many values that no user's
    \* mint is fresh.
    /\ NTokens >= NUsers + 1 + Cardinality(Actors) + 2 * Cardinality(Jobs \X Actors)

VARIABLES
    realm,     \* Keycloak: users of the realm
    disabled,  \* Keycloak: users that are disabled
    service,   \* Vault: the token of the service map, or None
    token,     \* Vault: the actor's token in the actor map, or None
    changes, deploys,
    pc,        \* where the job's run stands
    svc, current,     \* what it read of the two maps
    first, found,     \* paging: offset, users read with their enabled flag
    desired,   \* the map it is about to write
    kept, gone \* history: users enabled, or not, ever since the run began

keycloak == <<realm, disabled>>
vault    == <<service, token>>
memory   == <<svc, current, first, found, desired>>
history  == <<kept, gone>>
vars     == <<keycloak, vault, changes, deploys, pc, memory, history>>

Map      == [Actors -> Tokens \cup {None}]
NoTokens == [a \in Actors |-> None]

TypeOK ==
    /\ realm \subseteq Users /\ disabled \subseteq Users
    /\ service \in Tokens \cup {None}
    /\ token \in Map
    /\ changes \in 0..MaxChanges /\ deploys \in 0..MaxDeploys
    /\ pc \in [Jobs -> {"idle", "service", "actors", "page", "reconcile", "write"}]
    /\ svc \in [Jobs -> Tokens \cup {None}]
    /\ current \in [Jobs -> Map] /\ desired \in [Jobs -> Map]
    /\ first \in [Jobs -> 0..NUsers]
    /\ found \in [Jobs -> SUBSET (Users \X BOOLEAN)]
    /\ kept \in [Jobs -> SUBSET Users] /\ gone \in [Jobs -> SUBSET Users]

Init ==
    /\ realm \in SUBSET Users /\ disabled = {}
    /\ service = None /\ token = NoTokens
    /\ changes = 0 /\ deploys = 0
    /\ pc = [j \in Jobs |-> "idle"]
    /\ svc = [j \in Jobs |-> None]
    /\ current = [j \in Jobs |-> NoTokens] /\ desired = [j \in Jobs |-> NoTokens]
    /\ first = [j \in Jobs |-> 0]
    /\ found = [j \in Jobs |-> {}]
    /\ kept = [j \in Jobs |-> {}] /\ gone = [j \in Jobs |-> {}]

-----------------------------------------------------------------------------
(* People: operators of the realm and of the maps. *)

Enabled == realm \ (disabled \cup Robots)     \* the humans who may have a token

Change == changes < MaxChanges /\ changes' = changes + 1

\* A change to the realm is noted for every run under way.
Note ==
    /\ kept' = [j \in Jobs |-> kept[j] \cap Enabled']
    /\ gone' = [j \in Jobs |-> gone[j] \ Enabled']

AddUser(u) ==
    /\ Change /\ u \notin realm
    /\ realm' = realm \cup {u}
    /\ disabled' = disabled \ {u}
    /\ Note
    /\ UNCHANGED <<vault, deploys, pc, memory>>

RemoveUser(u) ==
    /\ Change /\ u \in realm
    /\ realm' = realm \ {u}
    /\ disabled' = disabled \ {u}
    /\ Note
    /\ UNCHANGED <<vault, deploys, pc, memory>>

ToggleUser(u) ==
    /\ Change /\ u \in realm
    /\ disabled' = IF u \in disabled THEN disabled \ {u} ELSE disabled \cup {u}
    /\ realm' = realm
    /\ Note
    /\ UNCHANGED <<vault, deploys, pc, memory>>

\* Manual rotation: delete the user's entry, or the whole path, and let the
\* next run mint again.
RotateByHand ==
    /\ Change
    /\ \E S \in {{u} : u \in Users} \cup {Actors} :
         /\ token' = [a \in Actors |-> IF a \in S THEN None ELSE token[a]]
         /\ kept' = [j \in Jobs |-> kept[j] \ S]
    /\ UNCHANGED <<keycloak, service, deploys, pc, memory, gone>>

\* The Pulumi stack writes the service map from SOPS.
SetService ==
    /\ Change
    /\ service' \in {None, Max(Tokens)}
    /\ UNCHANGED <<keycloak, token, deploys, pc, memory, history>>

-----------------------------------------------------------------------------
(* main(), one call per action *)

Goto(j, step) == pc' = [pc EXCEPT ![j] = step]

\* The CronJob starts no run while one of its own is under way (Forbid).
Start(j) ==
    /\ pc[j] = "idle"
    /\ j \in OneShot => deploys < MaxDeploys
    /\ deploys' = IF j \in OneShot THEN deploys + 1 ELSE deploys
    /\ Goto(j, "service")
    /\ kept' = [kept EXCEPT ![j] = Enabled]
    /\ gone' = [gone EXCEPT ![j] = Users \ Enabled]
    /\ UNCHANGED <<keycloak, vault, changes, memory>>

ReadServiceAnyway(j) ==
    /\ pc[j] = "service"
    /\ svc' = [svc EXCEPT ![j] = service]
    /\ Goto(j, "actors")
    /\ UNCHANGED <<keycloak, vault, changes, deploys, current, first, found, desired, history>>

\* A service map that is absent or lacks svc-witan-ci ends the run (Fail).
ReadService(j) ==
    /\ pc[j] = "service" /\ service # None
    /\ svc' = [svc EXCEPT ![j] = service]
    /\ Goto(j, "actors")
    /\ UNCHANGED <<keycloak, vault, changes, deploys, current, first, found, desired, history>>

\* An absent actor map reads as an empty one.
ReadActors(j) ==
    /\ pc[j] = "actors"
    /\ current' = [current EXCEPT ![j] = token]
    /\ Goto(j, "page")
    /\ UNCHANGED <<keycloak, vault, changes, deploys, svc, first, found, desired, history>>

\* The users Keycloak lists from an offset on.
Page(offset) ==
    LET rank(u) == Cardinality({w \in realm : w < u})
    IN {u \in realm : offset <= rank(u) /\ rank(u) < offset + Min({PageSize, PageCap})}

ReadPageEndless(j) ==
    /\ pc[j] = "page"
    /\ LET batch == Page(first[j]) IN
         /\ found' = [found EXCEPT ![j] = @ \cup {<<u, u \notin disabled>> : u \in batch}]
         /\ IF Cardinality(batch) > PageSize
              THEN Goto(j, "reconcile") /\ UNCHANGED first
              ELSE first' = [first EXCEPT ![j] = @ + PageSize] /\ UNCHANGED pc
    /\ UNCHANGED <<keycloak, vault, changes, deploys, svc, current, desired, history>>

\* realm_users: a page shorter than what was asked for is the last one.
ReadPage(j) ==
    /\ pc[j] = "page"
    /\ LET batch == Page(first[j]) IN
         /\ found' = [found EXCEPT ![j] = @ \cup {<<u, u \notin disabled>> : u \in batch}]
         /\ IF Cardinality(batch) < PageSize
              THEN Goto(j, "reconcile") /\ UNCHANGED first
              ELSE first' = [first EXCEPT ![j] = @ + PageSize] /\ UNCHANGED pc
    /\ UNCHANGED <<keycloak, vault, changes, deploys, svc, current, desired, history>>

\* A mint is a value nothing holds, and distinct users get distinct ones.
Held ==
    {service} \cup {token[a] : a \in Actors}
      \cup UNION {{current[j][a] : a \in Actors} \cup {desired[j][a] : a \in Actors} : j \in Jobs}

Mint(u) ==
    LET free == Tokens \ Held
    IN CHOOSE t \in free : Cardinality({s \in free : s < t}) = u - 1

WantedDisabled(j) == {f[1] : f \in found[j]} \ Robots

\* Enabled users that are no client's service account.
Wanted(j) == {f[1] : f \in {g \in found[j] : g[2]}} \ Robots

DesiredReminted(j) ==
    [a \in Actors |-> IF a = Svc THEN svc[j] ELSE IF a \in Wanted(j) THEN Mint(a) ELSE None]

\* reconcile: service tokens, and a token carried over or minted per user.
Desired(j) ==
    [a \in Actors |->
        IF a = Svc THEN svc[j]
        ELSE IF a \notin Wanted(j) THEN None
        ELSE IF current[j][a] # None THEN current[j][a] ELSE Mint(a)]

\* The run is over and its memory gone.
Over(j) ==
    /\ Goto(j, "idle")
    /\ svc' = [svc EXCEPT ![j] = None]
    /\ current' = [current EXCEPT ![j] = NoTokens]
    /\ first' = [first EXCEPT ![j] = 0]
    /\ found' = [found EXCEPT ![j] = {}]
    /\ desired' = [desired EXCEPT ![j] = NoTokens]

\* A realm without any user is a failed lookup (Fail); a map that already is as
\* desired is not written.
Reconcile(j) ==
    /\ pc[j] = "reconcile" /\ found[j] # {}
    /\ IF Desired(j) = current[j]
         THEN Over(j)
         ELSE /\ Goto(j, "write")
              /\ desired' = [desired EXCEPT ![j] = Desired(j)]
              /\ UNCHANGED <<svc, current, first, found>>
    /\ UNCHANGED <<keycloak, vault, changes, deploys, history>>

Write(j) ==
    /\ pc[j] = "write"
    /\ token' = desired[j]
    /\ Over(j)
    /\ UNCHANGED <<keycloak, service, changes, deploys, history>>

\* Any call fails, a guard refuses to go on, or the pod is killed; a write may
\* have reached Vault all the same (Write).
Fail(j) ==
    /\ pc[j] # "idle"
    /\ Over(j)
    /\ UNCHANGED <<keycloak, vault, changes, deploys, history>>

-----------------------------------------------------------------------------

People ==
    \/ \E u \in Users : AddUser(u) \/ RemoveUser(u) \/ ToggleUser(u)
    \/ RotateByHand \/ SetService

Next ==
    \/ People
    \/ \E j \in Jobs :
         \/ Start(j) \/ ReadService(j) \/ ReadActors(j) \/ ReadPage(j)
         \/ Reconcile(j) \/ Write(j) \/ Fail(j)

\* The CronJob starts a run every hour, and no call of it fails for ever.
Fairness ==
    \A j \in Jobs \ OneShot :
        /\ WF_vars(Start(j))
        /\ SF_vars(ReadService(j)) /\ SF_vars(ReadActors(j))
        /\ \A n \in 0..NUsers : SF_vars(first[j] = n /\ ReadPage(j))
        /\ SF_vars(Reconcile(j)) /\ SF_vars(Write(j))

Spec == Init /\ [][Next]_vars /\ Fairness

-----------------------------------------------------------------------------
(* Properties *)

(* The service identity is never dropped: whatever the map holds, it holds    *)
(* the service actor's entry.                                                 *)
ServiceKept == token # NoTokens => token[Svc] # None

(* "A token already provisioned for a still-present user is carried over      *)
(* verbatim": a run changes no token of a user that was enabled, and not      *)
(* rotated by hand, ever since the run began.                                 *)
TokensCarriedOver ==
    [][\A j \in Jobs : pc[j] = "write" /\ token' = desired[j] =>
          \A u \in kept[j] : token[u] # None => token'[u] = token[u]]_vars

\* The run of j comes to its end in this step, having done all it should.
Succeeds(j) ==
    \/ pc[j] = "write" /\ pc'[j] = "idle" /\ token' = desired[j]
    \/ pc[j] = "reconcile" /\ pc'[j] = "idle" /\ found[j] # {} /\ Desired(j) = current[j]

(* One entry per enabled human: when a run succeeds, a user enabled ever      *)
(* since it began has a token and a user disabled or absent ever since has    *)
(* none.                                                                      *)
RunTellsTheTruth ==
    [][\A j \in Jobs : Succeeds(j) =>
          /\ \A u \in kept[j] : token'[u] # None
          /\ \A u \in gone[j] : token'[u] = None]_vars

(* Whatever failed, was killed or raced on the way, the map ends up right and *)
(* is written no more: every write would restart omnigraph-server.            *)
Converges ==
    <>[](service # None /\ realm # {}) =>
        <>[][\A a \in Actors :
              /\ token'[a] = token[a]
              /\ (token[a] # None) <=> (a \in Enabled \cup {Svc})]_vars
=============================================================================
