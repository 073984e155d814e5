------------------------------- MODULE Access -------------------------------
(***************************************************************************)
(* Who may do what: backend/services/authz.py with the guards that call it *)
(* (backend/auth/guards.py, decorators.py, api_keys.py), the routes that   *)
(* edit it (backend/routes/access.py, api_keys.py) and the account         *)
(* commands of backend/cli.py.                                             *)
(*                                                                         *)
(* The five tables are shared by every process; each process keeps its own *)
(* cache of resolved grants.  A cached entry carries the version current   *)
(* when it was stored and every bump of the version empties the cache, so  *)
(* the version comparison of _fresh never discards an entry and only its   *)
(* age is kept here.  A command of cli.py is a process of its own whose    *)
(* cache nobody else reads.                                                *)
(***************************************************************************)
EXTENDS Naturals, FiniteSets

CONSTANTS
    Threads,      \* request threads and running cli.py commands
    Procs,        \* processes with a grant cache
    ProcOf,       \* the process of each thread
    Commands,     \* the threads that are cli.py commands
    Users,        \* external identities; each names one account
    First,        \* the account cli.py create-admin made at installation
    Demoters,     \* the threads that are asked to clear a superuser flag
    TTL,          \* CACHE_TTL_SECONDS, in ticks
    AuthEnabled,  \* settings.auth.auth_enabled
    MaxWrites,    \* bound: committed changes of roles, accounts and keys
    Anon          \* the principal of a request that never authenticated

ASSUME AccessAssumption ==
    /\ TTL \in Nat /\ MaxWrites \in Nat /\ AuthEnabled \in BOOLEAN
    /\ ProcOf \in [Threads -> Procs] /\ Anon \notin Users /\ First \in Users

VARIABLES
    perm,      \* role_permissions: the codes of each role row
    codes,     \* permissions: the codes that have a row
    holds,     \* user_roles: the roles of each account
    known,     \* users: the identities that have a row
    active,    \* users.is_active
    super,     \* users.is_superuser
    applied,   \* seed_migrations
    keys,      \* accounts with an API key that has not expired
    cache,     \* cache[p][x]: the grants process p keeps for principal x
    th,        \* th[t]: what thread t is doing
    since,     \* since[x][c]: ticks since principal x last held code c
    writes     \* committed changes so far

tables == <<perm, codes, holds, known, active, super, applied, keys>>
accessVars == <<tables, cache, th, since, writes>>

\* Codes: "read" stands for the ordinary points and "roles" for admin:roles.
seed_catalog == {"read", "roles"}
Builtin == {"anonymous", "authenticated", "admin"}
Role == Builtin \cup {"custom"}
AnonymousDefault == {"anonymous"}
AutoGrant == {"authenticated"}
Principal == Users \cup {Anon}

\* A role without a row holds the marker {"absent"}.
Absent == {"absent"}
rows == {r \in Role : perm[r] # Absent}
PermsOf(r, p) == IF p[r] = Absent THEN {} ELSE p[r]

Seed(r, all) == IF r = "admin" THEN all ELSE {"read"}
Topups == {[id |-> "authenticated-read", role |-> "authenticated", add |-> {"read"}],
           [id |-> "anonymous-read", role |-> "anonymous", add |-> {"read"}]}

NoEntry == [age |-> TTL + 1, grants |-> {}]
_fresh_any(e) == e # NoEntry

_fresh(e) == e.age <= TTL
NoCache == [x \in Principal |-> NoEntry]
invalidate(t) == cache' = [cache EXCEPT ![ProcOf[t]] = NoCache]

Rest == [pc |-> "idle", who |-> Anon, need |-> "read", super |-> FALSE, held |-> {}]
At(t, pc) == th[t].pc = pc
Goto(t, pc) == th' = [th EXCEPT ![t].pc = pc]
Done(t) == th' = [th EXCEPT ![t] = Rest]

Granted(x, p, h) ==
    UNION {PermsOf(r, p) : r \in IF x = Anon THEN AnonymousDefault ELSE h[x]}
Grants(x) == Granted(x, perm, holds)

\* An older deployment whose roles predate the top-ups, or an empty database
\* in which create-admin has just made its first account.
AccessInit ==
    /\ \/ perm = [r \in Role |-> IF r = "custom" THEN Absent
                                 ELSE IF r = "admin" THEN seed_catalog ELSE {}]
       \/ perm = [r \in Role |-> Absent]
    /\ codes = {} /\ applied = {}
    /\ known = {First} /\ active = {First} /\ super = {First}
    /\ holds = [u \in Users |-> {}]
    /\ keys = {}
    /\ cache = [p \in Procs |-> NoCache]
    /\ th = [t \in Threads |-> Rest]
    /\ since = [x \in Principal |-> [c \in seed_catalog |-> TTL + 1]]
    /\ writes = 0

-----------------------------------------------------------------------------
(* Start-up.                                                               *)

AllCodes == codes \cup seed_catalog
Seeded_unborn == [r \in Role |-> IF r = "admin" THEN perm[r] \cup AllCodes ELSE perm[r]]

Seeded == [r \in Role |->
             IF perm[r] = Absent /\ r \in Builtin THEN Seed(r, AllCodes)
             ELSE IF r = "admin" THEN perm[r] \cup AllCodes ELSE perm[r]]

_apply_seed_topups_always(p) ==
    /\ perm' = [r \in Role |-> p[r] \cup UNION {m.add : m \in {n \in Topups : n.role = r}}]
    /\ applied' = applied \cup {m.id : m \in Topups}

_apply_seed_topups(p) ==
    /\ perm' = [r \in Role |-> p[r] \cup
                  UNION {m.add : m \in {n \in Topups : n.role = r /\ n.id \notin applied}}]
    /\ applied' = applied \cup {m.id : m \in Topups}

\* bootstrap(): the catalogue's codes get rows, missing built-in roles are
\* created with their seed, admin is topped up, and each top-up that has not
\* been recorded is applied once.  A restarted process begins with no cache
\* and none of its requests.
bootstrap(p) ==
    /\ codes' = AllCodes
    /\ _apply_seed_topups(Seeded)
    /\ cache' = [cache EXCEPT ![p] = NoCache]
    /\ th' = [t \in Threads |-> IF ProcOf[t] = p THEN Rest ELSE th[t]]
    /\ UNCHANGED <<holds, known, active, super, keys, writes>>

-----------------------------------------------------------------------------
(* Authentication.                                                         *)

Identified(t, u, need) ==
    th' = [th EXCEPT ![t] = [pc |-> "check", who |-> u, need |-> need,
                             super |-> u \in super, held |-> {}]]
Refused(t, need) ==
    IF AuthEnabled THEN Done(t)
    ELSE th' = [th EXCEPT ![t] = [Rest EXCEPT !.pc = "check", !.need = need]]

\* _identify_existing: the row is read on every request, no cache is asked.
_identify_existing(t, u, need) ==
    IF u \in known \cap active THEN Identified(t, u, need) ELSE Refused(t, need)

try_api_key(t, u, need) ==
    /\ u \in keys
    /\ _identify_existing(t, u, need)
    /\ UNCHANGED <<tables, cache, writes>>

\* A browser session may remember the uid of any account that has signed in;
\* one whose account is inactive forgets it and falls back to its token, which
\* leads to provision_known below.
try_session(t, u, need) ==
    /\ u \in known \cap active
    /\ Identified(t, u, need)
    /\ UNCHANGED <<tables, cache, writes>>

\* provision_user with a row: the login time is committed and the process's
\* cache dropped.
provision_known(t, u, need) ==
    /\ u \in known
    /\ _identify_existing(t, u, need)
    /\ invalidate(t)
    /\ UNCHANGED <<tables, writes>>

provision_missing(t, u, need) ==
    /\ u \notin known
    /\ th' = [th EXCEPT ![t] = [Rest EXCEPT !.pc = "insert", !.who = u, !.need = need]]
    /\ UNCHANGED <<tables, cache, writes>>

\* The insert, with its auto-granted roles in the same transaction; the loser
\* of two inserts meets the unique index and uses the winner's row.
provision_user(t) ==
    LET u == th[t].who IN
    /\ At(t, "insert")
    /\ IF u \in known
       THEN _identify_existing(t, u, th[t].need) /\ UNCHANGED <<known, active, holds, cache>>
       ELSE /\ known' = known \cup {u} /\ active' = active \cup {u}
            /\ holds' = [holds EXCEPT ![u] = AutoGrant \cap rows]
            /\ Identified(t, u, th[t].need)
            /\ invalidate(t)
    /\ UNCHANGED <<perm, codes, super, applied, keys, writes>>

_authenticate(t) ==
    /\ At(t, "idle") /\ t \notin Commands
    /\ \E u \in Users, need \in seed_catalog :
         \/ try_api_key(t, u, need)
         \/ try_session(t, u, need)
         \/ provision_known(t, u, need)
         \/ provision_missing(t, u, need)
         \/ Refused(t, need) /\ UNCHANGED <<tables, cache, writes>>

-----------------------------------------------------------------------------
(* The permission check.                                                   *)

Decide(t, grants) == IF th[t].need \in grants THEN Goto(t, "perform") ELSE Done(t)

\* has_permission: the superuser flag of the principal, then the cache; a miss
\* queries the tables and stores what it read in a later step.
has_permission(t) ==
    LET x == th[t].who
        e == cache[ProcOf[t]][x] IN
    /\ At(t, "check")
    /\ \/ th[t].super /\ Goto(t, "perform")
       \/ ~th[t].super /\ _fresh(e) /\ Decide(t, e.grants)
       \/ ~th[t].super /\ ~_fresh(e)
            /\ th' = [th EXCEPT ![t].pc = "store", ![t].held = Grants(x)]
    /\ UNCHANGED <<tables, cache, writes>>

_grants_for_user_id(t) ==
    /\ At(t, "store")
    /\ cache' = [cache EXCEPT ![ProcOf[t]][th[t].who] = [age |-> 0, grants |-> th[t].held]]
    /\ Decide(t, th[t].held)
    /\ UNCHANGED <<tables, writes>>

-----------------------------------------------------------------------------
(* Handlers.  A change commits, and the cache is emptied in a later step.  *)

Admin(t) == At(t, "perform") /\ (t \in Commands \/ th[t].need = "roles")
Commit(t) == writes < MaxWrites /\ writes' = writes + 1 /\ Goto(t, "invalidate")
              /\ UNCHANGED <<codes, applied, cache>>

create_role(t) ==
    /\ Admin(t) /\ t \notin Commands /\ "custom" \notin rows
    /\ perm' = [perm EXCEPT !["custom"] = {}]
    /\ Commit(t) /\ UNCHANGED <<holds, known, active, super, keys>>

delete_role(t) ==
    /\ Admin(t) /\ t \notin Commands
    /\ \E r \in rows \ Builtin :
         /\ perm' = [perm EXCEPT ![r] = Absent]
         /\ holds' = [u \in Users |-> holds[u] \ {r}]
    /\ Commit(t) /\ UNCHANGED <<known, active, super, keys>>

\* Replaces the set wholesale; a code without a row gets one.
set_role_permissions(t) ==
    /\ Admin(t) /\ t \notin Commands /\ writes < MaxWrites
    /\ \E r \in rows, new \in SUBSET seed_catalog :
         perm' = [perm EXCEPT ![r] = new] /\ codes' = codes \cup new
    /\ writes' = writes + 1 /\ Goto(t, "invalidate")
    /\ UNCHANGED <<holds, known, active, super, applied, keys, cache>>

grant_role(t) ==
    /\ Admin(t)
    /\ \E u \in known, r \in rows : r \notin holds[u]
         /\ holds' = [holds EXCEPT ![u] = @ \cup {r}]
    /\ Commit(t) /\ UNCHANGED <<perm, known, active, super, keys>>

revoke_role(t) ==
    /\ Admin(t)
    /\ \E u \in known, r \in rows : holds' = [holds EXCEPT ![u] = @ \ {r}]
    /\ Commit(t) /\ UNCHANGED <<perm, known, active, super, keys>>

promote(t) ==
    /\ Admin(t) /\ th[t].super
    /\ \E u \in known : super' = super \cup {u}
    /\ Commit(t) /\ UNCHANGED <<perm, holds, known, active, keys>>

\* create-admin for an identity without an account; promote and grant_role follow.
cmd_create_admin(t) ==
    /\ Admin(t) /\ t \in Commands
    /\ \E u \in Users \ known :
         /\ known' = known \cup {u} /\ active' = active \cup {u}
         /\ holds' = [holds EXCEPT ![u] = AutoGrant \cap rows]
    /\ UNCHANGED <<perm, codes, super, applied, keys, cache, th, writes>>

demote_check_none(t) ==
    /\ Admin(t) /\ th[t].super /\ t \in Demoters
    /\ Goto(t, "demote")
    /\ UNCHANGED <<tables, cache, writes>>

\* A superuser is demoted in two steps: the count, and the write.
demote_check(t) ==
    /\ Admin(t) /\ th[t].super /\ t \in Demoters
    /\ Cardinality(super) > 1
    /\ Goto(t, "demote")
    /\ UNCHANGED <<tables, cache, writes>>

demote(t) ==
    /\ At(t, "demote")
    /\ \E u \in known : super' = super \ {u}
    /\ Commit(t) /\ UNCHANGED <<perm, holds, known, active, keys>>

set_active(t) ==
    /\ Admin(t) /\ t \in Commands
    /\ \E u \in known : active' = IF u \in active THEN active \ {u} ELSE active \cup {u}
    /\ Commit(t) /\ UNCHANGED <<perm, holds, known, super, keys>>

\* Every signed-in caller edits keys of its own.
edit_keys(t) ==
    /\ At(t, "perform") /\ t \notin Commands /\ th[t].need = "read" /\ th[t].who # Anon
    /\ \/ keys' = keys \cup {th[t].who}
       \/ keys' = keys \ {th[t].who}
    /\ writes < MaxWrites /\ writes' = writes + 1
    /\ Done(t)
    /\ UNCHANGED <<perm, codes, holds, known, active, super, applied, cache>>

respond(t) ==
    /\ At(t, "perform") \/ At(t, "demote")
    /\ Done(t) /\ UNCHANGED <<tables, cache, writes>>

Invalidate(t) ==
    /\ At(t, "invalidate")
    /\ invalidate(t) /\ Done(t)
    /\ UNCHANGED <<tables, writes>>

\* main() of cli.py, after its own bootstrap: no guard, every right.
cli(t) ==
    /\ At(t, "idle") /\ t \in Commands
    /\ th' = [th EXCEPT ![t] = [Rest EXCEPT !.pc = "perform", !.super = TRUE]]
    /\ UNCHANGED <<tables, cache, writes>>

is_expired(u) ==
    /\ u \in keys /\ keys' = keys \ {u}
    /\ UNCHANGED <<perm, codes, holds, known, active, super, applied, cache, th, writes>>

\* A tick of the clock.  A grants query is answered within the tick it began.
Tick ==
    /\ \A t \in Threads : ~At(t, "store")
    /\ \E p \in Procs, x \in Principal : _fresh(cache[p][x])
    /\ cache' = [p \in Procs |-> [x \in Principal |->
                   [cache[p][x] EXCEPT !.age = IF @ <= TTL THEN @ + 1 ELSE @]]]
    /\ UNCHANGED <<tables, th, writes>>

-----------------------------------------------------------------------------
Age(n, ticked) == IF ticked /\ n <= TTL THEN n + 1 ELSE n
Observe(ticked) ==
    since' = [x \in Principal |-> [c \in seed_catalog |->
                IF c \in Grants(x) \cup Granted(x, perm', holds') THEN 0
                ELSE Age(since[x][c], ticked)]]

Step ==
    \/ \E p \in Procs : bootstrap(p)
    \/ \E t \in Threads :
         \/ _authenticate(t) \/ provision_user(t) \/ has_permission(t)
         \/ _grants_for_user_id(t) \/ create_role(t) \/ delete_role(t)
         \/ set_role_permissions(t) \/ grant_role(t) \/ revoke_role(t)
         \/ promote(t) \/ cmd_create_admin(t) \/ demote_check(t) \/ demote(t) \/ set_active(t)
         \/ edit_keys(t) \/ respond(t) \/ Invalidate(t) \/ cli(t)
    \/ \E u \in Users : is_expired(u)

AccessNext == (Step /\ Observe(FALSE)) \/ (Tick /\ Observe(TRUE))
AccessSpec == AccessInit /\ [][AccessNext]_accessVars

-----------------------------------------------------------------------------
(* Properties.                                                             *)

AccessTypeOK ==
    /\ perm \in [Role -> (SUBSET seed_catalog) \cup {Absent}]
    /\ codes \subseteq seed_catalog /\ holds \in [Users -> SUBSET Role]
    /\ active \subseteq known /\ super \subseteq known /\ known \subseteq Users
    /\ applied \subseteq {m.id : m \in Topups}
    /\ keys \subseteq Users
    /\ cache \in [Procs -> [Principal -> [age : 0 .. TTL + 1, grants : SUBSET seed_catalog]]]
    /\ th \in [Threads -> [pc : {"idle", "insert", "check", "store", "perform", "demote",
                                 "invalidate"},
                           who : Principal, need : seed_catalog, super : BOOLEAN,
                           held : SUBSET seed_catalog]]
    /\ writes \in 0 .. MaxWrites

\* A revoked permission lets no request through for longer than the life of a
\* cache entry, whichever process revoked it and however loads, stores and
\* invalidations of the caches interleave (CACHE_TTL_SECONDS of AuthzService).
StaleBound ==
    [][\A t \in Threads :
         /\ th[t].pc \in {"check", "store"} /\ th'[t].pc = "perform" /\ ~th[t].super
         => since[th[t].who][th[t].need] <= TTL]_accessVars

\* What an operator took from a role stays taken: once a top-up is recorded, no
\* restart of any process gives its codes back (_apply_seed_topups).  admin is
\* topped up by design.
OperatorEditsKept ==
    [][\A m \in Topups : m.id \in applied =>
         \A c \in m.add : c \notin perm[m.role] /\ c \in perm'[m.role]
            => writes' # writes]_accessVars

\* The last remaining superuser cannot be demoted (set_superuser, cmd_demote).
SuperuserRemains == super # {}
=============================================================================
