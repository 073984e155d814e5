----------------------------- MODULE AccessProofs -----------------------------
(***************************************************************************)
(* Proofs about who may do what, and about the git credential of an        *)
(* account.                                                                *)
(*                                                                         *)
(* Permissions: what a cache holds was held no longer ago than the entry   *)
(* is old, although it is stored later than it was read.                   *)
(*                                                                         *)
(* Credentials: of a token that Forgejo holds the database knows, or some  *)
(* exchange is about to store it, or it is lost; so a revoke that finds    *)
(* nothing to remove is right.                                             *)
(***************************************************************************)
EXTENDS MCAccess, FiniteSetTheorems, TLAPS

-----------------------------------------------------------------------------
(* The permission tables and their caches.                                 *)

Codes == SUBSET seed_catalog
Places == {"idle", "insert", "check", "store", "perform", "demote", "invalidate"}
ThreadState == [pc : Places, who : Principal, need : seed_catalog, super : BOOLEAN, held : Codes]
Entry == [age : 0 .. TTL + 1, grants : Codes]

\* The types, with those of what is only observed; an insert is of a real identity.
AccessTypes ==
    /\ AccessTypeOK
    /\ since \in [Principal -> [seed_catalog -> 0 .. TTL + 1]]
    /\ \A t \in Threads : At(t, "insert") => th[t].who \in Users

\* A cached code was held no longer ago than the entry is old, and what a
\* thread is about to store was held within this tick.
CachedRecently ==
    /\ \A p \in Procs, x \in Principal :
         \A c \in cache[p][x].grants : since[x][c] <= cache[p][x].age
    /\ \A t \in Threads : At(t, "store") => \A c \in th[t].held : since[th[t].who][c] = 0

\* A built-in role has a row once a top-up was recorded, and keeps it.
TopupsHaveRoles == applied # {} => Builtin \subseteq rows

\* A thread that is about to clear a flag counted two superusers.
TwoSuperusers ==
    /\ super # {}
    /\ \A t \in Threads : At(t, "demote") => t \in Demoters /\ \E a, b \in super : a # b

AccessInv == AccessTypes /\ CachedRecently /\ TopupsHaveRoles

USE AccessAssumption

-----------------------------------------------------------------------------
(* Types.                                                                  *)

LEMMA GrantedType ==
    ASSUME NEW p \in [Role -> (SUBSET seed_catalog) \cup {Absent}],
           NEW h \in [Users -> SUBSET Role], NEW x \in Principal
    PROVE  Granted(x, p, h) \in Codes
BY DEF Granted, PermsOf, Role, Builtin, Principal, AnonymousDefault, Codes

LEMMA GrantsType == ASSUME AccessTypeOK, NEW x \in Principal PROVE Grants(x) \in Codes
BY GrantedType DEF AccessTypeOK, Grants

LEMMA InvalidateType ==
    ASSUME AccessTypeOK, NEW t \in Threads, invalidate(t)
    PROVE  cache' \in [Procs -> [Principal -> Entry]]
<1>1. NoCache \in [Principal -> Entry]
  BY DEF NoCache, NoEntry, Entry, Codes
<1>2. cache \in [Procs -> [Principal -> Entry]]
  BY DEF AccessTypeOK, Entry, Codes
<1> QED BY <1>1, <1>2 DEF invalidate

LEMMA StateType ==
    ASSUME th \in [Threads -> ThreadState], NEW t \in Threads
    PROVE  /\ \A pc \in Places : Goto(t, pc) => th' \in [Threads -> ThreadState]
           /\ Done(t) => th' \in [Threads -> ThreadState]
           /\ \A u \in Users, need \in seed_catalog :
                Identified(t, u, need) => th' \in [Threads -> ThreadState]
           /\ \A need \in seed_catalog : Refused(t, need) => th' \in [Threads -> ThreadState]
<1>1. Rest \in ThreadState
  BY DEF Rest, ThreadState, Places, Principal, seed_catalog, Codes
<1>2. \A need \in seed_catalog : [Rest EXCEPT !.pc = "check", !.need = need] \in ThreadState
  BY <1>1 DEF ThreadState, Places
<1>3. Done(t) => th' \in [Threads -> ThreadState]
  BY <1>1 DEF Done
<1>4. ASSUME NEW pc \in Places, Goto(t, pc) PROVE th' \in [Threads -> ThreadState]
  <2>1. [th[t] EXCEPT !.pc = pc] \in ThreadState
    BY DEF ThreadState
  <2> QED BY <1>4, <2>1 DEF Goto
<1>5. ASSUME NEW u \in Users, NEW need \in seed_catalog, Identified(t, u, need)
      PROVE  th' \in [Threads -> ThreadState]
  <2>1. [pc |-> "check", who |-> u, need |-> need, super |-> u \in super, held |-> {}]
          \in ThreadState
    BY DEF ThreadState, Places, Principal, Codes
  <2> QED BY <1>5, <2>1 DEF Identified
<1>6. \A need \in seed_catalog : Refused(t, need) => th' \in [Threads -> ThreadState]
  BY <1>2, <1>3 DEF Refused
<1> QED BY <1>3, <1>4, <1>5, <1>6

PermTable == [Role -> (SUBSET seed_catalog) \cup {Absent}]

\* A restart gives every built-in role a set of codes of the catalogue.
LEMMA BootTables ==
    ASSUME AccessTypeOK, NEW p \in Procs, bootstrap(p)
    PROVE  /\ perm' \in PermTable
           /\ codes' \subseteq seed_catalog
           /\ applied' = {m.id : m \in Topups}
           /\ \A r \in Builtin : perm'[r] # Absent
<1>1. AllCodes \subseteq seed_catalog
  BY DEF AccessTypeOK, AllCodes
<1>2. \A r \in Role : r \in Builtin => Seeded[r] \in Codes
  BY <1>1 DEF AccessTypeOK, Seeded, Seed, Builtin, Codes, Role, Absent, seed_catalog
<1>3. Seeded["custom"] = perm["custom"]
  BY DEF Seeded, Role, Builtin
<1>4. \A m \in Topups : m.add \subseteq seed_catalog /\ m.role \in Builtin
  BY DEF Topups, seed_catalog, Builtin
<1>5. /\ \A r \in Builtin : perm'[r] \in Codes
      /\ perm'["custom"] = perm["custom"]
      /\ DOMAIN perm' = Role /\ perm' = [r \in Role |-> perm'[r]]
      /\ applied' = applied \cup {m.id : m \in Topups}
  <2> DEFINE Missing(r) == UNION {m.add : m \in {n \in Topups : n.role = r /\ n.id \notin applied}}
  <2>1. /\ perm' = [r \in Role |-> Seeded[r] \cup Missing(r)]
        /\ applied' = applied \cup {m.id : m \in Topups}
    BY DEF bootstrap, _apply_seed_topups
  <2>2. \A r \in Role : Missing(r) \in Codes
    BY <1>4 DEF Codes
  <2>3. Missing("custom") = {}
    BY DEF Topups
  <2>4. Builtin \subseteq Role /\ "custom" \in Role
    BY DEF Role
  <2> HIDE DEF Missing
  <2> QED BY <1>2, <1>3, <2>1, <2>2, <2>3, <2>4 DEF Codes
<1>6. perm["custom"] \in (SUBSET seed_catalog) \cup {Absent}
  BY DEF AccessTypeOK, Role
<1>7. perm' \in PermTable
  BY <1>5, <1>6 DEF PermTable, Codes, Role
<1>8. \A r \in Builtin : perm'[r] # Absent
  BY <1>5 DEF Codes, Absent, seed_catalog
<1> QED BY <1>1, <1>5, <1>7, <1>8 DEF bootstrap, AccessTypeOK

\* What a step other than a tick does to the tables and the threads.
LEMMA StepTypes ==
    ASSUME AccessTypes, Step
    PROVE  /\ perm' \in PermTable /\ codes' \subseteq seed_catalog
           /\ holds' \in [Users -> SUBSET Role]
           /\ active' \subseteq known' /\ super' \subseteq known' /\ known' \subseteq Users
           /\ applied' \subseteq {m.id : m \in Topups}
           /\ keys' \subseteq Users
           /\ cache' \in [Procs -> [Principal -> Entry]]
           /\ th' \in [Threads -> ThreadState]
           /\ writes' \in 0 .. MaxWrites
           /\ \A t \in Threads : At(t, "insert")' => th'[t].who \in Users
<1> DEFINE Goal == /\ perm' \in PermTable /\ codes' \subseteq seed_catalog
                   /\ holds' \in [Users -> SUBSET Role]
                   /\ active' \subseteq known' /\ super' \subseteq known' /\ known' \subseteq Users
                   /\ applied' \subseteq {m.id : m \in Topups}
                   /\ keys' \subseteq Users
                   /\ cache' \in [Procs -> [Principal -> Entry]]
                   /\ th' \in [Threads -> ThreadState]
                   /\ writes' \in 0 .. MaxWrites
                   /\ \A t \in Threads : At(t, "insert")' => th'[t].who \in Users
<1>0. /\ perm \in PermTable /\ codes \subseteq seed_catalog
      /\ holds \in [Users -> SUBSET Role]
      /\ active \subseteq known /\ super \subseteq known /\ known \subseteq Users
      /\ applied \subseteq {m.id : m \in Topups}
      /\ keys \subseteq Users
      /\ cache \in [Procs -> [Principal -> Entry]]
      /\ th \in [Threads -> ThreadState]
      /\ writes \in 0 .. MaxWrites
      /\ \A t \in Threads : At(t, "insert") => th[t].who \in Users
      /\ AccessTypeOK
  BY DEF AccessTypes, AccessTypeOK, PermTable, Entry, ThreadState, Codes, Places
<1>1. rows \subseteq Role /\ AutoGrant \subseteq Role /\ seed_catalog \subseteq {"read", "roles"}
  BY DEF rows, AutoGrant, Role, Builtin, seed_catalog
<1> USE <1>0
<1>2. ASSUME NEW p \in Procs, bootstrap(p) PROVE Goal
  <2>1. Rest \in ThreadState /\ Rest.pc # "insert"
    BY DEF Rest, ThreadState, Places, Principal, seed_catalog, Codes
  <2>2. th' \in [Threads -> ThreadState] /\ \A t \in Threads : At(t, "insert")' => th'[t].who \in Users
    BY <1>2, <2>1 DEF bootstrap, At
  <2>3. NoCache \in [Principal -> Entry]
    BY DEF NoCache, NoEntry, Entry, Codes
  <2>4. cache' \in [Procs -> [Principal -> Entry]]
    BY <1>2, <2>3 DEF bootstrap
  <2> QED BY <1>2, <2>2, <2>4, BootTables DEF bootstrap
<1>3. ASSUME NEW u \in Users, is_expired(u) PROVE Goal
  BY <1>3 DEF is_expired, At
<1>4. ASSUME NEW t \in Threads, th' \in [Threads -> ThreadState],
             th' = [th EXCEPT ![t] = th'[t]], th'[t].pc # "insert"
      PROVE  \A x \in Threads : At(x, "insert")' => th'[x].who \in Users
  BY <1>4 DEF At
<1>5. ASSUME NEW t \in Threads
      PROVE  /\ \A pc \in Places \ {"insert"} : Goto(t, pc) => \A x \in Threads : At(x, "insert")' => th'[x].who \in Users
             /\ Done(t) => \A x \in Threads : At(x, "insert")' => th'[x].who \in Users
             /\ \A u \in Users, need \in seed_catalog :
                  Identified(t, u, need) => \A x \in Threads : At(x, "insert")' => th'[x].who \in Users
             /\ \A need \in seed_catalog : Refused(t, need) => \A x \in Threads : At(x, "insert")' => th'[x].who \in Users
  <2>1. \A pc \in Places \ {"insert"} : Goto(t, pc) => \A x \in Threads : At(x, "insert")' => th'[x].who \in Users
    BY DEF Goto, At, ThreadState
  <2>2. Done(t) => \A x \in Threads : At(x, "insert")' => th'[x].who \in Users
    BY DEF Done, At, Rest
  <2>3. \A u \in Users, need \in seed_catalog :
          Identified(t, u, need) => \A x \in Threads : At(x, "insert")' => th'[x].who \in Users
    BY DEF Identified, At
  <2>4. \A need \in seed_catalog : Refused(t, need) => \A x \in Threads : At(x, "insert")' => th'[x].who \in Users
    BY <2>2 DEF Refused, At, Rest
  <2> QED BY <2>1, <2>2, <2>3, <2>4
<1>6. ASSUME NEW t \in Threads, _authenticate(t) PROVE Goal
  <2>1. PICK u \in Users, need \in seed_catalog :
          \/ try_api_key(t, u, need)
          \/ try_session(t, u, need)
          \/ provision_known(t, u, need)
          \/ provision_missing(t, u, need)
          \/ Refused(t, need) /\ UNCHANGED <<tables, cache, writes>>
    BY <1>6 DEF _authenticate
  <2>2. CASE \/ Identified(t, u, need) \/ Refused(t, need)
    BY <2>1, <2>2, <1>5, StateType, InvalidateType
       DEF try_api_key, try_session, provision_known, provision_missing, tables
  <2>3. CASE provision_missing(t, u, need)
    <3>1. [Rest EXCEPT !.pc = "insert", !.who = u, !.need = need] \in ThreadState
      BY DEF Rest, ThreadState, Places, Principal, Codes
    <3> QED BY <2>3, <3>1 DEF provision_missing, tables, At
  <2> QED BY <2>1, <2>2, <2>3 DEF try_api_key, try_session, provision_known, _identify_existing
<1>7. ASSUME NEW t \in Threads, provision_user(t) PROVE Goal
  <2>1. th[t].who \in Users /\ th[t].need \in seed_catalog
    BY <1>7 DEF provision_user, ThreadState
  <2>2. Identified(t, th[t].who, th[t].need) \/ Refused(t, th[t].need)
    BY <1>7 DEF provision_user, _identify_existing
  <2>3. cache' \in [Procs -> [Principal -> Entry]]
    BY <1>7, InvalidateType DEF provision_user
  <2>4. th' \in [Threads -> ThreadState] /\ \A x \in Threads : At(x, "insert")' => th'[x].who \in Users
    BY <2>1, <2>2, <1>5, StateType
  <2> QED BY <1>7, <1>1, <2>1, <2>3, <2>4 DEF provision_user
<1>8. ASSUME NEW t \in Threads, has_permission(t) PROVE Goal
  <2>1. UNCHANGED <<tables, cache, writes>>
    BY <1>8 DEF has_permission
  <2>2. CASE \/ Goto(t, "perform") \/ Done(t)
    BY <2>1, <2>2, <1>5, StateType DEF tables, Places
  <2>3. CASE th' = [th EXCEPT ![t].pc = "store", ![t].held = Grants(th[t].who)]
    <3>1. Grants(th[t].who) \in Codes
      BY GrantsType DEF ThreadState
    <3>2. [th[t] EXCEPT !.pc = "store", !.held = Grants(th[t].who)] \in ThreadState
      BY <3>1 DEF ThreadState, Places
    <3>3. th' = [th EXCEPT ![t] = [th[t] EXCEPT !.pc = "store", !.held = Grants(th[t].who)]]
      BY <2>3
    <3> QED BY <2>1, <3>2, <3>3, <1>4 DEF tables, ThreadState
  <2> QED BY <1>8, <2>2, <2>3 DEF has_permission, Decide
<1>9. ASSUME NEW t \in Threads, _grants_for_user_id(t) PROVE Goal
  <2>1. [age |-> 0, grants |-> th[t].held] \in Entry /\ th[t].who \in Principal
    BY DEF Entry, ThreadState
  <2>2. cache' \in [Procs -> [Principal -> Entry]]
    <3>1. [cache[ProcOf[t]] EXCEPT ![th[t].who] = [age |-> 0, grants |-> th[t].held]] \in [Principal -> Entry]
      BY <2>1
    <3>2. cache' = [cache EXCEPT ![ProcOf[t]] = [cache[ProcOf[t]] EXCEPT ![th[t].who] = [age |-> 0, grants |-> th[t].held]]]
      BY <1>9 DEF _grants_for_user_id
    <3> QED BY <3>1, <3>2
  <2> QED BY <1>9, <2>2, <1>5, StateType DEF _grants_for_user_id, Decide, tables, Places
<1>10. ASSUME NEW t \in Threads,
              \/ create_role(t) \/ delete_role(t) \/ set_role_permissions(t) \/ grant_role(t)
              \/ revoke_role(t) \/ promote(t) \/ demote(t) \/ set_active(t)
       PROVE Goal
  <2>1. /\ Goto(t, "invalidate") /\ cache' = cache /\ applied' = applied /\ writes' \in 0 .. MaxWrites
        /\ codes' \subseteq seed_catalog
    BY <1>10 DEF create_role, delete_role, set_role_permissions, grant_role, revoke_role, promote,
                 demote, set_active, Commit
  <2>2. th' \in [Threads -> ThreadState] /\ \A x \in Threads : At(x, "insert")' => th'[x].who \in Users
    BY <2>1, <1>5, StateType DEF Places
  <2>3. perm' \in PermTable
    <3>1. \/ perm' = perm
          \/ \E r \in Role, new \in (SUBSET seed_catalog) \cup {Absent} : perm' = [perm EXCEPT ![r] = new]
      BY <1>10, <1>1 DEF create_role, delete_role, set_role_permissions, grant_role, revoke_role,
                   promote, demote, set_active, Role
    <3> QED BY <3>1 DEF PermTable
  <2>4. holds' \in [Users -> SUBSET Role] /\ known' = known /\ keys' = keys
    BY <1>10, <1>1 DEF create_role, delete_role, set_role_permissions, grant_role, revoke_role, promote,
                 demote, set_active
  <2>5. active' \subseteq known /\ super' \subseteq known
    BY <1>10 DEF create_role, delete_role, set_role_permissions, grant_role, revoke_role, promote,
                 demote, set_active
  <2> QED BY <2>1, <2>2, <2>3, <2>4, <2>5
<1>11. ASSUME NEW t \in Threads, cmd_create_admin(t) PROVE Goal
  BY <1>11, <1>1 DEF cmd_create_admin, At
<1>12. ASSUME NEW t \in Threads, \/ demote_check(t) \/ edit_keys(t) \/ respond(t) PROVE Goal
  <2>1. Goto(t, "demote") \/ Done(t)
    BY <1>12 DEF demote_check, edit_keys, respond
  <2>2. th' \in [Threads -> ThreadState] /\ \A x \in Threads : At(x, "insert")' => th'[x].who \in Users
    BY <2>1, <1>5, StateType DEF Places
  <2>3. th[t].who \in Users \cup {Anon}
    BY DEF ThreadState, Principal
  <2> QED BY <1>12, <2>2, <2>3 DEF demote_check, edit_keys, respond, tables
<1>13. ASSUME NEW t \in Threads, Invalidate(t) PROVE Goal
  BY <1>13, <1>5, StateType, InvalidateType DEF Invalidate, tables
<1>14. ASSUME NEW t \in Threads, cli(t) PROVE Goal
  <2>1. [Rest EXCEPT !.pc = "perform", !.super = TRUE] \in ThreadState
    BY DEF Rest, ThreadState, Places, Principal, Codes, seed_catalog
  <2> QED BY <1>14, <2>1, <1>4 DEF cli, tables, Rest
<1> QED BY <1>2, <1>3, <1>6, <1>7, <1>8, <1>9, <1>10, <1>11, <1>12, <1>13, <1>14 DEF Step

\* What is observed only falls while the clock stands still.
LEMMA ObserveType ==
    ASSUME AccessTypes, NEW ticked \in BOOLEAN, Observe(ticked)
    PROVE  /\ since' \in [Principal -> [seed_catalog -> 0 .. TTL + 1]]
           /\ \A x \in Principal, c \in seed_catalog :
                /\ c \in Grants(x) => since'[x][c] = 0
                /\ ~ticked => since'[x][c] <= since[x][c]
                /\ since'[x][c] <= since[x][c] + 1
<1>1. \A n \in 0 .. TTL + 1 : Age(n, ticked) \in 0 .. TTL + 1 /\ Age(n, ticked) <= n + 1
                              /\ (~ticked => Age(n, ticked) = n)
  BY DEF Age
<1>2. \A x \in Principal, c \in seed_catalog : since[x][c] \in 0 .. TTL + 1
  BY DEF AccessTypes
<1>3. \A x \in Principal, c \in seed_catalog :
        since'[x][c] = IF c \in Grants(x) \cup Granted(x, perm', holds') THEN 0
                       ELSE Age(since[x][c], ticked)
  BY DEF Observe
<1>4. \A x \in Principal, c \in seed_catalog : since'[x][c] \in 0 .. TTL + 1
  BY <1>1, <1>2, <1>3
<1>5. since' \in [Principal -> [seed_catalog -> 0 .. TTL + 1]]
  BY <1>3, <1>4 DEF Observe
<1> HIDE DEF AccessAssumption
<1>6. \A x \in Principal, c \in seed_catalog :
        /\ c \in Grants(x) => since'[x][c] = 0
        /\ ~ticked => since'[x][c] <= since[x][c]
        /\ since'[x][c] <= since[x][c] + 1
  BY <1>1, <1>2, <1>3, AccessAssumption DEF AccessAssumption
<1> QED BY <1>5, <1>6

\* What the thread of a step looks like after it.
LEMMA ThreadStep ==
    ASSUME AccessTypes, Step, NEW t \in Threads
    PROVE  /\ At(t, "store")' => \/ th'[t] = th[t]
                                 \/ th'[t].who = th[t].who /\ th'[t].held = Grants(th[t].who)
           /\ th[t].pc \in {"check", "store"} /\ th'[t].pc = "perform" /\ ~th[t].super
                => \/ /\ _fresh(cache[ProcOf[t]][th[t].who])
                      /\ th[t].need \in cache[ProcOf[t]][th[t].who].grants
                   \/ At(t, "store") /\ th[t].need \in th[t].held
           /\ At(t, "demote")' => \/ At(t, "demote")
                                  \/ t \in Demoters /\ Cardinality(super) > 1
<1> DEFINE Goal(x) ==
           /\ At(x, "store")' => \/ th'[x] = th[x]
                                 \/ th'[x].who = th[x].who /\ th'[x].held = Grants(th[x].who)
           /\ th[x].pc \in {"check", "store"} /\ th'[x].pc = "perform" /\ ~th[x].super
                => \/ /\ _fresh(cache[ProcOf[x]][th[x].who])
                      /\ th[x].need \in cache[ProcOf[x]][th[x].who].grants
                   \/ At(x, "store") /\ th[x].need \in th[x].held
           /\ At(x, "demote")' => \/ At(x, "demote")
                                  \/ x \in Demoters /\ Cardinality(super) > 1
<1>0. th \in [Threads -> ThreadState]
  BY DEF AccessTypes, AccessTypeOK, ThreadState, Places, Codes
<1>1. ASSUME th'[t] = th[t] PROVE Goal(t)
  BY <1>1 DEF At
<1>2. ASSUME NEW p \in Procs, bootstrap(p) PROVE Goal(t)
  <2>1. th'[t] = th[t] \/ th'[t] = Rest
    BY <1>2 DEF bootstrap
  <2> QED BY <1>1, <2>1 DEF Rest, At
<1>3. ASSUME NEW u \in Users, is_expired(u) PROVE Goal(t)
  BY <1>1, <1>3 DEF is_expired
<1>4. SUFFICES ASSUME NEW x \in Threads,
                 \/ _authenticate(x) \/ provision_user(x) \/ has_permission(x)
                 \/ _grants_for_user_id(x) \/ create_role(x) \/ delete_role(x)
                 \/ set_role_permissions(x) \/ grant_role(x) \/ revoke_role(x)
                 \/ promote(x) \/ cmd_create_admin(x) \/ demote_check(x) \/ demote(x)
                 \/ set_active(x) \/ edit_keys(x) \/ respond(x) \/ Invalidate(x) \/ cli(x)
               PROVE  Goal(t)
  BY <1>2, <1>3 DEF Step
<1>5. CASE x # t
  <2>1. th'[t] = th[t]
    BY <1>0, <1>4, <1>5 DEF _authenticate, provision_user, has_permission, _grants_for_user_id,
         create_role, delete_role, set_role_permissions, grant_role, revoke_role, promote,
         cmd_create_admin, demote_check, demote, set_active, edit_keys, respond, Invalidate, cli,
         try_api_key, try_session, provision_known, provision_missing, _identify_existing,
         Identified, Refused, Done, Goto, Decide, Commit
  <2> QED BY <1>1, <2>1
<1>6. CASE x = t
  <2>a. Done(t) => th'[t].pc = "idle"
    BY <1>0 DEF Done, Rest
  <2>b. \A pc \in Places : Goto(t, pc) => th'[t].pc = pc
    BY <1>0 DEF Goto, ThreadState
  <2>1. CASE has_permission(t)
    <3>1. CASE Goto(t, "perform") /\ th[t].super
      <4>1. th'[t].pc = "perform"
        BY <3>1, <2>b DEF Places
      <4> QED BY <3>1, <4>1 DEF At
    <3>2. CASE _fresh(cache[ProcOf[t]][th[t].who]) /\ Decide(t, cache[ProcOf[t]][th[t].who].grants)
      <4>1. CASE th[t].need \in cache[ProcOf[t]][th[t].who].grants
        <5>1. th'[t].pc = "perform"
          BY <3>2, <4>1, <2>b DEF Decide, Places
        <5> QED BY <3>2, <4>1, <5>1 DEF At
      <4>2. CASE th[t].need \notin cache[ProcOf[t]][th[t].who].grants
        <5>1. th'[t].pc = "idle"
          BY <3>2, <4>2, <2>a DEF Decide
        <5> QED BY <5>1 DEF At
      <4> QED BY <4>1, <4>2
    <3>3. CASE th' = [th EXCEPT ![t].pc = "store", ![t].held = Grants(th[t].who)]
      <4>1. th'[t].pc = "store" /\ th'[t].who = th[t].who /\ th'[t].held = Grants(th[t].who)
        BY <1>0, <3>3 DEF ThreadState
      <4> QED BY <4>1 DEF At
    <3> QED BY <2>1, <3>1, <3>2, <3>3 DEF has_permission
  <2>2. CASE _grants_for_user_id(t)
    <3>1. CASE th[t].need \in th[t].held
      <4>1. th'[t].pc = "perform" /\ At(t, "store")
        BY <2>2, <3>1, <2>b DEF _grants_for_user_id, Decide, Places
      <4> QED BY <3>1, <4>1 DEF At
    <3>2. CASE th[t].need \notin th[t].held
      <4>1. th'[t].pc = "idle"
        BY <2>2, <3>2, <2>a DEF _grants_for_user_id, Decide
      <4> QED BY <4>1 DEF At
    <3> QED BY <3>1, <3>2
  <2>3. CASE \/ _authenticate(t) \/ provision_user(t)
    <3>1. th'[t].pc \in {"check", "idle", "insert"}
      <4>1. \A u, need : Identified(t, u, need) => th'[t].pc = "check"
        BY <1>0 DEF Identified
      <4>2. \A need : Refused(t, need) => th'[t].pc \in {"check", "idle"}
        BY <1>0, <2>a DEF Refused, Rest
      <4>3. \A u, need : provision_missing(t, u, need) => th'[t].pc = "insert"
        BY <1>0 DEF provision_missing, Rest
      <4> QED BY <2>3, <4>1, <4>2, <4>3 DEF _authenticate, provision_user, try_api_key,
                 try_session, provision_known, _identify_existing
    <3> QED BY <3>1 DEF At
  <2>4. CASE \/ create_role(t) \/ delete_role(t) \/ set_role_permissions(t) \/ grant_role(t)
             \/ revoke_role(t) \/ promote(t) \/ demote(t) \/ set_active(t)
    <3>1. th'[t].pc = "invalidate"
      BY <2>4, <2>b DEF create_role, delete_role, set_role_permissions, grant_role, revoke_role,
           promote, demote, set_active, Commit, Places
    <3> QED BY <3>1 DEF At
  <2>5. CASE \/ edit_keys(t) \/ respond(t) \/ Invalidate(t)
    <3>1. th'[t].pc = "idle"
      BY <2>5, <2>a DEF edit_keys, respond, Invalidate
    <3> QED BY <3>1 DEF At
  <2>6. CASE demote_check(t)
    BY <1>0, <2>6 DEF demote_check, Goto, At, ThreadState
  <2>7. CASE cli(t)
    BY <1>0, <2>7 DEF cli, At, Rest
  <2>8. CASE cmd_create_admin(t)
    BY <1>1, <2>8 DEF cmd_create_admin
  <2> QED BY <1>4, <1>6, <2>1, <2>2, <2>3, <2>4, <2>5, <2>6, <2>7, <2>8
<1> QED BY <1>5, <1>6

\* An entry of a cache stays, is dropped, or is what a thread had read.
LEMMA CacheStep ==
    ASSUME AccessTypes, Step, NEW p \in Procs, NEW x \in Principal
    PROVE  \/ cache'[p][x] = cache[p][x]
           \/ cache'[p][x] = NoEntry
           \/ \E t \in Threads : /\ At(t, "store") /\ x = th[t].who
                                 /\ cache'[p][x] = [age |-> 0, grants |-> th[t].held]
<1>1. cache \in [Procs -> [Principal -> Entry]]
  BY DEF AccessTypes, AccessTypeOK, Entry, Codes
<1>2. ASSUME NEW t \in Threads, invalidate(t)
      PROVE  cache'[p][x] = cache[p][x] \/ cache'[p][x] = NoEntry
  BY <1>1, <1>2 DEF invalidate, NoCache
<1>3. CASE \E q \in Procs : bootstrap(q)
  BY <1>1, <1>3 DEF bootstrap, NoCache
<1>4. CASE \E t \in Threads : _grants_for_user_id(t)
  BY <1>1, <1>4 DEF _grants_for_user_id
<1>5. CASE \E t \in Threads : _authenticate(t) \/ provision_user(t) \/ Invalidate(t)
  <2>1. cache' = cache \/ \E t \in Threads : invalidate(t)
    BY <1>5 DEF _authenticate, provision_user, Invalidate, try_api_key, try_session,
         provision_known, provision_missing
  <2> QED BY <1>2, <2>1
<1>6. CASE \/ \E u \in Users : is_expired(u)
           \/ \E t \in Threads :
                 \/ has_permission(t) \/ create_role(t) \/ delete_role(t)
                 \/ set_role_permissions(t) \/ grant_role(t) \/ revoke_role(t)
                 \/ promote(t) \/ cmd_create_admin(t) \/ demote_check(t) \/ demote(t)
                 \/ set_active(t) \/ edit_keys(t) \/ respond(t) \/ cli(t)
  <2>1. cache' = cache
    BY <1>6 DEF is_expired, has_permission, create_role, delete_role, set_role_permissions,
         grant_role, revoke_role, promote, cmd_create_admin, demote_check, demote, set_active,
         edit_keys, respond, cli, Commit
  <2> QED BY <2>1
<1> QED BY <1>3, <1>4, <1>5, <1>6 DEF Step

LEMMA TickTypes == ASSUME AccessTypes, Tick PROVE cache' \in [Procs -> [Principal -> Entry]]
<1>1. \A p \in Procs, x \in Principal : cache[p][x] \in Entry
  BY DEF AccessTypes, AccessTypeOK, Entry, Codes
<1>2. \A e \in Entry : [e EXCEPT !.age = IF @ <= TTL THEN @ + 1 ELSE @] \in Entry
  BY DEF Entry
<1> QED BY <1>1, <1>2 DEF Tick

LEMMA TypesNext == ASSUME AccessTypes, [AccessNext]_accessVars PROVE AccessTypes'
<1>1. CASE Step /\ Observe(FALSE)
  BY <1>1, StepTypes, ObserveType
     DEF AccessTypes, AccessTypeOK, PermTable, Entry, ThreadState, Codes, Places
<1>2. CASE Tick /\ Observe(TRUE)
  <2>1. since' \in [Principal -> [seed_catalog -> 0 .. TTL + 1]]
    BY <1>2, ObserveType
  <2>2. AccessTypeOK'
    BY <1>2, TickTypes DEF AccessTypes, AccessTypeOK, Tick, tables, Entry, Codes
  <2>3. \A t \in Threads : At(t, "insert")' => th'[t].who \in Users
    BY <1>2 DEF AccessTypes, Tick, At
  <2> QED BY <2>1, <2>2, <2>3 DEF AccessTypes
<1>3. CASE UNCHANGED accessVars
  BY <1>3 DEF AccessTypes, AccessTypeOK, accessVars, tables, At
<1> QED BY <1>1, <1>2, <1>3 DEF AccessNext

LEMMA CachedNext ==
    ASSUME AccessTypes, CachedRecently, [AccessNext]_accessVars PROVE CachedRecently'
<1>0. /\ \A p \in Procs, x \in Principal : cache[p][x] \in Entry
      /\ \A t \in Threads : th[t] \in ThreadState
      /\ since \in [Principal -> [seed_catalog -> 0 .. TTL + 1]]
  BY DEF AccessTypes, AccessTypeOK, Entry, ThreadState, Codes, Places
<1>a. AccessTypes'
  BY TypesNext
<1>b. /\ \A p \in Procs, x \in Principal : cache'[p][x] \in Entry
      /\ \A t \in Threads : th'[t] \in ThreadState
      /\ since' \in [Principal -> [seed_catalog -> 0 .. TTL + 1]]
  BY <1>a DEF AccessTypes, AccessTypeOK, Entry, ThreadState, Codes, Places
<1>1. CASE Step /\ Observe(FALSE)
  <2>1. \A x \in Principal, c \in seed_catalog :
          (c \in Grants(x) => since'[x][c] = 0) /\ since'[x][c] <= since[x][c]
    BY <1>1, ObserveType
  <2>2. ASSUME NEW p \in Procs, NEW x \in Principal, NEW c \in cache'[p][x].grants
        PROVE  since'[x][c] <= cache'[p][x].age
    <3>1. c \in seed_catalog
      BY <1>b, <2>2 DEF Entry, Codes
    <3>2. CASE cache'[p][x] = cache[p][x]
      <4>1. since[x][c] <= cache[p][x].age
        BY <2>2, <3>2 DEF CachedRecently
      <4>2. since[x][c] \in Nat /\ since'[x][c] \in Nat /\ cache[p][x].age \in Nat
        BY <1>0, <1>b, <3>1 DEF Entry
      <4> QED BY <2>1, <3>1, <3>2, <4>1, <4>2
    <3>3. CASE cache'[p][x] = NoEntry
      BY <2>2, <3>3 DEF NoEntry
    <3>4. ASSUME NEW t \in Threads, At(t, "store"), x = th[t].who,
                 cache'[p][x] = [age |-> 0, grants |-> th[t].held]
          PROVE  since'[x][c] <= cache'[p][x].age
      <4>1. since[x][c] = 0 /\ cache'[p][x].age = 0
        BY <2>2, <3>4 DEF CachedRecently
      <4>2. since'[x][c] \in Nat
        BY <1>b, <3>1
      <4> QED BY <2>1, <3>1, <4>1, <4>2
    <3> QED BY <1>1, <3>2, <3>3, <3>4, CacheStep
  <2>3. ASSUME NEW t \in Threads, At(t, "store")', NEW c \in th'[t].held
        PROVE  since'[th'[t].who][c] = 0
    <3>1. c \in seed_catalog /\ th'[t].who \in Principal /\ th[t].who \in Principal
      BY <1>0, <1>b DEF ThreadState, Codes
    <3>2. CASE th'[t] = th[t]
      <4>1. since[th[t].who][c] = 0
        BY <2>3, <3>2 DEF CachedRecently, At
      <4>2. since'[th[t].who][c] \in Nat
        BY <1>b, <3>1
      <4> QED BY <2>1, <3>1, <3>2, <4>1, <4>2
    <3>3. CASE th'[t].who = th[t].who /\ th'[t].held = Grants(th[t].who)
      BY <2>1, <3>1, <3>3
    <3> QED BY <1>1, <2>3, <3>2, <3>3, ThreadStep
  <2> QED BY <2>2, <2>3 DEF CachedRecently
<1>2. CASE Tick /\ Observe(TRUE)
  <2>1. \A t \in Threads : ~At(t, "store")'
    BY <1>2 DEF Tick, At
  <2>2. ASSUME NEW p \in Procs, NEW x \in Principal, NEW c \in cache'[p][x].grants
        PROVE  since'[x][c] <= cache'[p][x].age
    <3>1. cache'[p][x] = [cache[p][x] EXCEPT !.age = IF @ <= TTL THEN @ + 1 ELSE @]
      BY <1>2 DEF Tick
    <3>2. /\ c \in cache[p][x].grants /\ c \in seed_catalog
          /\ cache'[p][x].age = IF cache[p][x].age <= TTL THEN cache[p][x].age + 1
                                ELSE cache[p][x].age
          /\ cache[p][x].age \in 0 .. TTL + 1
      BY <1>0, <3>1 DEF Entry, Codes
    <3>3. since[x][c] <= cache[p][x].age
      BY <3>2 DEF CachedRecently
    <3>4. since'[x][c] <= since[x][c] + 1
      BY <1>2, <3>2, ObserveType
    <3>5. since[x][c] \in 0 .. TTL + 1 /\ since'[x][c] \in 0 .. TTL + 1
      BY <1>0, <1>b, <3>2
    <3> QED BY <3>2, <3>3, <3>4, <3>5
  <2> QED BY <2>1, <2>2 DEF CachedRecently
<1>3. CASE UNCHANGED accessVars
  BY <1>3 DEF CachedRecently, accessVars, At
<1> QED BY <1>1, <1>2, <1>3 DEF AccessNext

\* Outside a restart, a role's codes change only with a counted write, and no
\* built-in role is lost.
LEMMA EditedRoles ==
    ASSUME AccessTypes, Step, ~\E p \in Procs : bootstrap(p)
    PROVE  /\ applied' = applied
           /\ \A r \in Builtin : perm[r] # Absent => perm'[r] # Absent
           /\ perm' # perm => writes' # writes
<1>0. perm \in PermTable /\ writes \in Nat
  BY DEF AccessTypes, AccessTypeOK, PermTable
<1>1. CASE \E t \in Threads : create_role(t) \/ delete_role(t) \/ set_role_permissions(t)
  <2>1. writes' = writes + 1 /\ applied' = applied
    BY <1>1 DEF create_role, delete_role, set_role_permissions, Commit
  <2>2. \/ \E r \in Role \ Builtin : \E new : perm' = [perm EXCEPT ![r] = new]
        \/ \E r \in Role, new \in Codes : perm' = [perm EXCEPT ![r] = new]
    BY <1>1 DEF create_role, delete_role, set_role_permissions, rows, Codes, Role, Builtin
  <2>3. \A new \in Codes : new # Absent
    BY DEF Codes, seed_catalog, Absent
  <2>4. \A r \in Builtin : perm[r] # Absent => perm'[r] # Absent
    <3>1. ASSUME NEW r \in Role \ Builtin, NEW new, perm' = [perm EXCEPT ![r] = new]
          PROVE  \A b \in Builtin : perm'[b] = perm[b]
      BY <1>0, <3>1 DEF PermTable, Role
    <3>2. ASSUME NEW r \in Role, NEW new \in Codes, perm' = [perm EXCEPT ![r] = new]
          PROVE  \A b \in Builtin : perm'[b] = perm[b] \/ perm'[b] = new
      BY <1>0, <3>2 DEF PermTable, Role
    <3> QED BY <2>2, <2>3, <3>1, <3>2
  <2> QED BY <1>0, <2>1, <2>4
<1>2. CASE \/ \E u \in Users : is_expired(u)
           \/ \E t \in Threads :
                 \/ _authenticate(t) \/ provision_user(t) \/ has_permission(t)
                 \/ _grants_for_user_id(t) \/ grant_role(t) \/ revoke_role(t)
                 \/ promote(t) \/ cmd_create_admin(t) \/ demote_check(t) \/ demote(t)
                 \/ set_active(t) \/ edit_keys(t) \/ respond(t) \/ Invalidate(t) \/ cli(t)
  <2>1. perm' = perm /\ applied' = applied
    BY <1>2 DEF is_expired, _authenticate, provision_user, has_permission, _grants_for_user_id,
         grant_role, revoke_role, promote, cmd_create_admin, demote_check, demote, set_active,
         edit_keys, respond, Invalidate, cli, try_api_key, try_session, provision_known,
         provision_missing, Commit, tables
  <2> QED BY <2>1
<1> QED BY <1>1, <1>2 DEF Step

LEMMA TopupsNext ==
    ASSUME AccessTypes, TopupsHaveRoles, [AccessNext]_accessVars PROVE TopupsHaveRoles'
<1>0. Builtin \subseteq Role
  BY DEF Role
<1>1. CASE \E p \in Procs : bootstrap(p)
  <2>1. \A r \in Builtin : perm'[r] # Absent
    BY <1>1, BootTables DEF AccessTypes
  <2> QED BY <1>0, <2>1 DEF TopupsHaveRoles, rows
<1>2. CASE Step /\ ~\E p \in Procs : bootstrap(p)
  <2>1. applied' = applied /\ \A r \in Builtin : perm[r] # Absent => perm'[r] # Absent
    BY <1>2, EditedRoles
  <2> QED BY <1>0, <2>1 DEF TopupsHaveRoles, rows
<1>3. CASE Tick \/ UNCHANGED accessVars
  BY <1>3 DEF Tick, accessVars, tables, TopupsHaveRoles, rows
<1> QED BY <1>1, <1>2, <1>3 DEF AccessNext

LEMMA AccessInitial == ASSUME AccessInit PROVE AccessInv
<1>1. Rest \in ThreadState /\ Rest.pc = "idle"
  BY DEF Rest, ThreadState, Places, Principal, seed_catalog, Codes
<1>2. NoCache \in [Principal -> Entry] /\ \A x \in Principal : NoCache[x].grants = {}
  BY DEF NoCache, NoEntry, Entry, Codes
<1>3. perm \in PermTable
  BY DEF AccessInit, PermTable, Absent, Role, Builtin, seed_catalog
<1>4. AccessTypeOK
  BY <1>1, <1>2, <1>3 DEF AccessInit, AccessTypeOK, PermTable, Entry, ThreadState, Places, Codes, Topups
<1>5. since \in [Principal -> [seed_catalog -> 0 .. TTL + 1]]
  BY DEF AccessInit
<1>6. AccessTypes
  BY <1>1, <1>4, <1>5 DEF AccessTypes, AccessInit, At
<1>7. CachedRecently
  BY <1>1, <1>2 DEF CachedRecently, AccessInit, At
<1> QED BY <1>6, <1>7 DEF AccessInv, TopupsHaveRoles, AccessInit

LEMMA AccessAlways == AccessSpec => []AccessInv
<1>1. AccessInit => AccessInv
  BY AccessInitial
<1>2. AccessInv /\ [AccessNext]_accessVars => AccessInv'
  BY TypesNext, CachedNext, TopupsNext DEF AccessInv
<1> QED BY <1>1, <1>2, PTL DEF AccessSpec

-----------------------------------------------------------------------------

\* A revoked permission lets no request through for longer than a cache entry
\* lives, for any number of processes and threads, although a thread stores
\* what it read after other processes revoked it (_grants_for_user_id).
THEOREM StaleIsBounded == AccessSpec => StaleBound
<1> DEFINE Bounded == \A t \in Threads :
         /\ th[t].pc \in {"check", "store"} /\ th'[t].pc = "perform" /\ ~th[t].super
         => since[th[t].who][th[t].need] <= TTL
<1>1. ASSUME AccessInv, [AccessNext]_accessVars PROVE Bounded
  <2>0. /\ \A p \in Procs, x \in Principal : cache[p][x] \in Entry
        /\ th \in [Threads -> ThreadState]
        /\ since \in [Principal -> [seed_catalog -> 0 .. TTL + 1]]
    BY <1>1 DEF AccessInv, AccessTypes, AccessTypeOK, Entry, ThreadState, Codes, Places
  <2> SUFFICES ASSUME NEW t \in Threads, th[t].pc \in {"check", "store"},
                      th'[t].pc = "perform", ~th[t].super
               PROVE  since[th[t].who][th[t].need] <= TTL
    OBVIOUS
  <2>1. Step
    BY <1>1 DEF AccessNext, Tick, accessVars
  <2>2. th[t].who \in Principal /\ th[t].need \in seed_catalog /\ ProcOf[t] \in Procs
    BY <2>0 DEF ThreadState
  <2>3. since[th[t].who][th[t].need] \in 0 .. TTL + 1
    BY <2>0, <2>2
  <2>4. CASE /\ _fresh(cache[ProcOf[t]][th[t].who])
             /\ th[t].need \in cache[ProcOf[t]][th[t].who].grants
    <3>1. cache[ProcOf[t]][th[t].who].age <= TTL /\ cache[ProcOf[t]][th[t].who].age \in 0 .. TTL + 1
      BY <2>0, <2>2, <2>4 DEF _fresh, Entry
    <3>2. since[th[t].who][th[t].need] <= cache[ProcOf[t]][th[t].who].age
      BY <1>1, <2>2, <2>4 DEF AccessInv, CachedRecently
    <3> QED BY <2>3, <3>1, <3>2
  <2>5. CASE At(t, "store") /\ th[t].need \in th[t].held
    <3>1. since[th[t].who][th[t].need] = 0
      BY <1>1, <2>5 DEF AccessInv, CachedRecently
    <3> QED BY <3>1
  <2> QED BY <1>1, <2>1, <2>4, <2>5, ThreadStep DEF AccessInv
<1>2. QED BY <1>1, AccessAlways, PTL DEF AccessSpec, StaleBound

\* A code that an operator took from a role whose top-up is recorded comes back
\* only with a change somebody makes: no restart of any process, seeding roles
\* and applying top-ups, returns it (_apply_seed_topups).
THEOREM EditsKept == AccessSpec => OperatorEditsKept
<1> DEFINE Kept == \A m \in Topups : m.id \in applied =>
         \A c \in m.add : c \notin perm[m.role] /\ c \in perm'[m.role] => writes' # writes
<1>1. ASSUME AccessInv, [AccessNext]_accessVars PROVE Kept
  <2> SUFFICES ASSUME NEW m \in Topups, m.id \in applied, NEW c \in m.add,
                      c \notin perm[m.role], c \in perm'[m.role]
               PROVE  writes' # writes
    OBVIOUS
  <2>1. Step
    BY <1>1 DEF AccessNext, Tick, accessVars, tables
  <2>2. CASE \E p \in Procs : bootstrap(p)
    <3>1. m.role \in Role /\ m.role # "admin" /\ m.role \in Builtin
      BY DEF Topups, Role, Builtin
    <3>2. perm[m.role] # Absent
      BY <1>1, <3>1 DEF AccessInv, TopupsHaveRoles, rows
    <3>3. Seeded[m.role] = perm[m.role]
      BY <3>1, <3>2 DEF Seeded
    <3>4. UNION {n.add : n \in {k \in Topups : k.role = m.role /\ k.id \notin applied}} = {}
      BY DEF Topups
    <3>5. perm'[m.role] = Seeded[m.role] \cup UNION {n.add : n \in {k \in Topups : k.role = m.role /\ k.id \notin applied}}
      BY <2>2, <3>1 DEF bootstrap, _apply_seed_topups
    <3> QED BY <3>3, <3>4, <3>5
  <2>3. CASE ~\E p \in Procs : bootstrap(p)
    BY <1>1, <2>1, <2>3, EditedRoles DEF AccessInv
  <2> QED BY <2>2, <2>3
<1>2. QED BY <1>1, AccessAlways, PTL DEF AccessSpec, OperatorEditsKept

-----------------------------------------------------------------------------
(* The last superuser.                                                     *)

OneDemoter == \A a, b \in Demoters : a = b

LEMMA CountedTwo == ASSUME NEW S, Cardinality(S) > 1 PROVE \E a, b \in S : a # b
<1>1. S # {}
  BY FS_EmptySet
<1>2. PICK a : a \in S
  BY <1>1
<1>3. Cardinality({a}) = 1
  BY FS_Singleton
<1>4. S # {a}
  BY <1>3
<1> QED BY <1>2, <1>4

LEMMA FlagsStep ==
    ASSUME AccessTypes, Step
    PROVE  \/ super \subseteq super'
           \/ \E t \in Threads, u \in Users :
                At(t, "demote") /\ super' = super \ {u} /\ ~At(t, "demote")'
<1>1. CASE \E t \in Threads : demote(t)
  <2>1. PICK t \in Threads : demote(t)
    BY <1>1
  <2>2. th'[t].pc = "invalidate"
    BY <2>1 DEF demote, Commit, Goto, AccessTypes, AccessTypeOK
  <2> QED BY <2>1, <2>2 DEF demote, At, AccessTypes, AccessTypeOK
<1>2. CASE ~\E t \in Threads : demote(t)
  <2>1. super \subseteq super'
    BY <1>2 DEF Step, bootstrap, is_expired, _authenticate, provision_user, has_permission,
         _grants_for_user_id, create_role, delete_role, set_role_permissions, grant_role,
         revoke_role, promote, cmd_create_admin, demote_check, set_active, edit_keys, respond,
         Invalidate, cli, try_api_key, try_session, provision_known, provision_missing, tables
  <2> QED BY <2>1
<1> QED BY <1>1, <1>2

LEMMA FlagsNext ==
    ASSUME OneDemoter, AccessTypes, TwoSuperusers, [AccessNext]_accessVars PROVE TwoSuperusers'
<1>1. CASE Step
  <2>1. ASSUME NEW t \in Threads, At(t, "demote")'
        PROVE  t \in Demoters /\ \E a, b \in super : a # b
    BY <1>1, <2>1, ThreadStep, CountedTwo DEF TwoSuperusers
  <2>2. CASE super \subseteq super'
    BY <2>1, <2>2 DEF TwoSuperusers
  <2>3. ASSUME NEW t \in Threads, NEW u \in Users,
               At(t, "demote"), super' = super \ {u}, ~At(t, "demote")'
        PROVE  TwoSuperusers'
    <3>1. super' # {}
      BY <2>3 DEF TwoSuperusers
    <3>2. \A x \in Threads : ~At(x, "demote")'
      BY <2>1, <2>3 DEF TwoSuperusers, OneDemoter
    <3> QED BY <3>1, <3>2 DEF TwoSuperusers
  <2> QED BY <1>1, <2>2, <2>3, FlagsStep
<1>2. CASE Tick \/ UNCHANGED accessVars
  BY <1>2 DEF Tick, accessVars, tables, TwoSuperusers, At
<1> QED BY <1>1, <1>2 DEF AccessNext

LEMMA FlagsInitial == ASSUME AccessInit PROVE TwoSuperusers
BY DEF AccessInit, TwoSuperusers, At, Rest

-----------------------------------------------------------------------------
(* The git credential of an account.                                       *)

ExchangePlaces == {"idle", "reuse", "account", "save", "drop", "create", "seal"}
RevokePlaces == {"idle", "find", "cut", "unlist", "mark"}
GitThread == [pc : ExchangePlaces \cup RevokePlaces, who : Accounts, ro : BOOLEAN,
              seen : IdentityRow, token : Token \cup {NoToken}]
ForgeAccount == [user : BOOLEAN, token : Token \cup {NoToken}]

IdentityTypes ==
    /\ row \in [Accounts -> IdentityRow] /\ forge \in [Accounts -> ForgeAccount]
    /\ issued \in 0 .. MaxTokens /\ late \subseteq Token
    /\ enabled \subseteq Accounts /\ cut \subseteq Accounts /\ raced \subseteq Accounts
    /\ orphaned \subseteq Accounts
    /\ gt \in [GitThreads -> GitThread]
    /\ \A t \in Exchangers : gt[t].pc \in ExchangePlaces
    /\ gt[Command].pc \in RevokePlaces

\* A row an exchange works on is there: rows are never deleted.
RowsStay ==
    \A t \in Exchangers :
        gt[t].seen.there \/ gt[t].pc \in {"reuse", "drop", "create", "seal"} => row[gt[t].who].there

\* A token that waits to be stored is in nobody else's hands and in no row.
TokensApart ==
    /\ \A u \in Accounts : row[u].token <= issued
    /\ gt[Command].seen.token <= issued
    /\ \A t \in Exchangers : On(t, "seal") =>
         /\ gt[t].token \in 1 .. issued
         /\ gt[Command].seen.token # gt[t].token
         /\ \A u \in Accounts : row[u].token # gt[t].token
         /\ \A s \in Exchangers \ {t} : On(s, "seal") => gt[s].token # gt[t].token

\* An exchange under way is of an account that may sign in, or that has been
\* disabled meanwhile.
FlightsRaced == \A t \in Exchangers : ~On(t, "idle") => gt[t].who \in enabled \cup raced

Pending(u) == \E t \in Exchangers : On(t, "seal") /\ gt[t].who = u

\* Whose token Forgejo holds: one that is stored, or about to be, or lost.
TokensKnown ==
    \A u \in Accounts : forge[u].token # NoToken =>
        u \in orphaned \/ Pending(u) \/ (row[u].there /\ row[u].token # NoToken)

\* A revoke past the remote token: it is gone, and one that has come since is
\* not what the revoke has read.
RevokeUnderway ==
    LET u == gt[Command].who
        r == gt[Command].seen IN
    /\ ~On(Command, "idle") => u \notin enabled
    /\ gt[Command].pc \in {"unlist", "mark"} /\ forge[u].token # NoToken =>
         /\ u \in raced \cup orphaned
         /\ r.token # NoToken /\ row[u].token = r.token => u \in orphaned \/ Pending(u)

CutStaysDisabled == cut \cap enabled = {}

IdentityInv ==
    /\ IdentityTypes /\ RowsStay /\ TokensApart /\ FlightsRaced /\ TokensKnown
    /\ RevokeUnderway /\ CutStaysDisabled /\ CutOff

USE IdentityAssumption

LEMMA IdleThread == Idle \in GitThread /\ Idle.pc = "idle" /\ Idle.token = NoToken /\ ~Idle.seen.there
                    /\ Idle.seen.token = NoToken
<1>1. (CHOOSE u \in Accounts : TRUE) \in Accounts
  OBVIOUS
<1> QED BY <1>1 DEF Idle, GitThread, ExchangePlaces, RevokePlaces, NoRow, IdentityRow, Token, NoToken

\* The thread of a step, and nobody else, moves.
LEMMA ThreadMoves ==
    ASSUME gt \in [GitThreads -> GitThread], NEW t \in GitThreads
    PROVE  /\ Ends(t) => gt' \in [GitThreads -> GitThread] /\ gt'[t] = Idle
           /\ \A pc \in ExchangePlaces \cup RevokePlaces : ToStep(t, pc) =>
                /\ gt' \in [GitThreads -> GitThread]
                /\ gt'[t].pc = pc /\ gt'[t].who = gt[t].who /\ gt'[t].seen = gt[t].seen
                /\ gt'[t].ro = gt[t].ro /\ gt'[t].token = gt[t].token
           /\ Ends(t) \/ (\E pc : ToStep(t, pc)) => \A s \in GitThreads \ {t} : gt'[s] = gt[s]
<1>1. Ends(t) => gt' \in [GitThreads -> GitThread] /\ gt'[t] = Idle
  BY IdleThread DEF Ends
<1>2. ASSUME NEW pc \in ExchangePlaces \cup RevokePlaces, ToStep(t, pc)
      PROVE  /\ gt' \in [GitThreads -> GitThread]
             /\ gt'[t].pc = pc /\ gt'[t].who = gt[t].who /\ gt'[t].seen = gt[t].seen
             /\ gt'[t].ro = gt[t].ro /\ gt'[t].token = gt[t].token
  <2>1. [gt[t] EXCEPT !.pc = pc] \in GitThread
    BY DEF GitThread
  <2> QED BY <1>2, <2>1 DEF ToStep, GitThread
<1>3. Ends(t) \/ (\E pc : ToStep(t, pc)) => \A s \in GitThreads \ {t} : gt'[s] = gt[s]
  BY DEF Ends, ToStep
<1> QED BY <1>1, <1>2, <1>3

Exchange(t) ==
    \/ git_credential(t) \/ rotate_expired(t) \/ ensure_user(t) \/ ensure(t)
    \/ _reusable_token(t) \/ drop_old(t) \/ create_token(t) \/ _mint(t)

\* The account a thread is about to work on, and what it has read of it.
LEMMA BeginsFlight ==
    ASSUME IdentityTypes, NEW t \in Exchangers, git_credential(t) \/ rotate_expired(t)
    PROVE  /\ gt' \in [GitThreads -> GitThread] /\ \A s \in GitThreads \ {t} : gt'[s] = gt[s]
           /\ gt'[t].pc \in {"reuse", "account"} /\ gt'[t].token = NoToken
           /\ gt'[t].seen = row[gt'[t].who]
           /\ gt'[t].pc = "reuse" => row[gt'[t].who].there
           /\ gt'[t].who \in enabled \cup raced' /\ raced \subseteq raced' /\ raced' \subseteq Accounts
           /\ UNCHANGED <<row, forge, issued, late, enabled, cut, orphaned>>
<1>1. PICK u \in Accounts, ro \in BOOLEAN : token_for(t, u, ro) /\ u \in enabled \cup raced'
                                         /\ raced \subseteq raced' /\ raced' \subseteq Accounts
  <2>1. \A u \in Accounts : row[u].ro \in BOOLEAN
    BY DEF IdentityTypes, IdentityRow
  <2> QED BY <2>1 DEF git_credential, rotate_expired, IdentityTypes, Ghosts
<1> DEFINE new == [pc |-> IF Live(row[u]) THEN "reuse" ELSE "account", who |-> u,
                   ro |-> ro, seen |-> row[u], token |-> NoToken]
<1>2. new \in GitThread
  BY DEF GitThread, ExchangePlaces, IdentityTypes
<1>3. t \in GitThreads /\ gt' = [gt EXCEPT ![t] = new]
  BY <1>1 DEF token_for, GitThreads
<1>4. gt' \in [GitThreads -> GitThread] /\ gt'[t] = new /\ \A s \in GitThreads \ {t} : gt'[s] = gt[s]
  BY <1>2, <1>3 DEF IdentityTypes
<1>5. UNCHANGED <<row, forge, issued, late, enabled, cut, orphaned>>
  BY DEF git_credential, rotate_expired, Ghosts
<1> QED BY <1>1, <1>4, <1>5 DEF Live

\* The row that ensure leaves: it is there, under the token it had.
LEMMA RowEnsured ==
    ASSUME IdentityTypes, RowsStay, NEW t \in Exchangers, ensure(t)
    PROVE  /\ gt' \in [GitThreads -> GitThread] /\ \A s \in GitThreads \ {t} : gt'[s] = gt[s]
           /\ gt'[t].pc = "reuse" /\ gt'[t].who = gt[t].who
           /\ row' \in [Accounts -> IdentityRow] /\ row'[gt[t].who].there
           /\ \A u \in Accounts \ {gt[t].who} : row'[u] = row[u]
           /\ IF row[gt[t].who].there THEN row'[gt[t].who].token = row[gt[t].who].token
              ELSE row'[gt[t].who].token = NoToken
           /\ UNCHANGED <<forge, issued, late, enabled, cut, orphaned, raced>>
<1> DEFINE u == gt[t].who
           saved == IF gt[t].seen.there THEN [row[u] EXCEPT !.revoked = FALSE]
                    ELSE IF row[u].there THEN row[u] ELSE [NoRow EXCEPT !.there = TRUE]
<1>1. /\ t \in GitThreads /\ u \in Accounts /\ row[u] \in IdentityRow /\ gt[t] \in GitThread
      /\ gt[t].seen.there => row[u].there
  BY DEF IdentityTypes, GitThreads, GitThread, RowsStay
<1>2. /\ saved \in IdentityRow /\ saved.there
      /\ IF row[u].there THEN saved.token = row[u].token ELSE saved.token = NoToken
  <2>1. NoRow \in IdentityRow /\ NoRow.token = NoToken
    BY DEF NoRow, IdentityRow
  <2>2. CASE gt[t].seen.there
    <3>1. saved = [row[u] EXCEPT !.revoked = FALSE]
      BY <2>2
    <3> HIDE DEF saved
    <3>2. saved \in IdentityRow /\ saved.there = row[u].there /\ saved.token = row[u].token
      BY <1>1, <3>1 DEF IdentityRow
    <3> QED BY <1>1, <2>2, <3>2
  <2>3. CASE ~gt[t].seen.there /\ row[u].there
    BY <1>1, <2>3
  <2>4. CASE ~gt[t].seen.there /\ ~row[u].there
    <3>1. saved = [NoRow EXCEPT !.there = TRUE]
      BY <2>4
    <3> HIDE DEF saved
    <3>2. saved \in IdentityRow /\ saved.there /\ saved.token = NoRow.token
      BY <2>1, <3>1 DEF IdentityRow
    <3> QED BY <2>1, <2>4, <3>2
  <2> QED BY <2>2, <2>3, <2>4
<1>3. row' = [row EXCEPT ![u] = saved] /\ gt' = [gt EXCEPT ![t].seen = saved, ![t].pc = "reuse"]
  BY DEF ensure
<1> HIDE DEF saved
<1>4. [gt[t] EXCEPT !.seen = saved, !.pc = "reuse"] \in GitThread
  BY <1>1, <1>2 DEF GitThread, ExchangePlaces
<1>5. gt' = [gt EXCEPT ![t] = [gt[t] EXCEPT !.seen = saved, !.pc = "reuse"]]
  BY <1>3
<1>6. /\ gt' \in [GitThreads -> GitThread] /\ \A s \in GitThreads \ {t} : gt'[s] = gt[s]
      /\ gt'[t].pc = "reuse" /\ gt'[t].who = u
  BY <1>1, <1>4, <1>5 DEF IdentityTypes, GitThread
<1>7. row' \in [Accounts -> IdentityRow] /\ row'[u] = saved /\ \A x \in Accounts \ {u} : row'[x] = row[x]
  BY <1>1, <1>2, <1>3 DEF IdentityTypes
<1> QED BY <1>2, <1>6, <1>7 DEF ensure, Ghosts

ForgeKeeps == \A u \in Accounts : forge'[u].token \in {forge[u].token, NoToken}

LEMMA ForgeType ==
    ASSUME IdentityTypes, NEW u \in Accounts
    PROVE  /\ forge' = [forge EXCEPT ![u].user = TRUE] => forge' \in [Accounts -> ForgeAccount] /\ ForgeKeeps
           /\ forge' = [forge EXCEPT ![u].token = NoToken] =>
                forge' \in [Accounts -> ForgeAccount] /\ ForgeKeeps /\ forge'[u].token = NoToken
           /\ forge' = [forge EXCEPT ![u] = [user |-> FALSE, token |-> NoToken]] =>
                forge' \in [Accounts -> ForgeAccount] /\ ForgeKeeps /\ forge'[u].token = NoToken
           /\ forge' = forge => forge' \in [Accounts -> ForgeAccount] /\ ForgeKeeps
<1>1. /\ [forge[u] EXCEPT !.user = TRUE] \in ForgeAccount
      /\ [forge[u] EXCEPT !.user = TRUE].token = forge[u].token
  BY DEF IdentityTypes, ForgeAccount
<1>2. /\ [forge[u] EXCEPT !.token = NoToken] \in ForgeAccount
      /\ [forge[u] EXCEPT !.token = NoToken].token = NoToken
  BY DEF IdentityTypes, ForgeAccount
<1> DEFINE gone == [user |-> FALSE, token |-> NoToken]
<1>3. gone \in ForgeAccount /\ gone.token = NoToken
  BY DEF ForgeAccount
<1> HIDE DEF gone
<1>4. ASSUME NEW new \in ForgeAccount, new.token \in {forge[u].token, NoToken},
             forge' = [forge EXCEPT ![u] = new]
      PROVE  forge' \in [Accounts -> ForgeAccount] /\ ForgeKeeps /\ forge'[u] = new
  BY <1>4 DEF IdentityTypes, ForgeKeeps
<1>5. forge' = forge => forge' \in [Accounts -> ForgeAccount] /\ ForgeKeeps
  BY DEF IdentityTypes, ForgeKeeps
<1>6. forge' = [forge EXCEPT ![u].user = TRUE] => forge' \in [Accounts -> ForgeAccount] /\ ForgeKeeps
  BY <1>1, <1>4
<1>7. forge' = [forge EXCEPT ![u].token = NoToken] =>
        forge' \in [Accounts -> ForgeAccount] /\ ForgeKeeps /\ forge'[u].token = NoToken
  BY <1>2, <1>4
<1>8. forge' = [forge EXCEPT ![u] = [user |-> FALSE, token |-> NoToken]] =>
        forge' \in [Accounts -> ForgeAccount] /\ ForgeKeeps /\ forge'[u].token = NoToken
  BY <1>3, <1>4 DEF gone
<1> QED BY <1>5, <1>6, <1>7, <1>8

\* The steps of an exchange that neither make nor store a token.
LEMMA QuietExchange ==
    ASSUME IdentityTypes, NEW t \in Exchangers, ensure_user(t) \/ _reusable_token(t) \/ drop_old(t)
    PROVE  /\ gt' \in [GitThreads -> GitThread] /\ \A s \in GitThreads \ {t} : gt'[s] = gt[s]
           /\ \/ gt'[t] = Idle
              \/ /\ gt'[t].who = gt[t].who /\ gt'[t].seen = gt[t].seen
                 /\ gt[t].pc # "idle" /\ gt'[t].pc \in {"save", "drop", "create"}
                 /\ gt'[t].pc # "save" => gt[t].pc \in {"reuse", "drop"}
           /\ forge' \in [Accounts -> ForgeAccount] /\ ForgeKeeps
           /\ UNCHANGED <<row, issued, late, enabled, cut, orphaned, raced>>
<1>0. t \in GitThreads /\ gt \in [GitThreads -> GitThread] /\ gt[t].who \in Accounts
  BY DEF IdentityTypes, GitThreads, GitThread
<1>1. /\ forge' \in [Accounts -> ForgeAccount] /\ ForgeKeeps
      /\ UNCHANGED <<row, issued, late, enabled, cut, orphaned, raced>>
  BY <1>0, ForgeType DEF ensure_user, _reusable_token, drop_old, Ghosts
<1>2. CASE Ends(t)
  BY <1>0, <1>1, <1>2, ThreadMoves
<1>3. CASE ensure_user(t) /\ ToStep(t, "save")
  BY <1>0, <1>1, <1>3, ThreadMoves DEF ensure_user, On, ExchangePlaces
<1>4. CASE _reusable_token(t) /\ (ToStep(t, "drop") \/ ToStep(t, "create"))
  BY <1>0, <1>1, <1>4, ThreadMoves DEF _reusable_token, On, ExchangePlaces
<1>5. CASE drop_old(t)
  BY <1>0, <1>1, <1>5, ThreadMoves DEF drop_old, On, ExchangePlaces
<1> QED BY <1>2, <1>3, <1>4, <1>5 DEF ensure_user, _reusable_token

\* A token is new; the answer that brings it may be lost.
LEMMA TokenCreated ==
    ASSUME IdentityTypes, NEW t \in Exchangers, create_token(t)
    PROVE  /\ gt' \in [GitThreads -> GitThread] /\ \A s \in GitThreads \ {t} : gt'[s] = gt[s]
           /\ forge' \in [Accounts -> ForgeAccount] /\ issued' \in 0 .. MaxTokens /\ issued <= issued'
           /\ \A u \in Accounts \ {gt[t].who} : forge'[u] = forge[u]
           /\ gt[t].pc = "create" /\ orphaned \subseteq orphaned' /\ orphaned' \subseteq Accounts
           /\ UNCHANGED <<row, late, enabled, cut, raced>>
           /\ \/ gt'[t] = Idle /\ forge' = forge /\ issued' = issued
              \/ gt'[t] = Idle /\ gt[t].who \in orphaned'
              \/ /\ gt'[t].pc = "seal" /\ gt'[t].who = gt[t].who /\ gt'[t].seen = gt[t].seen
                 /\ gt'[t].token = issued + 1 /\ issued' = issued + 1
<1>0. t \in GitThreads /\ gt \in [GitThreads -> GitThread] /\ gt[t] \in GitThread /\ gt[t].who \in Accounts
  BY DEF IdentityTypes, GitThreads, GitThread
<1>1. gt[t].pc = "create" /\ UNCHANGED <<row, late, enabled, cut, raced>>
  BY DEF create_token, On
<1>2. CASE Ends(t) /\ UNCHANGED <<forge, issued, orphaned>>
  BY <1>0, <1>1, <1>2, ThreadMoves DEF IdentityTypes
<1>3. CASE /\ issued < MaxTokens /\ issued' = issued + 1
           /\ forge' = [forge EXCEPT ![gt[t].who].token = issued + 1]
           /\ \/ gt' = [gt EXCEPT ![t].token = issued + 1, ![t].pc = "seal"] /\ UNCHANGED orphaned
              \/ Ends(t) /\ orphaned' = orphaned \cup {gt[t].who}
  <2>1. issued + 1 \in Token /\ issued' \in 0 .. MaxTokens /\ issued <= issued'
    BY <1>3 DEF IdentityTypes, Token
  <2>2. [forge[gt[t].who] EXCEPT !.token = issued + 1] \in ForgeAccount
    BY <1>0, <2>1 DEF IdentityTypes, ForgeAccount
  <2>3. forge' \in [Accounts -> ForgeAccount] /\ \A u \in Accounts \ {gt[t].who} : forge'[u] = forge[u]
    BY <1>0, <1>3, <2>2 DEF IdentityTypes
  <2>4. CASE Ends(t) /\ orphaned' = orphaned \cup {gt[t].who}
    BY <1>0, <1>1, <2>1, <2>3, <2>4, ThreadMoves DEF IdentityTypes
  <2>5. CASE gt' = [gt EXCEPT ![t].token = issued + 1, ![t].pc = "seal"] /\ UNCHANGED orphaned
    <3> DEFINE new == [gt[t] EXCEPT !.token = issued + 1, !.pc = "seal"]
    <3>1. /\ new \in GitThread /\ new.pc = "seal" /\ new.who = gt[t].who /\ new.seen = gt[t].seen
          /\ new.token = issued + 1
      BY <1>0, <2>1 DEF GitThread, ExchangePlaces
    <3>2. gt' = [gt EXCEPT ![t] = new]
      BY <2>5
    <3> HIDE DEF new
    <3>3. gt' \in [GitThreads -> GitThread] /\ gt'[t] = new /\ \A s \in GitThreads \ {t} : gt'[s] = gt[s]
      BY <1>0, <3>1, <3>2
    <3> QED BY <1>1, <1>3, <2>1, <2>3, <2>5, <3>1, <3>3 DEF IdentityTypes
  <2> QED BY <1>3, <2>4, <2>5
<1> QED BY <1>2, <1>3 DEF create_token

LEMMA TokenStored ==
    ASSUME IdentityTypes, NEW t \in Exchangers, _mint(t)
    PROVE  /\ gt' \in [GitThreads -> GitThread] /\ \A s \in GitThreads \ {t} : gt'[s] = gt[s]
           /\ gt'[t] = Idle /\ On(t, "seal")
           /\ row' \in [Accounts -> IdentityRow]
           /\ row'[gt[t].who].token = gt[t].token /\ row'[gt[t].who].there = row[gt[t].who].there
           /\ \A u \in Accounts \ {gt[t].who} : row'[u] = row[u]
           /\ UNCHANGED <<forge, issued, late, enabled, cut, orphaned, raced>>
<1>0. /\ t \in GitThreads /\ gt \in [GitThreads -> GitThread] /\ gt[t] \in GitThread /\ gt[t].who \in Accounts
      /\ row[gt[t].who] \in IdentityRow
  BY DEF IdentityTypes, GitThreads, GitThread
<1> DEFINE mark == IF gt[t].seen.revoked THEN FALSE ELSE row[gt[t].who].revoked
           new == [row[gt[t].who] EXCEPT !.token = gt[t].token, !.ro = gt[t].ro, !.revoked = mark]
<1>1. mark \in BOOLEAN
  BY <1>0 DEF IdentityRow
<1>2. row' = [row EXCEPT ![gt[t].who] = new]
  BY DEF _mint
<1> HIDE DEF mark
<1>3. new \in IdentityRow /\ new.token = gt[t].token /\ new.there = row[gt[t].who].there
  BY <1>0, <1>1 DEF IdentityRow, GitThread
<1> HIDE DEF new
<1>4. /\ row' \in [Accounts -> IdentityRow] /\ row'[gt[t].who] = new
      /\ \A u \in Accounts \ {gt[t].who} : row'[u] = row[u]
  BY <1>0, <1>2, <1>3 DEF IdentityTypes
<1> QED BY <1>0, <1>3, <1>4, ThreadMoves DEF _mint, Ghosts

\* An exchange keeps the invariant, whatever it does.
LEMMA FlightKeeps ==
    ASSUME IdentityInv, NEW t \in Exchangers, git_credential(t) \/ rotate_expired(t)
    PROVE  IdentityInv'
<1> USE DEF IdentityInv
<1>0. t \in GitThreads /\ Command \in GitThreads /\ Command # t /\ Exchangers \subseteq GitThreads
  BY DEF GitThreads
<1>1. /\ gt' \in [GitThreads -> GitThread] /\ \A s \in GitThreads \ {t} : gt'[s] = gt[s]
      /\ gt'[t].pc \in {"reuse", "account"} /\ gt'[t].token = NoToken
      /\ gt'[t].seen = row[gt'[t].who]
      /\ gt'[t].pc = "reuse" => row[gt'[t].who].there
      /\ gt'[t].who \in enabled \cup raced' /\ raced \subseteq raced' /\ raced' \subseteq Accounts
      /\ UNCHANGED <<row, forge, issued, late, enabled, cut, orphaned>>
  BY BeginsFlight
<1>2. ~On(t, "seal") /\ ~On(t, "seal")'
  BY <1>1 DEF git_credential, rotate_expired, On
<1>3. gt'[Command] = gt[Command]
  BY <1>0, <1>1
<1>4. IdentityTypes'
  BY <1>0, <1>1, <1>3 DEF IdentityTypes, ExchangePlaces
<1>5. RowsStay'
  BY <1>0, <1>1 DEF RowsStay
<1>6. TokensApart'
  BY <1>0, <1>1, <1>2, <1>3 DEF TokensApart, On
<1>7. FlightsRaced'
  BY <1>0, <1>1 DEF FlightsRaced, On
<1>8. \A u \in Accounts : Pending(u) => Pending(u)'
  BY <1>0, <1>1, <1>2 DEF Pending, On
<1>9. TokensKnown' /\ RevokeUnderway' /\ CutStaysDisabled' /\ CutOff'
  BY <1>1, <1>3, <1>8 DEF TokensKnown, RevokeUnderway, CutStaysDisabled, CutOff, On, IdentityTypes, GitThread
<1> QED BY <1>4, <1>5, <1>6, <1>7, <1>9

LEMMA EnsureKeeps ==
    ASSUME IdentityInv, NEW t \in Exchangers, ensure(t)
    PROVE  IdentityInv'
<1> USE DEF IdentityInv
<1>0. /\ t \in GitThreads /\ Command \in GitThreads /\ Command # t /\ Exchangers \subseteq GitThreads
      /\ gt[t].who \in Accounts /\ gt[Command].who \in Accounts
  BY DEF GitThreads, IdentityTypes, GitThread
<1>1. /\ gt' \in [GitThreads -> GitThread] /\ \A s \in GitThreads \ {t} : gt'[s] = gt[s]
      /\ gt'[t].pc = "reuse" /\ gt'[t].who = gt[t].who
      /\ row' \in [Accounts -> IdentityRow] /\ row'[gt[t].who].there
      /\ \A u \in Accounts \ {gt[t].who} : row'[u] = row[u]
      /\ IF row[gt[t].who].there THEN row'[gt[t].who].token = row[gt[t].who].token
         ELSE row'[gt[t].who].token = NoToken
      /\ UNCHANGED <<forge, issued, late, enabled, cut, orphaned, raced>>
  BY RowEnsured
<1>2. ~On(t, "seal") /\ ~On(t, "seal")' /\ ~On(t, "idle")
  BY <1>1 DEF ensure, On
<1>3. gt'[Command] = gt[Command]
  BY <1>0, <1>1
<1>4. IdentityTypes'
  BY <1>0, <1>1, <1>3 DEF IdentityTypes, ExchangePlaces
<1>5. \A u \in Accounts : /\ row[u].there => row'[u].there /\ row'[u].token = row[u].token
                          /\ row'[u].token \in {row[u].token, NoToken}
  BY <1>1
<1>6. RowsStay'
  <2>1. \A s \in Exchangers : gt[s].who \in Accounts
    BY <1>0 DEF IdentityTypes, GitThread
  <2> QED BY <1>0, <1>1, <1>5, <2>1 DEF RowsStay
<1>7. TokensApart'
  <2>1. issued \in Nat
    BY DEF IdentityTypes
  <2>2. \A u \in Accounts : row'[u].token <= issued
    BY <1>5, <2>1 DEF TokensApart, NoToken
  <2>3. ASSUME NEW s \in Exchangers, On(s, "seal")'
        PROVE  /\ s # t /\ On(s, "seal") /\ gt'[s] = gt[s]
               /\ \A u \in Accounts : row'[u].token # gt[s].token
    <3>1. s # t /\ On(s, "seal") /\ gt'[s] = gt[s]
      BY <1>0, <1>1, <1>2, <2>3 DEF On
    <3>2. gt[s].token \in 1 .. issued /\ gt[s].token # NoToken
      BY <2>1, <3>1 DEF TokensApart, NoToken
    <3> QED BY <1>5, <3>1, <3>2 DEF TokensApart
  <2> QED BY <1>1, <1>3, <2>2, <2>3 DEF TokensApart
<1>8. FlightsRaced'
  BY <1>0, <1>1, <1>2 DEF FlightsRaced, On
<1>9. \A u \in Accounts : Pending(u) => Pending(u)'
  BY <1>0, <1>1, <1>2 DEF Pending, On
<1>10. TokensKnown'
  BY <1>1, <1>5, <1>9 DEF TokensKnown
<1>11. RevokeUnderway'
  <2> DEFINE u == gt[Command].who
             r == gt[Command].seen
  <2>1. gt[Command].pc \in {"unlist", "mark"} /\ forge[u].token # NoToken /\ r.token # NoToken
          /\ row'[u].token = r.token => u \in orphaned \/ Pending(u)'
    <3>1. row'[u].token # NoToken => row'[u].token = row[u].token
      BY <1>0, <1>5
    <3> QED BY <1>0, <1>3, <1>9, <3>1 DEF RevokeUnderway
  <2> QED BY <1>1, <1>3, <2>1 DEF RevokeUnderway, On
<1>12. CutStaysDisabled' /\ CutOff'
  BY <1>1 DEF CutStaysDisabled, CutOff
<1> QED BY <1>4, <1>6, <1>7, <1>8, <1>10, <1>11, <1>12

LEMMA QuietKeeps ==
    ASSUME IdentityInv, NEW t \in Exchangers, ensure_user(t) \/ _reusable_token(t) \/ drop_old(t)
    PROVE  IdentityInv'
<1> USE DEF IdentityInv
<1>0. /\ t \in GitThreads /\ Command \in GitThreads /\ Command # t /\ Exchangers \subseteq GitThreads
      /\ gt[t].who \in Accounts /\ gt[Command].who \in Accounts
  BY DEF GitThreads, IdentityTypes, GitThread
<1>1. /\ gt' \in [GitThreads -> GitThread] /\ \A s \in GitThreads \ {t} : gt'[s] = gt[s]
      /\ \/ gt'[t] = Idle
         \/ /\ gt'[t].who = gt[t].who /\ gt'[t].seen = gt[t].seen
            /\ gt[t].pc # "idle" /\ gt'[t].pc \in {"save", "drop", "create"}
            /\ gt'[t].pc # "save" => gt[t].pc \in {"reuse", "drop"}
      /\ forge' \in [Accounts -> ForgeAccount] /\ ForgeKeeps
      /\ UNCHANGED <<row, issued, late, enabled, cut, orphaned, raced>>
  BY QuietExchange
<1>2. ~On(t, "seal") /\ ~On(t, "seal")'
  BY <1>1, IdleThread DEF ensure_user, _reusable_token, drop_old, On
<1>3. gt'[Command] = gt[Command]
  BY <1>0, <1>1
<1>4. IdentityTypes'
  BY <1>0, <1>1, <1>3, IdleThread DEF IdentityTypes, ExchangePlaces
<1>5. RowsStay'
  BY <1>0, <1>1, IdleThread DEF RowsStay
<1>6. TokensApart'
  BY <1>0, <1>1, <1>2, <1>3 DEF TokensApart, On
<1>7. FlightsRaced'
  BY <1>0, <1>1, IdleThread DEF FlightsRaced, On
<1>8. \A u \in Accounts : Pending(u) => Pending(u)'
  BY <1>0, <1>1, <1>2 DEF Pending, On
<1>9. \A u \in Accounts : forge'[u].token # NoToken => forge[u].token # NoToken
  BY <1>1 DEF ForgeKeeps
<1>10. TokensKnown' /\ RevokeUnderway' /\ CutStaysDisabled' /\ CutOff'
  BY <1>0, <1>1, <1>3, <1>8, <1>9
     DEF TokensKnown, RevokeUnderway, CutStaysDisabled, CutOff, On, IdentityTypes
<1> QED BY <1>4, <1>5, <1>6, <1>7, <1>10

LEMMA CreateKeeps ==
    ASSUME IdentityInv, NEW t \in Exchangers, create_token(t)
    PROVE  IdentityInv'
<1> USE DEF IdentityInv
<1>0. /\ t \in GitThreads /\ Command \in GitThreads /\ Command # t /\ Exchangers \subseteq GitThreads
      /\ gt[t].who \in Accounts /\ gt[Command].who \in Accounts /\ issued \in Nat
  BY DEF GitThreads, IdentityTypes, GitThread
<1>1. /\ gt' \in [GitThreads -> GitThread] /\ \A s \in GitThreads \ {t} : gt'[s] = gt[s]
      /\ forge' \in [Accounts -> ForgeAccount] /\ issued' \in 0 .. MaxTokens /\ issued <= issued'
      /\ \A u \in Accounts \ {gt[t].who} : forge'[u] = forge[u]
      /\ gt[t].pc = "create" /\ orphaned \subseteq orphaned' /\ orphaned' \subseteq Accounts
      /\ UNCHANGED <<row, late, enabled, cut, raced>>
      /\ \/ gt'[t] = Idle /\ forge' = forge /\ issued' = issued
         \/ gt'[t] = Idle /\ gt[t].who \in orphaned'
         \/ /\ gt'[t].pc = "seal" /\ gt'[t].who = gt[t].who /\ gt'[t].seen = gt[t].seen
            /\ gt'[t].token = issued + 1 /\ issued' = issued + 1
  BY TokenCreated
<1>2. gt'[Command] = gt[Command] /\ gt[t].who \in enabled \cup raced /\ ~On(t, "seal")
  BY <1>0, <1>1 DEF FlightsRaced, On
<1>3. IdentityTypes'
  BY <1>0, <1>1, <1>2, IdleThread DEF IdentityTypes, ExchangePlaces
<1>4. RowsStay'
  BY <1>0, <1>1, IdleThread DEF RowsStay
<1>5. FlightsRaced'
  BY <1>0, <1>1, <1>2, IdleThread DEF FlightsRaced, On
<1>6. \A u \in Accounts : Pending(u) => Pending(u)'
  BY <1>0, <1>1, <1>2 DEF Pending, On
<1>7. forge'[gt[t].who] = forge[gt[t].who] \/ gt[t].who \in orphaned' \/ Pending(gt[t].who)'
  <2>1. CASE gt'[t].pc = "seal" /\ gt'[t].who = gt[t].who
    <3>1. \E s \in Exchangers : gt'[s].pc = "seal" /\ gt'[s].who = gt[t].who
      BY <2>1
    <3> DEFINE w == gt[t].who
    <3> HIDE DEF w
    <3> QED BY <2>1, <3>1 DEF Pending, On
  <2> QED BY <1>1, <2>1
<1>8. TokensApart'
  <2>1. /\ \A u \in Accounts : row[u].token \in Nat /\ row[u].token <= issued
        /\ gt[Command].seen.token \in Nat /\ gt[Command].seen.token <= issued
    BY <1>0 DEF TokensApart, IdentityTypes, IdentityRow, GitThread, Token, NoToken
  <2>2. /\ \A u \in Accounts : row'[u].token <= issued'
        /\ gt'[Command].seen.token <= issued'
    BY <1>0, <1>1, <1>2, <2>1
  <2>3. ASSUME NEW s \in Exchangers, On(s, "seal")', s # t
        PROVE  On(s, "seal") /\ gt'[s] = gt[s] /\ gt[s].token \in 1 .. issued
    BY <1>0, <1>1, <2>3 DEF On, TokensApart
  <2>4. On(t, "seal")' => gt'[t].token = issued + 1 /\ issued' = issued + 1
    BY <1>1, IdleThread DEF On
  <2>5. ASSUME NEW s \in Exchangers, On(s, "seal")'
        PROVE  /\ gt'[s].token \in 1 .. issued'
               /\ gt'[Command].seen.token # gt'[s].token
               /\ \A u \in Accounts : row'[u].token # gt'[s].token
               /\ \A x \in Exchangers \ {s} : On(x, "seal")' => gt'[x].token # gt'[s].token
    <3>1. CASE s = t
      <4>1. gt'[s].token = issued + 1 /\ issued' = issued + 1
        BY <2>4, <2>5, <3>1
      <4>2. \A x \in Exchangers \ {s} : On(x, "seal")' => gt'[x].token \in 1 .. issued
        BY <2>3, <3>1
      <4> QED BY <1>0, <1>1, <1>2, <2>1, <4>1, <4>2
    <3>2. CASE s # t
      <4>1. On(s, "seal") /\ gt'[s] = gt[s] /\ gt[s].token \in 1 .. issued
        BY <2>3, <2>5, <3>2
      <4>2. /\ gt'[Command].seen.token # gt'[s].token
            /\ \A u \in Accounts : row'[u].token # gt'[s].token
        BY <1>1, <1>2, <4>1 DEF TokensApart
      <4>3. \A x \in Exchangers \ {s} : On(x, "seal")' => gt'[x].token # gt'[s].token
        <5>1. ASSUME NEW x \in Exchangers \ {s}, On(x, "seal")', x # t
              PROVE  gt'[x].token # gt'[s].token
          BY <2>3, <4>1, <5>1 DEF TokensApart
        <5>2. On(t, "seal")' => gt'[t].token # gt'[s].token
          BY <1>0, <2>4, <4>1
        <5> QED BY <5>1, <5>2
      <4>4. gt'[s].token \in 1 .. issued'
        BY <1>0, <1>1, <4>1
      <4> QED BY <4>2, <4>3, <4>4
    <3> QED BY <3>1, <3>2
  <2> HIDE DEF IdentityInv
  <2> QED BY <2>2, <2>5 DEF TokensApart
<1>9. TokensKnown'
  BY <1>1, <1>6, <1>7 DEF TokensKnown
<1>10. RevokeUnderway'
  BY <1>0, <1>1, <1>2, <1>6, <1>7 DEF RevokeUnderway, On
<1>11. CutStaysDisabled' /\ CutOff'
  <2>1. ASSUME NEW u \in cut', u \notin raced' \cup enabled' \cup orphaned'
        PROVE  forge'[u].token = NoToken
    <3>1. u \in Accounts /\ u # gt[t].who /\ u \in cut \ (raced \cup enabled \cup orphaned)
      BY <1>1, <1>2, <2>1 DEF IdentityTypes
    <3> QED BY <1>1, <3>1 DEF CutOff
  <2> QED BY <1>1, <2>1 DEF CutStaysDisabled, CutOff
<1> QED BY <1>3, <1>4, <1>5, <1>8, <1>9, <1>10, <1>11

LEMMA MintKeeps ==
    ASSUME IdentityInv, NEW t \in Exchangers, _mint(t)
    PROVE  IdentityInv'
<1> USE DEF IdentityInv
<1>0. /\ t \in GitThreads /\ Command \in GitThreads /\ Command # t /\ Exchangers \subseteq GitThreads
      /\ gt[t].who \in Accounts /\ gt[Command].who \in Accounts /\ issued \in Nat
  BY DEF GitThreads, IdentityTypes, GitThread
<1>1. /\ gt' \in [GitThreads -> GitThread] /\ \A s \in GitThreads \ {t} : gt'[s] = gt[s]
      /\ gt'[t] = Idle /\ On(t, "seal")
      /\ row' \in [Accounts -> IdentityRow]
      /\ row'[gt[t].who].token = gt[t].token /\ row'[gt[t].who].there = row[gt[t].who].there
      /\ \A u \in Accounts \ {gt[t].who} : row'[u] = row[u]
      /\ UNCHANGED <<forge, issued, late, enabled, cut, orphaned, raced>>
  BY TokenStored
<1>2. gt'[Command] = gt[Command] /\ ~On(t, "seal")'
  BY <1>0, <1>1, IdleThread DEF On
<1>3. IdentityTypes'
  BY <1>0, <1>1, <1>2, IdleThread DEF IdentityTypes, ExchangePlaces
<1>4. RowsStay'
  <2>1. \A u \in Accounts : row'[u].there = row[u].there
    BY <1>1
  <2>2. \A s \in Exchangers : gt[s].who \in Accounts
    BY <1>0 DEF IdentityTypes, GitThread
  <2> QED BY <1>0, <1>1, <2>1, <2>2, IdleThread DEF RowsStay
<1>5. FlightsRaced'
  BY <1>0, <1>1, IdleThread DEF FlightsRaced, On
<1>6. gt[t].token \in 1 .. issued /\ gt[t].token # NoToken /\ row[gt[t].who].there
  BY <1>0, <1>1 DEF TokensApart, RowsStay, On, NoToken
<1>7. \A u \in Accounts \ {gt[t].who} : Pending(u) => Pending(u)'
  BY <1>0, <1>1 DEF Pending, On
<1>8. TokensApart'
  <2>1. \A u \in Accounts : row'[u].token <= issued
    BY <1>0, <1>1, <1>6 DEF TokensApart
  <2>2. ASSUME NEW s \in Exchangers, On(s, "seal")'
        PROVE  /\ s # t /\ On(s, "seal") /\ gt'[s] = gt[s]
               /\ \A u \in Accounts : row'[u].token # gt[s].token
    <3>1. s # t /\ On(s, "seal") /\ gt'[s] = gt[s]
      BY <1>0, <1>1, <1>2, <2>2 DEF On
    <3>2. gt[s].token # gt[t].token
      BY <1>1, <3>1 DEF TokensApart
    <3> QED BY <1>1, <3>1, <3>2 DEF TokensApart
  <2> QED BY <1>1, <1>2, <2>1, <2>2 DEF TokensApart
<1>9. TokensKnown'
  <2>1. \A u \in Accounts \ {gt[t].who} : row'[u] = row[u]
    BY <1>1
  <2>2. row'[gt[t].who].there /\ row'[gt[t].who].token # NoToken
    BY <1>1, <1>6
  <2> QED BY <1>1, <1>7, <2>1, <2>2 DEF TokensKnown
<1>10. RevokeUnderway'
  <2> DEFINE u == gt[Command].who
             r == gt[Command].seen
  <2>1. gt[t].token # r.token
    BY <1>1 DEF TokensApart
  <2>2. u # gt[t].who => row'[u] = row[u] /\ (Pending(u) => Pending(u)')
    BY <1>0, <1>1, <1>2, <1>7
  <2>3. u = gt[t].who => row'[u].token # r.token
    BY <1>1, <2>1
  <2>4. r.token # NoToken /\ row'[u].token = r.token => row[u].token = r.token /\ (Pending(u) => Pending(u)')
    BY <2>2, <2>3
  <2> QED BY <1>0, <1>1, <1>2, <2>4 DEF RevokeUnderway, On
<1>11. CutStaysDisabled' /\ CutOff'
  BY <1>1 DEF CutStaysDisabled, CutOff
<1> QED BY <1>3, <1>4, <1>5, <1>8, <1>9, <1>10, <1>11

\* A command that reads its account's row or talks to Forgejo.
LEMMA RevokeKeeps ==
    ASSUME IdentityInv, revoke_find \/ revoke_remote \/ revoke_user
    PROVE  IdentityInv'
<1> USE DEF IdentityInv
<1>0. /\ Command \in GitThreads /\ Command \notin Exchangers /\ Exchangers \subseteq GitThreads
      /\ gt \in [GitThreads -> GitThread] /\ gt[Command].who \in Accounts
  BY DEF GitThreads, IdentityTypes, GitThread
<1> DEFINE u == gt[Command].who
           r == gt[Command].seen
<1>1. /\ gt' \in [GitThreads -> GitThread] /\ \A s \in Exchangers : gt'[s] = gt[s]
      /\ \/ gt'[Command].pc = "idle" /\ gt'[Command].seen.token \in {r.token, row[u].token, NoToken}
         \/ /\ revoke_find /\ gt'[Command].who = u /\ gt'[Command].seen = row[u]
            /\ row[u].there /\ gt'[Command].pc = IF row[u].token # NoToken THEN "cut" ELSE "unlist"
         \/ /\ ~revoke_find /\ gt'[Command].who = u /\ gt'[Command].seen = r
            /\ gt'[Command].pc \in {"unlist", "mark"}
            /\ gt'[Command].pc = "unlist" => forge'[u].token = NoToken
            /\ gt'[Command].pc = "mark" => On(Command, "unlist")
  <2>1. CASE revoke_find
    <3> DEFINE pc == IF ~row[u].there THEN "idle" ELSE IF row[u].token # NoToken THEN "cut" ELSE "unlist"
               new == [gt[Command] EXCEPT !.seen = row[u], !.pc = pc]
    <3>1. pc \in RevokePlaces
      BY DEF RevokePlaces
    <3>2. new \in GitThread /\ new.pc = pc /\ new.seen = row[u] /\ new.who = u
      BY <1>0, <3>1 DEF IdentityTypes, GitThread
    <3>3. gt' = [gt EXCEPT ![Command] = new]
      BY <2>1 DEF revoke_find
    <3> HIDE DEF new
    <3>4. gt' \in [GitThreads -> GitThread] /\ gt'[Command] = new /\ \A s \in Exchangers : gt'[s] = gt[s]
      BY <1>0, <3>2, <3>3
    <3> QED BY <2>1, <3>2, <3>4
  <2>2. CASE revoke_remote
    <3>1. CASE Ends(Command)
      BY <1>0, <3>1, IdleThread, ThreadMoves
    <3>2. CASE forge' = [forge EXCEPT ![u].token = NoToken] /\ ToStep(Command, "unlist")
      <4>1. forge'[u].token = NoToken
        BY <1>0, <3>2, ForgeType
      <4>2. ~revoke_find
        BY <2>2 DEF revoke_remote, revoke_find, On
      <4> QED BY <1>0, <3>2, <4>1, <4>2, ThreadMoves DEF RevokePlaces
    <3> QED BY <2>2, <3>1, <3>2 DEF revoke_remote
  <2>3. CASE revoke_user
    <3>1. ~revoke_find
      BY <2>3 DEF revoke_user, revoke_find, On
    <3> QED BY <1>0, <2>3, <3>1, ThreadMoves DEF revoke_user, RevokePlaces
  <2> QED BY <2>1, <2>2, <2>3
<1>2. /\ forge' \in [Accounts -> ForgeAccount] /\ ForgeKeeps
      /\ revoke_find => forge' = forge
      /\ ~On(Command, "idle")
      /\ UNCHANGED <<row, issued, late, enabled, cut, orphaned, raced>>
  BY <1>0, ForgeType DEF revoke_find, revoke_remote, revoke_user, Ghosts, On
<1>3. IdentityTypes'
  BY <1>0, <1>1, <1>2 DEF IdentityTypes, RevokePlaces
<1>4. RowsStay' /\ FlightsRaced'
  BY <1>1, <1>2 DEF RowsStay, FlightsRaced, On
<1>5. \A x \in Accounts : Pending(x)' <=> Pending(x)
  BY <1>0, <1>1 DEF Pending, On
<1>6. TokensApart'
  <2>1. gt'[Command].seen.token \in {r.token, row[u].token, NoToken}
    BY <1>1
  <2>2. \A t \in Exchangers : On(t, "seal") => gt[t].token # NoToken /\ gt[t].token \in 1 .. issued
    BY DEF TokensApart, NoToken, IdentityTypes
  <2>3. issued \in Nat
    BY DEF IdentityTypes
  <2>4. gt'[Command].seen.token <= issued
    BY <1>0, <2>1, <2>3 DEF TokensApart, NoToken
  <2>5. \A t \in Exchangers : On(t, "seal") => gt'[Command].seen.token # gt[t].token
    BY <1>0, <2>1, <2>2 DEF TokensApart
  <2> QED BY <1>1, <1>2, <2>4, <2>5 DEF TokensApart, On
<1>7. \A x \in Accounts : forge'[x].token # NoToken => forge[x].token # NoToken
  BY <1>2 DEF ForgeKeeps
<1>8. TokensKnown' /\ CutStaysDisabled' /\ CutOff'
  BY <1>2, <1>5, <1>7 DEF TokensKnown, CutStaysDisabled, CutOff, IdentityTypes
<1>9. u \notin enabled
  BY <1>2 DEF RevokeUnderway
<1>10. RevokeUnderway'
  <2>1. CASE gt'[Command].pc = "idle"
    BY <1>2, <2>1 DEF RevokeUnderway, On
  <2>2. CASE /\ revoke_find /\ gt'[Command].who = u /\ gt'[Command].seen = row[u]
             /\ row[u].there /\ gt'[Command].pc = IF row[u].token # NoToken THEN "cut" ELSE "unlist"
    <3>1. gt'[Command].pc \in {"unlist", "mark"} => row[u].token = NoToken
      BY <2>2
    <3>2. Pending(u) => u \in raced
      BY <1>9 DEF Pending, FlightsRaced, On
    <3>3. row[u].token = NoToken /\ forge[u].token # NoToken => u \in raced \cup orphaned
      BY <1>0, <3>2 DEF TokensKnown
    <3> QED BY <1>2, <1>9, <2>2, <3>1, <3>3 DEF RevokeUnderway, On
  <2>3. CASE /\ ~revoke_find /\ gt'[Command].who = u /\ gt'[Command].seen = r
             /\ gt'[Command].pc \in {"unlist", "mark"}
             /\ gt'[Command].pc = "unlist" => forge'[u].token = NoToken
             /\ gt'[Command].pc = "mark" => On(Command, "unlist")
    <3>1. forge'[u].token # NoToken => On(Command, "unlist") /\ forge[u].token # NoToken
      BY <1>0, <1>7, <2>3
    <3>2. Pending(u) => Pending(gt[Command].who)'
      BY <1>0, <1>5, <2>3
    <3> QED BY <1>2, <1>9, <2>3, <3>1, <3>2 DEF RevokeUnderway, On
  <2> QED BY <1>1, <2>1, <2>2, <2>3
<1> QED BY <1>3, <1>4, <1>6, <1>8, <1>10

\* The commit that reports the account as cut off.
LEMMA MarkKeeps ==
    ASSUME IdentityInv, revoke
    PROVE  IdentityInv'
<1> USE DEF IdentityInv
<1>0. /\ Command \in GitThreads /\ Command \notin Exchangers /\ Exchangers \subseteq GitThreads
      /\ gt \in [GitThreads -> GitThread] /\ gt[Command].who \in Accounts /\ issued \in Nat
      /\ row[gt[Command].who] \in IdentityRow /\ gt[Command].seen \in IdentityRow
  BY DEF GitThreads, IdentityTypes, GitThread
<1> DEFINE u == gt[Command].who
           r == gt[Command].seen
           token == IF r.token # NoToken THEN NoToken ELSE row[u].token
           new == [row[u] EXCEPT !.token = token, !.revoked = TRUE]
<1>1. new \in IdentityRow /\ new.there = row[u].there /\ new.token = token
  BY <1>0 DEF IdentityRow, NoToken
<1>2. row' = [row EXCEPT ![u] = new]
  BY DEF revoke
<1> HIDE DEF new
<1>3. /\ row' \in [Accounts -> IdentityRow] /\ row'[u].there = row[u].there
      /\ row'[u].token = token /\ \A x \in Accounts \ {u} : row'[x] = row[x]
  BY <1>0, <1>1, <1>2 DEF IdentityTypes
<1>4. /\ gt' \in [GitThreads -> GitThread] /\ gt'[Command] = Idle /\ \A s \in Exchangers : gt'[s] = gt[s]
  BY <1>0, ThreadMoves DEF revoke
<1>5. /\ cut' = cut \cup {u} /\ orphaned \subseteq orphaned' /\ orphaned' \subseteq Accounts
      /\ r.token \notin {NoToken, row[u].token} /\ forge[u].token # NoToken => u \in orphaned'
      /\ UNCHANGED <<forge, issued, late, enabled, raced>> /\ On(Command, "mark")
  BY <1>0 DEF revoke, IdentityTypes
<1>6. IdentityTypes'
  BY <1>0, <1>3, <1>4, <1>5, IdleThread DEF IdentityTypes, RevokePlaces
<1>7. \A x \in Accounts : row'[x].there = row[x].there /\ row'[x].token \in {row[x].token, NoToken}
  BY <1>3
<1>8. RowsStay' /\ FlightsRaced'
  BY <1>0, <1>4, <1>5, <1>7 DEF RowsStay, FlightsRaced, On, IdentityTypes, GitThread
<1>9. \A x \in Accounts : Pending(x)' <=> Pending(x)
  BY <1>0, <1>4 DEF Pending, On
<1>10. TokensApart'
  <2>1. \A t \in Exchangers : On(t, "seal") => gt[t].token # NoToken
    BY <1>0 DEF TokensApart, NoToken
  <2>2. \A x \in Accounts : row'[x].token <= issued
    BY <1>0, <1>7 DEF TokensApart, NoToken
  <2>3. \A t \in Exchangers, x \in Accounts : On(t, "seal") => row'[x].token # gt[t].token
    BY <1>7, <2>1 DEF TokensApart
  <2>4. gt'[Command].seen.token <= issued /\ \A t \in Exchangers : On(t, "seal") => gt'[Command].seen.token # gt[t].token
    BY <1>0, <1>4, <2>1, IdleThread DEF NoToken
  <2> QED BY <1>4, <1>5, <2>2, <2>3, <2>4 DEF TokensApart, On
<1>11. u \notin enabled /\ (forge[u].token # NoToken => u \in raced \cup orphaned)
  BY <1>5 DEF RevokeUnderway, On
<1>12. TokensKnown'
  <2>1. ASSUME forge[u].token # NoToken
        PROVE  u \in orphaned' \/ Pending(u) \/ (row'[u].there /\ row'[u].token # NoToken)
    <3>1. CASE r.token = NoToken
      BY <1>0, <1>3, <1>5, <2>1, <3>1 DEF TokensKnown
    <3>2. CASE r.token # NoToken /\ row[u].token = r.token
      BY <1>5, <2>1, <3>2 DEF RevokeUnderway, On
    <3>3. CASE r.token # NoToken /\ row[u].token # r.token
      BY <1>5, <2>1, <3>3
    <3> QED BY <3>1, <3>2, <3>3
  <2>2. \A x \in Accounts : (Pending(x) => Pending(x)')
    BY <1>9
  <2>3. ASSUME NEW x \in Accounts, forge[x].token # NoToken
        PROVE  x \in orphaned' \/ Pending(x) \/ (row'[x].there /\ row'[x].token # NoToken)
    <3>1. CASE x = u
      BY <2>1, <2>3, <3>1
    <3>2. CASE x # u
      BY <1>3, <1>5, <2>3, <3>2 DEF TokensKnown
    <3> QED BY <3>1, <3>2
  <2> QED BY <1>5, <2>2, <2>3 DEF TokensKnown
<1>13. RevokeUnderway'
  BY <1>4, IdleThread DEF RevokeUnderway, On
<1>14. CutStaysDisabled' /\ CutOff'
  BY <1>5, <1>11 DEF CutStaysDisabled, CutOff
<1> QED BY <1>6, <1>8, <1>10, <1>12, <1>13, <1>14

LEMMA DisableKeeps ==
    ASSUME IdentityInv, cmd_disable_user
    PROVE  IdentityInv'
<1> USE DEF IdentityInv
<1>0. /\ Command \in GitThreads /\ Command \notin Exchangers /\ Exchangers \subseteq GitThreads
      /\ gt \in [GitThreads -> GitThread] /\ gt[Command].who \in Accounts
  BY DEF GitThreads, IdentityTypes, GitThread
<1>1. PICK u \in enabled :
        /\ enabled' = enabled \ {u}
        /\ gt' = [gt EXCEPT ![Command] = [Idle EXCEPT !.pc = "find", !.who = u]]
        /\ raced' = IF InFlight(u) THEN raced \cup {u} ELSE raced \ {u}
  BY DEF cmd_disable_user
<1>2. UNCHANGED <<row, forge, issued, late, cut, orphaned>> /\ u \in Accounts
  BY DEF cmd_disable_user, IdentityTypes
<1> DEFINE new == [Idle EXCEPT !.pc = "find", !.who = u]
<1>3. new \in GitThread /\ new.pc = "find" /\ new.who = u /\ new.seen.token = NoToken
  BY <1>2, IdleThread DEF GitThread, RevokePlaces
<1> HIDE DEF new
<1>4. gt' \in [GitThreads -> GitThread] /\ gt'[Command] = new /\ \A s \in Exchangers : gt'[s] = gt[s]
  BY <1>0, <1>1, <1>3 DEF new
<1>5. IdentityTypes'
  BY <1>0, <1>1, <1>2, <1>3, <1>4 DEF IdentityTypes, RevokePlaces
<1>6. RowsStay'
  BY <1>2, <1>4 DEF RowsStay
<1>7. TokensApart'
  <2>1. \A t \in Exchangers : On(t, "seal") => gt[t].token # NoToken
    BY DEF TokensApart, NoToken, IdentityTypes
  <2>2. NoToken <= issued
    BY DEF IdentityTypes, NoToken
  <2> QED BY <1>2, <1>3, <1>4, <2>1, <2>2 DEF TokensApart, On
<1>8. FlightsRaced'
  BY <1>1, <1>4 DEF FlightsRaced, InFlight, On
<1>9. \A x \in Accounts : Pending(x)' <=> Pending(x)
  BY <1>0, <1>4 DEF Pending, On
<1>10. TokensKnown'
  BY <1>2, <1>9 DEF TokensKnown
<1>11. RevokeUnderway'
  BY <1>1, <1>3, <1>4 DEF RevokeUnderway, On
<1>12. CutStaysDisabled' /\ CutOff'
  BY <1>1, <1>2 DEF CutStaysDisabled, CutOff
<1> QED BY <1>5, <1>6, <1>7, <1>8, <1>10, <1>11, <1>12

\* Enabling an account, and the time of a token.
LEMMA OthersKeep ==
    ASSUME IdentityInv, cmd_enable_user \/ _is_expired
    PROVE  IdentityInv'
<1> USE DEF IdentityInv
<1>1. /\ UNCHANGED <<row, forge, issued, gt, orphaned, raced>>
      /\ enabled \subseteq enabled' /\ enabled' \subseteq Accounts /\ cut' \subseteq cut
      /\ late' \subseteq Token /\ cut' \cap (enabled' \ enabled) = {}
      /\ enabled' # enabled => On(Command, "idle")
  <2>1. CASE cmd_enable_user
    BY <2>1 DEF cmd_enable_user, IdentityTypes
  <2>2. CASE _is_expired
    <3>1. UNCHANGED <<row, forge, issued, gt, orphaned, raced, enabled, cut>> /\ late' \subseteq Token
      BY <2>2 DEF _is_expired, IdentityTypes, Token, Ghosts
    <3> QED BY <3>1 DEF IdentityTypes
  <2> QED BY <2>1, <2>2
<1>2. IdentityTypes' /\ RowsStay' /\ TokensApart' /\ FlightsRaced'
  BY <1>1 DEF IdentityTypes, RowsStay, TokensApart, FlightsRaced, On
<1>3. TokensKnown' /\ CutStaysDisabled' /\ CutOff'
  BY <1>1 DEF TokensKnown, Pending, CutStaysDisabled, CutOff, On
<1>4. RevokeUnderway'
  <2>1. CASE enabled' = enabled
    BY <1>1, <2>1 DEF RevokeUnderway, Pending, On
  <2>2. CASE On(Command, "idle")
    BY <1>1, <2>2 DEF RevokeUnderway, Pending, On
  <2> QED BY <1>1, <2>1, <2>2
<1> QED BY <1>2, <1>3, <1>4

LEMMA DeathKeeps ==
    ASSUME IdentityInv, NEW t \in GitThreads, Dies(t)
    PROVE  IdentityInv'
<1> USE DEF IdentityInv
<1>0. /\ Command \in GitThreads /\ Command \notin Exchangers /\ Exchangers \subseteq GitThreads
      /\ gt \in [GitThreads -> GitThread] /\ gt[Command].who \in Accounts /\ gt[t].who \in Accounts
  BY DEF GitThreads, IdentityTypes, GitThread
<1>1. /\ gt' \in [GitThreads -> GitThread] /\ gt'[t] = Idle /\ \A s \in GitThreads \ {t} : gt'[s] = gt[s]
      /\ orphaned \subseteq orphaned' /\ orphaned' \subseteq Accounts
      /\ On(t, "seal") => gt[t].who \in orphaned'
      /\ UNCHANGED <<row, forge, issued, late, enabled, cut, raced>>
  BY <1>0, ThreadMoves DEF Dies, IdentityTypes
<1>2. IdentityTypes'
  BY <1>0, <1>1, IdleThread DEF IdentityTypes, ExchangePlaces, RevokePlaces
<1>3. RowsStay' /\ FlightsRaced'
  BY <1>0, <1>1, IdleThread DEF RowsStay, FlightsRaced, On
<1>4. TokensApart'
  <2>1. \A s \in Exchangers : On(s, "seal") => gt[s].token # NoToken
    BY DEF TokensApart, NoToken, IdentityTypes
  <2>2. NoToken <= issued
    BY DEF IdentityTypes, NoToken
  <2>3. gt'[Command].seen.token \in {gt[Command].seen.token, NoToken}
    BY <1>0, <1>1, IdleThread
  <2>4. \A s \in Exchangers : On(s, "seal")' => On(s, "seal") /\ gt'[s] = gt[s]
    BY <1>0, <1>1, IdleThread DEF On
  <2> QED BY <1>1, <2>1, <2>2, <2>3, <2>4 DEF TokensApart
<1>5. \A x \in Accounts : Pending(x) => x \in orphaned' \/ Pending(x)'
  BY <1>0, <1>1 DEF Pending, On
<1>6. TokensKnown'
  BY <1>1, <1>5 DEF TokensKnown
<1>7. RevokeUnderway'
  <2>1. CASE t = Command
    BY <1>1, <2>1, IdleThread DEF RevokeUnderway, On
  <2>2. CASE t # Command
    <3>1. gt'[Command] = gt[Command]
      BY <1>0, <1>1, <2>2
    <3> QED BY <1>0, <1>1, <1>5, <3>1 DEF RevokeUnderway, On
  <2> QED BY <2>1, <2>2
<1>8. CutStaysDisabled' /\ CutOff'
  BY <1>1 DEF CutStaysDisabled, CutOff
<1> QED BY <1>2, <1>3, <1>4, <1>6, <1>7, <1>8

LEMMA IdentityNextKeeps == ASSUME IdentityInv, [IdentityNext]_identityVars PROVE IdentityInv'
<1>1. CASE UNCHANGED identityVars
  BY <1>1 DEF identityVars, IdentityInv, IdentityTypes, RowsStay, TokensApart, FlightsRaced,
       TokensKnown, RevokeUnderway, CutStaysDisabled, CutOff, Pending, On
<1>2. CASE IdentityNext
  BY <1>2, FlightKeeps, EnsureKeeps, QuietKeeps, CreateKeeps, MintKeeps, RevokeKeeps, MarkKeeps,
     DisableKeeps, OthersKeep, DeathKeeps DEF IdentityNext
<1> QED BY <1>1, <1>2

LEMMA IdentityInitial == ASSUME IdentityInit PROVE IdentityInv
<1>1. \A t \in GitThreads : gt[t] = Idle
  BY DEF IdentityInit
<1>2. NoRow \in IdentityRow /\ NoRow.token = NoToken
  BY DEF NoRow, IdentityRow
<1>3. IdentityTypes
  <2>1. [user |-> FALSE, token |-> NoToken] \in ForgeAccount
    BY DEF ForgeAccount
  <2>2. row \in [Accounts -> IdentityRow] /\ forge \in [Accounts -> ForgeAccount]
    BY <1>2, <2>1 DEF IdentityInit
  <2>3. gt \in [GitThreads -> GitThread]
    BY IdleThread DEF IdentityInit
  <2>4. 0 \in 0 .. MaxTokens
    OBVIOUS
  <2> QED BY <1>1, <2>2, <2>3, <2>4, IdleThread
        DEF IdentityTypes, IdentityInit, GitThreads, ExchangePlaces, RevokePlaces
<1>4. /\ \A u \in Accounts : row[u].token = NoToken /\ forge[u].token = NoToken
      /\ issued = 0 /\ cut = {} /\ enabled = Accounts
  BY <1>2 DEF IdentityInit
<1> QED BY <1>1, <1>3, <1>4, IdleThread
      DEF IdentityInv, RowsStay, TokensApart, FlightsRaced, TokensKnown, RevokeUnderway,
          CutStaysDisabled, CutOff, Pending, On, GitThreads, NoToken

-----------------------------------------------------------------------------

\* After disable-user reported that an account's git access is cut, Forgejo
\* holds no token of it, for any number of exchanges, rotations, lost answers
\* and crashes, with the three exceptions CutOff names (revoke, _mint).
THEOREM RevokedAccountsCut == IdentitySpec => [](IdentityTypeOK /\ CutOff)
<1>1. IdentityInit => IdentityInv
  BY IdentityInitial
<1>2. IdentityInv /\ [IdentityNext]_identityVars => IdentityInv'
  BY IdentityNextKeeps
<1>3. IdentityInv => IdentityTypeOK /\ CutOff
  BY DEF IdentityInv, IdentityTypes, IdentityTypeOK, ForgeAccount, GitThread
<1> QED BY <1>1, <1>2, <1>3, PTL DEF IdentitySpec

AccountsInv == AccessInv /\ TwoSuperusers /\ IdentityInv

\* Somebody can always administer the server and a cut account stays cut, in
\* every composition of the two, as long as one thread at a time is asked to
\* demote: set_superuser counts in one transaction and clears in another.
THEOREM AccountsHold ==
    ASSUME OneDemoter
    PROVE  Init /\ [][Next]_<<accessVars, identityVars, part>> => []AccountsTrue
<1>1. Init => AccountsInv
  BY AccessInitial, FlagsInitial, IdentityInitial DEF Init, AccountsInv
<1>2. AccountsInv /\ [Next]_<<accessVars, identityVars, part>> => AccountsInv'
  <2> SUFFICES ASSUME AccountsInv, [Next]_<<accessVars, identityVars, part>>
               PROVE  AccountsInv'
    OBVIOUS
  <2>1. [AccessNext]_accessVars /\ [IdentityNext]_identityVars
    BY DEF Next
  <2> QED BY <2>1, TypesNext, CachedNext, TopupsNext, FlagsNext, IdentityNextKeeps
        DEF AccountsInv, AccessInv
<1>3. AccountsInv => AccountsTrue
  BY DEF AccountsInv, AccountsTrue, AccessInv, AccessTypes, TwoSuperusers, SuperuserRemains,
         IdentityInv, IdentityTypes, IdentityTypeOK, ForgeAccount, GitThread
<1> QED BY <1>1, <1>2, <1>3, PTL
=============================================================================
