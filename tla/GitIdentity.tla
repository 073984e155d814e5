----------------------------- MODULE GitIdentity -----------------------------
(***************************************************************************)
(* The git credential of an account: backend/services/git_identity.py, the *)
(* git-credential route of backend/routes/repos.py, and disable-user and   *)
(* enable-user of backend/cli.py.                                          *)
(*                                                                         *)
(* Forgejo keeps one token per account under a fixed name; the database    *)
(* keeps its sealed copy.  Every call to Forgejo and every commit is a     *)
(* step.  A thread works on the row as it was loaded, and a commit writes  *)
(* only the columns whose value differs from that load.  Each thread is in *)
(* a process of its own, so the process-local lock of ensure orders        *)
(* nothing here.                                                           *)
(***************************************************************************)
EXTENDS Naturals

CONSTANTS
    Exchangers,   \* git-credential requests and rotations in flight
    Command,      \* the cli.py command that disables and enables accounts
    Accounts,     \* platform accounts
    MaxTokens,    \* bound: tokens Forgejo issues
    MaxToggles,   \* bound: accounts disabled or enabled
    MaxCrashes,   \* bound: threads that die in the middle
    Lossy         \* may the answer to a token request be lost?

ASSUME IdentityAssumption ==
    /\ MaxTokens \in Nat /\ MaxToggles \in Nat /\ MaxCrashes \in Nat
    /\ Lossy \in BOOLEAN /\ Command \notin Exchangers /\ Accounts # {}

VARIABLES
    row,       \* git_identities
    forge,     \* Forgejo: the account, and its token of our name
    issued,    \* tokens issued so far
    late,      \* tokens past their token_expires_at
    enabled,   \* users.is_active
    gt,        \* gt[t]: what thread t is doing
    cut,       \* accounts whose last disable-user reported "revoked"
    orphaned,  \* accounts with a token that its thread never stored, or whose
               \* stored copy a revoke that had read an older one erased
    raced,     \* accounts with an exchange in flight since they were disabled
    toggles, gcrashes

identityVars == <<row, forge, issued, late, enabled, gt, cut, orphaned, raced, toggles, gcrashes>>

GitThreads == Exchangers \cup {Command}
NoToken == 0
Token == 1 .. MaxTokens
\* A row of git_identities: is it there, revoked_at, the sealed token and its scope.
IdentityRow == [there : BOOLEAN, revoked : BOOLEAN, token : Token \cup {NoToken}, ro : BOOLEAN]
NoRow == [there |-> FALSE, revoked |-> FALSE, token |-> NoToken, ro |-> FALSE]
Idle == [pc |-> "idle", who |-> CHOOSE u \in Accounts : TRUE, ro |-> FALSE,
         seen |-> NoRow, token |-> NoToken]

IdentityInit ==
    /\ row = [u \in Accounts |-> NoRow]
    /\ forge = [u \in Accounts |-> [user |-> FALSE, token |-> NoToken]]
    /\ issued = 0 /\ late = {}
    /\ enabled = Accounts
    /\ gt = [t \in GitThreads |-> Idle]
    /\ cut = {} /\ raced = {} /\ orphaned = {}
    /\ toggles = 0 /\ gcrashes = 0

On(t, pc) == gt[t].pc = pc
Ends(t) == gt' = [gt EXCEPT ![t] = Idle]
ToStep(t, pc) == gt' = [gt EXCEPT ![t].pc = pc]
Ghosts == <<cut, orphaned, raced, toggles, gcrashes>>

-----------------------------------------------------------------------------
(* Exchange.                                                               *)

Live(r) == r.there /\ ~r.revoked
token_for(t, u, ro) ==
    gt' = [gt EXCEPT ![t] = [pc |-> IF Live(row[u]) THEN "reuse" ELSE "account", who |-> u,
                             ro |-> ro, seen |-> row[u], token |-> NoToken]]

git_credential(t) ==
    /\ On(t, "idle")
    /\ \E u \in enabled, ro \in BOOLEAN : token_for(t, u, ro)
    /\ UNCHANGED <<row, forge, issued, late, enabled, Ghosts>>

\* The batch job asks for no authenticated caller.
rotate_expired(t) ==
    /\ On(t, "idle")
    /\ \E u \in Accounts :
         /\ Live(row[u]) /\ row[u].token \in late
         /\ token_for(t, u, row[u].ro)
         /\ raced' = IF u \in enabled THEN raced ELSE raced \cup {u}
    /\ UNCHANGED <<row, forge, issued, late, enabled, cut, orphaned, toggles, gcrashes>>

ensure_user(t) ==
    /\ On(t, "account")
    /\ \/ /\ forge' = [forge EXCEPT ![gt[t].who].user = TRUE]
          /\ ToStep(t, "save")
       \/ Ends(t) /\ UNCHANGED forge
    /\ UNCHANGED <<row, issued, late, enabled, Ghosts>>

\* A new row, the row another process inserted first, or a revived one.
ensure(t) ==
    LET u == gt[t].who
        saved == IF gt[t].seen.there THEN [row[u] EXCEPT !.revoked = FALSE]
                 ELSE IF row[u].there THEN row[u] ELSE [NoRow EXCEPT !.there = TRUE] IN
    /\ On(t, "save")
    /\ row' = [row EXCEPT ![u] = saved]
    /\ gt' = [gt EXCEPT ![t].seen = saved, ![t].pc = "reuse"]
    /\ UNCHANGED <<forge, issued, late, enabled, Ghosts>>

Reusable(r, ro) == ~r.revoked /\ r.token # NoToken /\ r.token \notin late /\ r.ro = ro

_reusable_token(t) ==
    LET r == gt[t].seen IN
    /\ On(t, "reuse")
    /\ IF Reusable(r, gt[t].ro) THEN Ends(t)
       ELSE ToStep(t, IF r.token # NoToken THEN "drop" ELSE "create")
    /\ UNCHANGED <<row, forge, issued, late, enabled, Ghosts>>

\* Forgejo's answer: done, already gone, or an error that _mint ignores.
drop_old(t) ==
    /\ On(t, "drop") /\ ToStep(t, "create")
    /\ \/ forge' = [forge EXCEPT ![gt[t].who].token = NoToken]
       \/ UNCHANGED forge
    /\ UNCHANGED <<row, issued, late, enabled, Ghosts>>

\* A second token of the same name is refused, as is one for no account.
create_token(t) ==
    LET u == gt[t].who IN
    /\ On(t, "create")
    /\ \/ /\ forge[u].user /\ forge[u].token = NoToken /\ issued < MaxTokens
          /\ issued' = issued + 1
          /\ forge' = [forge EXCEPT ![u].token = issued + 1]
          /\ \/ gt' = [gt EXCEPT ![t].token = issued + 1, ![t].pc = "seal"]
                /\ UNCHANGED orphaned
             \/ Lossy /\ Ends(t) /\ orphaned' = orphaned \cup {u}
       \/ Ends(t) /\ UNCHANGED <<forge, issued, orphaned>>
    /\ UNCHANGED <<row, late, enabled, cut, raced, toggles, gcrashes>>

_mint(t) ==
    LET u == gt[t].who IN
    /\ On(t, "seal")
    /\ row' = [row EXCEPT ![u].token = gt[t].token, ![u].ro = gt[t].ro,
                          ![u].revoked = IF gt[t].seen.revoked THEN FALSE ELSE @]
    /\ Ends(t)
    /\ UNCHANGED <<forge, issued, late, enabled, Ghosts>>

-----------------------------------------------------------------------------
(* Disabling and enabling.                                                 *)

InFlight(u) == \E t \in Exchangers : ~On(t, "idle") /\ gt[t].who = u

\* set_active(False) commits, then revoke() loads the row.
cmd_disable_user ==
    /\ On(Command, "idle") /\ toggles < MaxToggles
    /\ \E u \in enabled :
         /\ enabled' = enabled \ {u}
         /\ gt' = [gt EXCEPT ![Command] = [Idle EXCEPT !.pc = "find", !.who = u]]
         /\ raced' = IF InFlight(u) THEN raced \cup {u} ELSE raced \ {u}
    /\ toggles' = toggles + 1
    /\ UNCHANGED <<row, forge, issued, late, cut, orphaned, gcrashes>>

revoke_find ==
    LET r == row[gt[Command].who] IN
    /\ On(Command, "find")
    /\ gt' = [gt EXCEPT ![Command].seen = r,
                        ![Command].pc = IF ~r.there THEN "idle"
                                        ELSE IF r.token # NoToken THEN "cut" ELSE "unlist"]
    /\ UNCHANGED <<row, forge, issued, late, enabled, Ghosts>>

revoke_remote_best_effort ==
    /\ On(Command, "cut") /\ ToStep(Command, "unlist")
    /\ \/ forge' = [forge EXCEPT ![gt[Command].who].token = NoToken]
       \/ UNCHANGED forge
    /\ UNCHANGED <<row, issued, late, enabled, Ghosts>>

\* The remote token goes first; a failure is reported and nothing is written.
revoke_remote ==
    /\ On(Command, "cut")
    /\ \/ /\ forge' = [forge EXCEPT ![gt[Command].who].token = NoToken]
          /\ ToStep(Command, "unlist")
       \/ Ends(Command) /\ UNCHANGED forge
    /\ UNCHANGED <<row, issued, late, enabled, Ghosts>>

\* --delete-forgejo-user, best effort; the account takes its tokens with it.
revoke_user ==
    /\ On(Command, "unlist") /\ ToStep(Command, "mark")
    /\ \/ forge' = [forge EXCEPT ![gt[Command].who] = [user |-> FALSE, token |-> NoToken]]
       \/ UNCHANGED forge
    /\ UNCHANGED <<row, issued, late, enabled, Ghosts>>

revoke ==
    LET u == gt[Command].who
        r == gt[Command].seen IN
    /\ On(Command, "mark")
    /\ row' = [row EXCEPT ![u].token = IF r.token # NoToken THEN NoToken ELSE @,
                          ![u].revoked = TRUE]
    /\ cut' = cut \cup {u}
    /\ orphaned' = IF r.token \notin {NoToken, row[u].token} /\ forge[u].token # NoToken
                   THEN orphaned \cup {u} ELSE orphaned
    /\ Ends(Command)
    /\ UNCHANGED <<forge, issued, late, enabled, raced, toggles, gcrashes>>

cmd_enable_user ==
    /\ On(Command, "idle") /\ toggles < MaxToggles
    /\ \E u \in Accounts \ enabled :
         enabled' = enabled \cup {u} /\ cut' = cut \ {u}
    /\ toggles' = toggles + 1
    /\ UNCHANGED <<row, forge, issued, late, gt, orphaned, raced, gcrashes>>

_is_expired ==
    /\ \E k \in 1 .. issued : k \notin late /\ late' = late \cup {k}
    /\ UNCHANGED <<row, forge, issued, enabled, gt, Ghosts>>

Dies(t) ==
    /\ ~On(t, "idle") /\ gcrashes < MaxCrashes /\ gcrashes' = gcrashes + 1
    /\ orphaned' = IF On(t, "seal") THEN orphaned \cup {gt[t].who} ELSE orphaned
    /\ Ends(t)
    /\ UNCHANGED <<row, forge, issued, late, enabled, cut, raced, toggles>>

IdentityNext ==
    \/ \E t \in Exchangers :
         \/ git_credential(t) \/ rotate_expired(t) \/ ensure_user(t) \/ ensure(t)
         \/ _reusable_token(t) \/ drop_old(t) \/ create_token(t) \/ _mint(t)
    \/ cmd_disable_user \/ revoke_find \/ revoke_remote \/ revoke_user \/ revoke
    \/ cmd_enable_user \/ _is_expired
    \/ \E t \in GitThreads : Dies(t)

IdentitySpec == IdentityInit /\ [][IdentityNext]_identityVars

-----------------------------------------------------------------------------
(* Properties.                                                             *)

IdentityTypeOK ==
    /\ row \in [Accounts -> IdentityRow]
    /\ forge \in [Accounts -> [user : BOOLEAN, token : Token \cup {NoToken}]]
    /\ issued \in 0 .. MaxTokens /\ late \subseteq Token
    /\ \A s \in {enabled, cut, raced} : s \subseteq Accounts
    /\ \A t \in GitThreads : gt[t].who \in Accounts /\ gt[t].token \in Token \cup {NoToken}

\* "revoked" is the truth: after disable-user reported that an account's git
\* access is cut, Forgejo holds no token of it, unless an exchange of that
\* account was already running when it was disabled, one died between the
\* token's creation and the commit that stores it, or an earlier revoke erased
\* a token that was stored after it had read the row (revoke, cmd_disable_user).
CutOff == \A u \in cut \ (raced \cup enabled \cup orphaned) : forge[u].token = NoToken

\* What _revoke_git_identity says of "revoked": the remote token is gone.
RevokedIsGone == \A u \in cut \ (raced \cup enabled) : forge[u].token = NoToken
=============================================================================
