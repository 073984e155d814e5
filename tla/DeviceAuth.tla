----------------------------- MODULE DeviceAuth -----------------------------
(***************************************************************************)
(* The device flow: backend/services/device_auth.py and                    *)
(* backend/routes/device.py.  A plugin starts a request and polls it, a    *)
(* signed-in user approves its user code, and the key minted for that user *)
(* is handed to the plugin's next poll.                                    *)
(*                                                                         *)
(* Requests live in one JSON document.  Every operation of the store reads *)
(* the whole document and replaces it, under a lock that belongs to the    *)
(* store object; _store() builds that object on first use without a lock   *)
(* of its own.  Time is the set of requests whose deadline has passed.     *)
(***************************************************************************)
EXTENDS Naturals

CONSTANTS
    Threads,      \* request threads of the server process
    Devices,      \* device codes, each given out once
    UserCodes,    \* user codes; a code may return once its request is gone
    Keys,         \* API keys, each minted once
    Stores,       \* bound: the store objects one process builds
    MaxCrashes,   \* bound: process restarts
    NoThread, NoDevice, NoCode, NoKey, NoStore

ASSUME DeviceAssumption == NoDevice \notin Devices /\ NoCode \notin UserCodes
ASSUME KeyAssumption == NoKey \notin Keys /\ NoThread \notin Threads
ASSUME StoreAssumption == NoStore \notin Stores
ASSUME CrashAssumption == MaxCrashes \in Nat

VARIABLES
    file,      \* device_codes.json: the entry of each device code
    used,      \* device codes given out
    late,      \* device codes whose expires_at has passed
    app,       \* current_app.extensions["device_auth"]
    built,     \* the stores this process has built
    lock,      \* lock[s]: the thread inside the critical section of store s
    pc,        \* pc[t]: where t is in its request
    req,       \* req[t]: what t was asked to do
    at,        \* at[t]: the store t works with
    snap,      \* snap[t]: the document t read under the lock
    key,       \* key[t]: the key t minted or is about to return
    minted,    \* minted[k]: the device code whose approval minted k
    handed,    \* handed[k]: the polls that were answered with k
    crashes    \* process restarts so far

storeVars == <<app, built, lock>>
threadVars == <<pc, req, at, snap, key>>
keyVars == <<minted, handed>>
vars == <<file, used, late, storeVars, threadVars, keyVars, crashes>>

NoEntry == [code |-> NoCode, status |-> "absent", key |-> NoKey]
Entry == [code : UserCodes \cup {NoCode}, status : {"absent", "pending", "approved"},
          key : Keys \cup {NoKey}]
Empty == [d \in Devices |-> NoEntry]

NoRequest == [op |-> "none", code |-> NoCode, dev |-> NoDevice]
Request == [op : {"none", "code", "page", "check", "bind", "token"},
            code : UserCodes \cup {NoCode}, dev : Devices \cup {NoDevice}]

TypeOK ==
    /\ file \in [Devices -> Entry]
    /\ used \subseteq Devices
    /\ late \subseteq used
    /\ app \in built \cup {NoStore}
    /\ built \subseteq Stores
    /\ lock \in [Stores -> Threads \cup {NoThread}]
    /\ pc \in [Threads -> {"idle", "lookup", "build", "acquire", "locked", "mint", "reply"}]
    /\ req \in [Threads -> Request]
    /\ at \in [Threads -> Stores \cup {NoStore}]
    /\ snap \in [Threads -> [Devices -> Entry]]
    /\ key \in [Threads -> Keys \cup {NoKey}]
    /\ minted \in [Keys -> Devices \cup {NoDevice}]
    /\ handed \in [Keys -> Nat]
    /\ crashes \in 0..MaxCrashes

-----------------------------------------------------------------------------
(* The document.                                                           *)

\* _purge
Purged(doc) == [d \in Devices |-> IF d \in late THEN NoEntry ELSE doc[d]]

Present(doc) == {d \in Devices : doc[d].status # "absent"}
Codes(doc) == {doc[d].code : d \in Present(doc)}
Named(doc, c) == {d \in Present(doc) : doc[d].code = c}

-----------------------------------------------------------------------------
Init ==
    /\ file = Empty
    /\ used = {}
    /\ late = {}
    /\ app = NoStore
    /\ built = {}
    /\ lock = [s \in Stores |-> NoThread]
    /\ pc = [t \in Threads |-> "idle"]
    /\ req = [t \in Threads |-> NoRequest]
    /\ at = [t \in Threads |-> NoStore]
    /\ snap = [t \in Threads |-> Empty]
    /\ key = [t \in Threads |-> NoKey]
    /\ minted = [k \in Keys |-> NoDevice]
    /\ handed = [k \in Keys |-> 0]
    /\ crashes = 0

-----------------------------------------------------------------------------
(* A request reaches the store.                                            *)

\* code: POST device/code; page: GET /device; check: POST /device/approve;
\* token: POST device/token.
Asked ==
    {[op |-> "code", code |-> NoCode, dev |-> NoDevice]}
      \cup [op : {"page", "check"}, code : UserCodes, dev : {NoDevice}]
      \cup [op : {"token"}, code : {NoCode}, dev : used]

Arrive(t) ==
    /\ pc[t] = "idle"
    /\ \E q \in Asked : req' = [req EXCEPT ![t] = q]
    /\ pc' = [pc EXCEPT ![t] = "lookup"]
    /\ UNCHANGED <<file, used, late, storeVars, at, snap, key, keyVars, crashes>>

\* _store: read the cached store ...
LookupStore(t) ==
    /\ pc[t] = "lookup"
    /\ pc' = [pc EXCEPT ![t] = IF app = NoStore THEN "build" ELSE "acquire"]
    /\ at' = [at EXCEPT ![t] = app]
    /\ UNCHANGED <<file, used, late, storeVars, req, snap, key, keyVars, crashes>>

\* ... and build and cache a new one when there was none.  Stores bounds the
\* builds: a thread that finds none left takes the cached one, as if it had
\* looked later.
BuildStore(t) ==
    /\ pc[t] = "build"
    /\ \E s \in IF built = Stores THEN Stores \cap {app} ELSE Stores \ built :
         /\ built' = built \cup {s}
         /\ app' = s
         /\ at' = [at EXCEPT ![t] = s]
    /\ pc' = [pc EXCEPT ![t] = "acquire"]
    /\ UNCHANGED <<file, used, late, lock, req, snap, key, keyVars, crashes>>

\* Mutation of Acquire: the read is outside the lock.
AcquireUnlocked(t) ==
    /\ pc[t] = "acquire"
    /\ pc' = [pc EXCEPT ![t] = "locked"]
    /\ snap' = [snap EXCEPT ![t] = file]
    /\ UNCHANGED <<file, used, late, storeVars, req, at, key, keyVars, crashes>>

\* with self._lock: requests = self._read()
Acquire(t) ==
    /\ pc[t] = "acquire"
    /\ lock[at[t]] = NoThread
    /\ lock' = [lock EXCEPT ![at[t]] = t]
    /\ pc' = [pc EXCEPT ![t] = "locked"]
    /\ snap' = [snap EXCEPT ![t] = file]
    /\ UNCHANGED <<file, used, late, app, built, req, at, key, keyVars, crashes>>

\* The lock is released and the request goes on at p, or is answered.
Release(t, p) ==
    /\ lock' = [lock EXCEPT ![at[t]] = NoThread]
    /\ pc' = [pc EXCEPT ![t] = p]
    /\ snap' = [snap EXCEPT ![t] = Empty]
    /\ UNCHANGED <<app, built>>

Forget(t) ==
    /\ req' = [req EXCEPT ![t] = NoRequest]
    /\ at' = [at EXCEPT ![t] = NoStore]
    /\ key' = [key EXCEPT ![t] = NoKey]

Inside(t, ops) == pc[t] = "locked" /\ req[t].op \in ops

-----------------------------------------------------------------------------
(* The operations of the store.                                            *)

Added(doc, d, c) == [doc EXCEPT ![d] = [code |-> c, status |-> "pending", key |-> NoKey]]

\* Mutation of Create: a colliding user code is not drawn again.
CreateShadowing(t) ==
    /\ Inside(t, {"code"})
    /\ \E d \in Devices \ used, c \in UserCodes :
         /\ file' = Added(Purged(snap[t]), d, c)
         /\ used' = used \cup {d}
    /\ Release(t, "idle") /\ Forget(t)
    /\ UNCHANGED <<late, keyVars, crashes>>

\* create: purge, draw a user code no live request has, append.
Create(t) ==
    /\ Inside(t, {"code"})
    /\ \E d \in Devices \ used, c \in UserCodes \ Codes(Purged(snap[t])) :
         /\ file' = Added(Purged(snap[t]), d, c)
         /\ used' = used \cup {d}
    /\ Release(t, "idle") /\ Forget(t)
    /\ UNCHANGED <<late, keyVars, crashes>>

\* describe_user_code: purge and write, then look the code up.  The page is
\* rendered either way; the approval goes on when the request is pending.
Describe(t) ==
    /\ Inside(t, {"page", "check"})
    /\ file' = Purged(snap[t])
    /\ \/ /\ \E d \in Named(Purged(snap[t]), req[t].code) :
               /\ snap[t][d].status = "pending"
               /\ req' = [req EXCEPT ![t].dev = d]
          /\ req[t].op = "check"
          /\ Release(t, "mint")
          /\ UNCHANGED <<at, key>>
       \/ /\ \/ req[t].op = "page"
             \/ \A d \in Named(Purged(snap[t]), req[t].code) :
                  snap[t][d].status = "approved"
          /\ Release(t, "idle") /\ Forget(t)
    /\ UNCHANGED <<used, late, keyVars, crashes>>

\* create_key commits a key for the approver, outside the store's lock; a
\* database error ends the request instead.
Mint(t) ==
    /\ pc[t] = "mint"
    /\ \E k \in Keys :
         /\ minted[k] = NoDevice
         /\ minted' = [minted EXCEPT ![k] = req[t].dev]
         /\ key' = [key EXCEPT ![t] = k]
    /\ req' = [req EXCEPT ![t].op = "bind"]
    /\ pc' = [pc EXCEPT ![t] = "acquire"]
    /\ UNCHANGED <<file, used, late, storeVars, at, snap, handed, crashes>>

MintFails(t) ==
    /\ pc[t] = "mint"
    /\ pc' = [pc EXCEPT ![t] = "idle"]
    /\ Forget(t)
    /\ UNCHANGED <<file, used, late, storeVars, snap, keyVars, crashes>>

Approved(doc, d, k) == [doc EXCEPT ![d].status = "approved", ![d].key = k]

\* Mutation of Approve: an approved request is approved again.
ApproveAny(t) ==
    /\ Inside(t, {"bind"})
    /\ \E d \in Present(Purged(snap[t])) :
         file' = Approved(Purged(snap[t]), d, key[t])
    /\ Release(t, "idle") /\ Forget(t)
    /\ UNCHANGED <<used, late, keyVars, crashes>>

\* approve: bind the key to the pending request; a request that is gone or
\* approved by now raises, and the document is not written.
Approve(t) ==
    /\ Inside(t, {"bind"})
    /\ \/ \E d \in Named(Purged(snap[t]), req[t].code) :
            /\ snap[t][d].status = "pending"
            /\ file' = Approved(Purged(snap[t]), d, key[t])
       \/ /\ \A d \in Named(Purged(snap[t]), req[t].code) :
               snap[t][d].status = "approved"
          /\ UNCHANGED file
    /\ Release(t, "idle") /\ Forget(t)
    /\ UNCHANGED <<used, late, keyVars, crashes>>

\* Mutation of Dropped: the entry is marked and stays in the document.
DroppedMarked(doc, d) == [doc EXCEPT ![d].status = "consumed"]

Dropped(doc, d) == [doc EXCEPT ![d] = NoEntry]

\* Mutation of Redeem: an approved request is answered and kept.
RedeemKeeps(t) ==
    /\ Inside(t, {"token"})
    /\ LET d == req[t].dev
       IN  IF snap[t][d].status = "approved" /\ d \notin late
           THEN /\ Release(t, "reply")
                /\ key' = [key EXCEPT ![t] = snap[t][d].key]
                /\ file' = snap[t]
                /\ UNCHANGED <<req, at>>
           ELSE /\ Release(t, "idle") /\ Forget(t)
                /\ file' = IF d \in late THEN Dropped(snap[t], d) ELSE file
    /\ UNCHANGED <<used, late, keyVars, crashes>>

\* redeem: one poll.  An unknown code writes nothing, an expired entry is
\* dropped, a pending one is written back (its poll count), an approved one
\* is dropped before it is answered.
Redeem(t) ==
    LET d == req[t].dev
    IN  /\ Inside(t, {"token"})
        /\ \/ /\ d \notin Present(snap[t])
              /\ UNCHANGED file
              /\ Release(t, "idle") /\ Forget(t)
           \/ /\ d \in Present(snap[t]) /\ d \in late
              /\ file' = Dropped(snap[t], d)
              /\ Release(t, "idle") /\ Forget(t)
           \/ /\ d \notin late /\ snap[t][d].status = "pending"
              /\ file' = snap[t]
              /\ Release(t, "idle") /\ Forget(t)
           \/ /\ d \notin late /\ snap[t][d].status = "approved"
              /\ file' = Dropped(snap[t], d)
              /\ Release(t, "reply")
              /\ key' = [key EXCEPT ![t] = snap[t][d].key]
              /\ UNCHANGED <<req, at>>
        /\ UNCHANGED <<used, late, keyVars, crashes>>

\* Mutation of WriteFails: the error leaves the critical section locked.
WriteFailsLocked(t) ==
    /\ pc[t] = "locked"
    /\ pc' = [pc EXCEPT ![t] = "idle"]
    /\ snap' = [snap EXCEPT ![t] = Empty]
    /\ Forget(t)
    /\ UNCHANGED <<file, used, late, storeVars, keyVars, crashes>>

\* _write raises (a full disk): the request fails, the old document stays.
WriteFails(t) ==
    /\ pc[t] = "locked"
    /\ Release(t, "idle") /\ Forget(t)
    /\ UNCHANGED <<file, used, late, keyVars, crashes>>

\* The answer leaves with the key.
Reply(t) ==
    /\ pc[t] = "reply"
    /\ handed' = [handed EXCEPT ![key[t]] = @ + 1]
    /\ pc' = [pc EXCEPT ![t] = "idle"]
    /\ Forget(t)
    /\ UNCHANGED <<file, used, late, storeVars, snap, minted, crashes>>

-----------------------------------------------------------------------------
Expire(d) ==
    /\ d \in used \ late
    /\ late' = late \cup {d}
    /\ UNCHANGED <<file, used, storeVars, threadVars, keyVars, crashes>>

\* The process is restarted (an upgrade recycles the worker): the document
\* stays, its replacement being atomic; threads, stores and locks go.
Crash ==
    /\ crashes < MaxCrashes
    /\ crashes' = crashes + 1
    /\ app' = NoStore
    /\ built' = {}
    /\ lock' = [s \in Stores |-> NoThread]
    /\ pc' = [t \in Threads |-> "idle"]
    /\ req' = [t \in Threads |-> NoRequest]
    /\ at' = [t \in Threads |-> NoStore]
    /\ snap' = [t \in Threads |-> Empty]
    /\ key' = [t \in Threads |-> NoKey]
    /\ UNCHANGED <<file, used, late, keyVars>>

Serve(t) ==
    \/ LookupStore(t) \/ BuildStore(t) \/ Acquire(t)
    \/ Create(t) \/ Describe(t) \/ Mint(t) \/ MintFails(t)
    \/ Approve(t) \/ Redeem(t) \/ WriteFails(t) \/ Reply(t)

Next ==
    \/ \E t \in Threads : Arrive(t) \/ Serve(t)
    \/ \E d \in Devices : Expire(d)
    \/ Crash

Spec == Init /\ [][Next]_vars

(***************************************************************************)
(* Fairness: a thread that serves a request goes on, and the lock is       *)
(* granted to a thread that finds it free again and again.                 *)
(***************************************************************************)
Fairness == \A t \in Threads : WF_vars(Serve(t)) /\ SF_vars(Acquire(t))

FairSpec == Spec /\ Fairness

-----------------------------------------------------------------------------
(* Safety.                                                                 *)

\* create: "Re-roll a code collision rather than shadowing a live request".
\* No two requests in the document share a user code, so an approval means
\* one request, whatever the threads that replace the document overwrite.
DistinctCodes ==
    \A d, e \in Present(file) : file[d].code = file[e].code => d = e

\* redeem: "the key is returned exactly once".  No key is answered to two
\* polls, however they overlap with each other, approvals and restarts.
KeyHandedOnce == \A k \in Keys : handed[k] <= 1

\* A key reaches nobody but the request it was approved for: an entry holds a
\* key if and only if it is approved, and no other entry holds the same key.
KeyBinding ==
    \A d \in Devices :
        /\ file[d].status = "approved" <=> file[d].key # NoKey
        /\ file[d].status = "approved" => handed[file[d].key] = 0
        /\ \A e \in Devices : file[d].key = file[e].key /\ file[d].key # NoKey => d = e

\* An approval is not lost: an approved entry leaves the document when it
\* expires or when a poll takes its key, never because another operation
\* replaced the document.
ApprovalKept ==
    [][\A d \in Devices :
         file[d].status = "approved" /\ file'[d] # file[d] =>
            \/ d \in late
            \/ \E t \in Threads : pc'[t] = "reply" /\ key'[t] = file[d].key]_vars

\* Every request is answered: no error path keeps the lock.
RequestEnds == \A t \in Threads : pc[t] # "idle" ~> pc[t] = "idle"
=============================================================================
