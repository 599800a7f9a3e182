----------------------------- MODULE QuotaStore -----------------------------
(***************************************************************************)
(* The store behind IncreaseUserQuota, DecreaseUserQuota and their token   *)
(* counterparts (model/user.go, model/token.go).                           *)
(*                                                                         *)
(* A change goes to the database column in one relative UPDATE or, with    *)
(* BATCH_UPDATE_ENABLED, to a map in memory that a background loop writes  *)
(* out (model/utils.go).  With Redis, a goroutine started next to it moves *)
(* the cached copy by the same amount, and readers refill the copy from    *)
(* the column when it has expired (model/user_cache.go, token_cache.go).   *)
(* One process is modelled; used_quota and the statistics are left out.    *)
(***************************************************************************)
EXTENDS Integers, FiniteSetsExt

CONSTANTS
    Ops,          \* the calls that change a quota
    Users, Tokens,\* the accounts: users.quota, tokens.remain_quota
    Readers,      \* requests that read a quota
    Editors,      \* status-only updates of a token
    QuietEdits,   \* the quota of a token does not move while it is edited
    Amounts,      \* the changes explored
    InitQuota,    \* the quota of every account at the start
    BatchEnabled, \* common.BatchUpdateEnabled
    RedisEnabled, \* common.RedisEnabled
    Faults        \* the failures explored: see FaultKinds

(* "statement": an UPDATE returns an error to its caller; "flush": an      *)
(* UPDATE of the background loop fails; "crash": the process restarts.     *)
FaultKinds == {"statement", "flush", "crash"}

Accounts == Users \cup Tokens

(* direct is the parameter db of the user functions; the token functions   *)
(* have none.                                                              *)
CallType == {c \in [account: Accounts, amount: Amounts, direct: BOOLEAN] :
                c.direct => c.account \in Users}

ASSUME QuotaStoreAssumption ==
    /\ Amounts \subseteq Int \ {0}
    /\ InitQuota \in Int
    /\ Users # {}      \* createRootAccountIfNeed
    /\ {BatchEnabled, RedisEnabled, QuietEdits} \subseteq BOOLEAN
    /\ Faults \subseteq FaultKinds

VARIABLES
    call,     \* what each call asks for; never changes
    where,    \* how far the change of a call has come
    job,      \* the call's cache goroutine
    column,   \* the database columns
    pending,  \* batchUpdateStores
    flushing, \* stores: the maps taken by the running batchUpdate
    cache,    \* the Redis hashes
    fill,     \* the row a goroutine is about to cache
    edit      \* the row an editor has read and not written yet

vars == <<call, where, job, column, pending, flushing, cache, fill, edit>>

Where == {"new", "called", "pending", "flushing", "stored", "lost", "failed"}
Job == {"none", "queued", "checked", "done"}

(* A hash without hit is absent; one that is not whole was created by      *)
(* HINCRBY and holds no field but the quota.                               *)
Hash == [hit: BOOLEAN, quota: Int, whole: BOOLEAN]
Absent == [hit |-> FALSE, quota |-> 0, whole |-> FALSE]

Nothing == [busy |-> FALSE, account |-> CHOOSE a \in Accounts : TRUE,
            quota |-> 0]
Snapshot == [busy: BOOLEAN, account: Accounts, quota: Int]
Row(a) == [busy |-> TRUE, account |-> a, quota |-> column[a]]

memory == <<pending, flushing>>

Init ==
    /\ call \in [Ops -> CallType]
    /\ where = [o \in Ops |-> "new"]
    /\ job = [o \in Ops |-> "none"]
    /\ column = [a \in Accounts |-> InitQuota]
    /\ pending = [a \in Accounts |-> 0]
    /\ flushing = [a \in Accounts |-> 0]
    /\ cache = [a \in Accounts |-> Absent]
    /\ fill = [r \in Readers \cup Editors |-> Nothing]
    /\ edit = [e \in Editors |-> Nothing]

-----------------------------------------------------------------------------
(* A call that changes a quota *)

(* Mutant: the cached copy is left alone.                                  *)
Begin_NoCache(o) ==
    /\ where[o] = "new"
    /\ where' = [where EXCEPT ![o] = "called"]
    /\ UNCHANGED <<call, job, column, memory, cache, fill, edit>>

\* The call starts the goroutine that moves the cache.
Begin(o) ==
    /\ where[o] = "new"
    /\ where' = [where EXCEPT ![o] = "called"]
    /\ job' = [job EXCEPT ![o] = IF RedisEnabled THEN "queued" ELSE "done"]
    /\ UNCHANGED <<call, column, memory, cache, fill, edit>>

(* Mutant: the parameter db is not looked at.                              *)
Batched_Direct(o) == BatchEnabled

Batched(o) == BatchEnabled /\ ~call[o].direct

\* addNewRecord
AddNewRecord(o) ==
    /\ where[o] = "called"
    /\ Batched(o)
    /\ pending' = [pending EXCEPT ![call[o].account] = @ + call[o].amount]
    /\ where' = [where EXCEPT ![o] = "pending"]
    /\ UNCHANGED <<call, job, column, flushing, cache, fill, edit>>

\* increaseUserQuota, decreaseUserQuota and the token statements.
UpdateColumn(o) ==
    /\ where[o] = "called"
    /\ ~Batched(o)
    /\ \/ /\ column' = [column EXCEPT ![call[o].account] = @ + call[o].amount]
          /\ where' = [where EXCEPT ![o] = "stored"]
       \/ /\ "statement" \in Faults
          /\ where' = [where EXCEPT ![o] = "failed"]
          /\ UNCHANGED column
    /\ UNCHANGED <<call, job, memory, cache, fill, edit>>

\* RedisHIncrBy asks for the TTL first and does nothing without one.
CheckTTL(o) ==
    /\ job[o] = "queued"
    /\ job' = [job EXCEPT ![o] = IF cache[call[o].account].hit
                                 THEN "checked" ELSE "done"]
    /\ UNCHANGED <<call, where, column, memory, cache, fill, edit>>

\* The transaction: on a hash that is gone, HINCRBY creates one.
IncrCache(o) ==
    LET a == call[o].account
        old == cache[a]
    IN  /\ job[o] = "checked"
        /\ job' = [job EXCEPT ![o] = "done"]
        /\ cache' = [cache EXCEPT ![a] =
                [hit |-> TRUE, quota |-> old.quota + call[o].amount,
                 whole |-> old.whole]]
        /\ UNCHANGED <<call, where, column, memory, fill, edit>>

-----------------------------------------------------------------------------
(* batchUpdate *)

(* Mutants: the maps are not replaced; a batch of one is not worth it.     *)
TakeBatch_Kept ==
    /\ \A a \in Accounts : flushing[a] = 0
    /\ \A o \in Ops : where[o] # "flushing"
    /\ \E o \in Ops : where[o] = "pending"
    /\ flushing' = pending
    /\ where' = [o \in Ops |-> IF where[o] = "pending" THEN "flushing"
                                                       ELSE where[o]]
    /\ UNCHANGED <<call, job, column, pending, cache, fill, edit>>

TakeBatch_OfTwo ==
    /\ \A a \in Accounts : flushing[a] = 0
    /\ \A o \in Ops : where[o] # "flushing"
    /\ \E o, q \in Ops : o # q /\ {where[o], where[q]} = {"pending"}
    /\ flushing' = pending
    /\ pending' = [a \in Accounts |-> 0]
    /\ where' = [o \in Ops |-> IF where[o] = "pending" THEN "flushing"
                                                       ELSE where[o]]
    /\ UNCHANGED <<call, job, column, cache, fill, edit>>

\* The maps are taken over under their locks and replaced by empty ones.
TakeBatch ==
    /\ \A a \in Accounts : flushing[a] = 0
    /\ \A o \in Ops : where[o] # "flushing"
    /\ \E o \in Ops : where[o] = "pending"
    /\ flushing' = pending
    /\ pending' = [a \in Accounts |-> 0]
    /\ where' = [o \in Ops |-> IF where[o] = "pending" THEN "flushing"
                                                       ELSE where[o]]
    /\ UNCHANGED <<call, job, column, cache, fill, edit>>

\* One account of the batch; an error is only logged.
FlushAccount(a) ==
    LET batch == {o \in Ops : where[o] = "flushing" /\ call[o].account = a}
        Move(state) == [o \in Ops |-> IF o \in batch THEN state ELSE where[o]]
    IN  /\ batch # {}
        /\ \/ /\ column' = [column EXCEPT ![a] = @ + flushing[a]]
              /\ where' = Move("stored")
           \/ /\ "flush" \in Faults
              /\ where' = Move("lost")
              /\ UNCHANGED column
        /\ flushing' = [flushing EXCEPT ![a] = 0]
        /\ UNCHANGED <<call, job, pending, cache, fill, edit>>

-----------------------------------------------------------------------------
(* The cached copy.  A hash is dropped and refilled without any ordering   *)
(* with the goroutines that move it.                                       *)

(* Mutant: a hash that HINCRBY created has no TTL.                         *)
DropCache_Whole(a) ==
    /\ cache[a].hit
    /\ cache[a].whole
    /\ cache' = [cache EXCEPT ![a] = Absent]
    /\ UNCHANGED <<call, where, job, column, memory, fill, edit>>

\* The TTL runs out, or InvalidateUserCache or cacheDeleteToken removes it.
DropCache(a) ==
    /\ cache[a].hit
    /\ cache' = [cache EXCEPT ![a] = Absent]
    /\ UNCHANGED <<call, where, job, column, memory, fill, edit>>

(* GetUserCache and GetTokenByKey fall back to the database when the hash  *)
(* is absent; GetTokenById always reads it.  All of them cache the row in  *)
(* a goroutine.  (GetUserQuota after a miss writes only the quota, and only*)
(* into a hash that another reader has filled meanwhile: Populate covers   *)
(* that write.)                                                            *)
ReadColumn(r, a) ==
    /\ RedisEnabled
    /\ ~fill[r].busy
    /\ ~cache[a].hit \/ a \in Tokens
    /\ fill' = [fill EXCEPT ![r] = Row(a)]
    /\ UNCHANGED <<call, where, job, column, memory, cache, edit>>

\* populateUserCache, cacheSetToken
Populate(r) ==
    /\ fill[r].busy
    /\ cache' = [cache EXCEPT ![fill[r].account] =
            [hit |-> TRUE, quota |-> fill[r].quota, whole |-> TRUE]]
    /\ fill' = [fill EXCEPT ![r] = Nothing]
    /\ UNCHANGED <<call, where, job, column, memory, edit>>

-----------------------------------------------------------------------------
(* UpdateToken with status_only reads the row and writes it back with      *)
(* Token.Update, remain_quota included; a goroutine then caches it.        *)
EditRead(e, t) ==
    /\ ~edit[e].busy
    /\ ~fill[e].busy
    /\ edit' = [edit EXCEPT ![e] = Row(t)]
    /\ UNCHANGED <<call, where, job, column, memory, cache, fill>>

EditWrite(e) ==
    /\ edit[e].busy
    /\ QuietEdits => column[edit[e].account] = edit[e].quota
    /\ column' = [column EXCEPT ![edit[e].account] = edit[e].quota]
    /\ edit' = [edit EXCEPT ![e] = Nothing]
    /\ fill' = IF RedisEnabled THEN [fill EXCEPT ![e] = edit[e]] ELSE fill
    /\ UNCHANGED <<call, where, job, memory, cache>>

\* The process restarts: its memory and its goroutines are gone.
Crash ==
    /\ "crash" \in Faults
    /\ \E o \in Ops : where[o] \in {"called", "pending", "flushing"}
    /\ where' = [o \in Ops |->
            CASE where[o] \in {"pending", "flushing"} -> "lost"
              [] where[o] = "called" -> "failed"
              [] OTHER -> where[o]]
    /\ job' = [o \in Ops |-> IF where[o] = "new" THEN "none" ELSE "done"]
    /\ pending' = [a \in Accounts |-> 0]
    /\ flushing' = [a \in Accounts |-> 0]
    /\ fill' = [r \in Readers \cup Editors |-> Nothing]
    /\ edit' = [e \in Editors |-> Nothing]
    /\ UNCHANGED <<call, column, cache>>

-----------------------------------------------------------------------------
Next ==
    \/ \E o \in Ops : \/ Begin(o) \/ AddNewRecord(o) \/ UpdateColumn(o)
                      \/ CheckTTL(o) \/ IncrCache(o)
    \/ TakeBatch
    \/ \E a \in Accounts : FlushAccount(a) \/ DropCache(a)
    \/ \E r \in Readers, a \in Accounts : ReadColumn(r, a)
    \/ \E r \in Readers \cup Editors : Populate(r)
    \/ \E e \in Editors : (\E t \in Tokens : EditRead(e, t)) \/ EditWrite(e)
    \/ Crash

Spec == Init /\ [][Next]_vars

(* Calls that have begun return, goroutines run, the batch loop turns and  *)
(* the TTL of a hash runs out.  Nobody has to make a call or read a quota. *)
Fairness ==
    /\ \A o \in Ops : /\ WF_vars(AddNewRecord(o)) /\ WF_vars(UpdateColumn(o))
                      /\ WF_vars(CheckTTL(o)) /\ WF_vars(IncrCache(o))
    /\ WF_vars(TakeBatch)
    /\ \A a \in Accounts : WF_vars(FlushAccount(a)) /\ WF_vars(DropCache(a))
    /\ \A r \in Readers \cup Editors : WF_vars(Populate(r))

FairSpec == Spec /\ Fairness

-----------------------------------------------------------------------------
\* The columns, the maps, the hashes and the calls have their types, and
\* every call that has begun has its goroutine.
TypeOK ==
    /\ call \in [Ops -> CallType]
    /\ where \in [Ops -> Where]
    /\ job \in [Ops -> Job]
    /\ column \in [Accounts -> Int]
    /\ pending \in [Accounts -> Int]
    /\ flushing \in [Accounts -> Int]
    /\ cache \in [Accounts -> Hash]
    /\ fill \in [Readers \cup Editors -> Snapshot]
    /\ edit \in [Editors -> Snapshot]
    /\ \A o \in Ops : job[o] = "none" <=> where[o] = "new"

(* The ledger this store implements: a quota is what the column, the map   *)
(* and the running batch hold together.                                    *)
Ledger == INSTANCE QuotaLedger WITH
    balance <- [a \in Accounts |-> column[a] + pending[a] + flushing[a]],
    acked <- {o \in Ops : where[o] \in
                {"pending", "flushing", "stored", "lost"}},
    soft <- {o \in Ops : where[o] \in {"pending", "flushing"}},
    lost <- {o \in Ops : where[o] = "lost"}

(* The quota functions implement the ledger: every call that returned      *)
(* without an error counts exactly once, batches and all, and a restart or *)
(* a failed batch takes back only what was still in memory.                *)
ImplementsLedger == Ledger!Spec

(* The sum of the calls and the quotas agree: no call counts twice, and    *)
(* what was asked for with db = true (top-ups, check-ins, changes by an    *)
(* administrator) is never lost.                                           *)
LedgerBalanced == Ledger!Balanced

(* A wrong copy does not live for ever: once the calls stop, every cached  *)
(* quota ends up absent or equal to the column, whatever refill raced with *)
(* whatever change, and no hash without its other fields remains.          *)
CacheConverges ==
    <>[](\A a \in Accounts :
            cache[a].hit => cache[a].whole /\ cache[a].quota = column[a])

(* The batch loop drains: a change put in the map is written out or lost.  *)
BatchDrains ==
    \A o \in Ops : where[o] = "pending" ~> where[o] \in {"stored", "lost"}

-----------------------------------------------------------------------------
(* A promise the code does not keep, and so no part of a passing run (see  *)
(* the README).                                                            *)

(* When nothing is in flight, a cached quota is the quota: the cache is    *)
(* "maintained by atomic quota delta paths" and not by stale snapshots.    *)
CacheAgrees ==
    (/\ \A o \in Ops : where[o] \in {"new", "stored", "failed"}
     /\ \A o \in Ops : job[o] \in {"none", "done"}
     /\ \A r \in Readers \cup Editors : ~fill[r].busy)
    => \A a \in Accounts : cache[a].hit => cache[a].quota = column[a]
============================================================================
