\* Two calls on a user and a token while a reader refills the cache, a token is
\* enabled or disabled, statements and batches fail and the process restarts.
SPECIFICATION FairSpec
CONSTANTS
    Ops = {o1, o2}
    Users = {u1}
    Tokens = {k1}
    Readers = {r1}
    Editors = {e1}
    QuietEdits = TRUE
    Amounts <- MCOneAmount
    InitQuota = 5
    BatchEnabled = TRUE
    RedisEnabled = TRUE
    Faults = {"statement", "flush", "crash"}
INVARIANTS TypeOK LedgerBalanced
PROPERTIES ImplementsLedger CacheConverges BatchDrains
CHECK_DEADLOCK FALSE
