-------------------------- MODULE QuotaStore_proofs --------------------------
(***************************************************************************)
(* Proofs about QuotaStore, for every set of calls, accounts, readers and  *)
(* editors, every amount, with and without batches and Redis, and for      *)
(* every combination of failures.                                          *)
(***************************************************************************)
EXTENDS QuotaStore, QuotaSum_proofs

-----------------------------------------------------------------------------
(* Types.                                                                  *)

LEMMA NothingType == Nothing \in Snapshot
  BY QuotaStoreAssumption DEF Nothing, Snapshot, Accounts

LEMMA RowType ==
    ASSUME TypeOK, NEW a \in Accounts
    PROVE  Row(a) \in Snapshot
  BY DEF TypeOK, Row, Snapshot

LEMMA CallFields ==
    ASSUME TypeOK, NEW o \in Ops
    PROVE  /\ call[o].account \in Accounts
           /\ call[o].amount \in Int
           /\ call[o].direct \in BOOLEAN
  BY QuotaStoreAssumption DEF TypeOK, CallType

LEMMA InitType == Init => TypeOK
  <1> SUFFICES ASSUME Init PROVE TypeOK
    OBVIOUS
  <1>1. Absent \in Hash
    BY DEF Absent, Hash
  <1> QED
    BY <1>1, NothingType, QuotaStoreAssumption DEF Init, TypeOK, Where, Job

(* No step takes a variable out of its type, edits included.               *)
LEMMA TypeStep == TypeOK /\ [Next]_vars => TypeOK'
  <1> SUFFICES ASSUME TypeOK, [Next]_vars PROVE TypeOK'
    OBVIOUS
  <1> USE DEF TypeOK, memory
  <1>1. ASSUME NEW o \in Ops, Begin(o) PROVE TypeOK'
    BY <1>1 DEF Begin, Where, Job
  <1>2. ASSUME NEW o \in Ops, AddNewRecord(o) PROVE TypeOK'
    BY <1>2, CallFields DEF AddNewRecord, Where
  <1>3. ASSUME NEW o \in Ops, UpdateColumn(o) PROVE TypeOK'
    <2>1. where' \in [Ops -> Where]
      BY <1>3 DEF UpdateColumn, Where
    <2>2. column' \in [Accounts -> Int]
      BY <1>3, CallFields DEF UpdateColumn
    <2>3. \A q \in Ops : job'[q] = "none" <=> where'[q] = "new"
      BY <1>3 DEF UpdateColumn
    <2> QED BY <1>3, <2>1, <2>2, <2>3 DEF UpdateColumn
  <1>4. ASSUME NEW o \in Ops, CheckTTL(o) PROVE TypeOK'
    BY <1>4 DEF CheckTTL, Job
  <1>5. ASSUME NEW o \in Ops, IncrCache(o) PROVE TypeOK'
    <2> DEFINE a == call[o].account
               new == [hit |-> TRUE, quota |-> cache[a].quota + call[o].amount,
                       whole |-> cache[a].whole]
    <2>1. a \in Accounts /\ cache[a] \in Hash /\ call[o].amount \in Int
      BY CallFields
    <2>2. new \in Hash
      BY <2>1 DEF Hash
    <2>3. cache' = [cache EXCEPT ![a] = new]
      BY <1>5 DEF IncrCache
    <2>4. cache' \in [Accounts -> Hash]
      <3> HIDE DEF new
      <3> QED BY <2>1, <2>2, <2>3
    <2>5. job' \in [Ops -> Job] /\ \A q \in Ops : job'[q] = "none" <=> where'[q] = "new"
      BY <1>5 DEF IncrCache, Job
    <2> QED BY <1>5, <2>4, <2>5 DEF IncrCache
  <1>6. CASE TakeBatch
    BY <1>6 DEF TakeBatch, Where
  <1>7. ASSUME NEW a \in Accounts, FlushAccount(a) PROVE TypeOK'
    <2>1. where' \in [Ops -> Where]
      BY <1>7 DEF FlushAccount, Where
    <2>2. column' \in [Accounts -> Int] /\ flushing' \in [Accounts -> Int]
      BY <1>7 DEF FlushAccount
    <2>3. \A q \in Ops : job'[q] = "none" <=> where'[q] = "new"
      BY <1>7 DEF FlushAccount
    <2> QED BY <1>7, <2>1, <2>2, <2>3 DEF FlushAccount
  <1>8. ASSUME NEW a \in Accounts, DropCache(a) PROVE TypeOK'
    <2>1. Absent \in Hash
      BY DEF Absent, Hash
    <2> QED BY <1>8, <2>1 DEF DropCache
  <1>9. ASSUME NEW r \in Readers, NEW a \in Accounts, ReadColumn(r, a)
        PROVE  TypeOK'
    BY <1>9, RowType DEF ReadColumn
  <1>10. ASSUME NEW r \in Readers \cup Editors, Populate(r) PROVE TypeOK'
    <2> DEFINE new == [hit |-> TRUE, quota |-> fill[r].quota, whole |-> TRUE]
    <2>1. fill[r].account \in Accounts /\ new \in Hash
      BY DEF Hash, Snapshot
    <2>2. cache' = [cache EXCEPT ![fill[r].account] = new]
      BY <1>10 DEF Populate
    <2>3. cache' \in [Accounts -> Hash]
      <3> HIDE DEF new
      <3> QED BY <2>1, <2>2
    <2> QED BY <1>10, <2>3, NothingType DEF Populate
  <1>11. ASSUME NEW e \in Editors, NEW t \in Tokens, EditRead(e, t)
         PROVE  TypeOK'
    <2>1. Row(t) \in Snapshot
      BY RowType DEF Accounts
    <2> QED BY <1>11, <2>1 DEF EditRead
  <1>12. ASSUME NEW e \in Editors, EditWrite(e) PROVE TypeOK'
    <2>1. edit[e] \in Snapshot /\ edit[e].quota \in Int
      BY DEF Snapshot
    <2>2. column' \in [Accounts -> Int]
      BY <1>12, <2>1 DEF EditWrite
    <2>3. fill' \in [Readers \cup Editors -> Snapshot]
      BY <1>12, <2>1 DEF EditWrite
    <2> QED BY <1>12, <2>2, <2>3, NothingType DEF EditWrite
  <1>13. CASE Crash
    BY <1>13, NothingType DEF Crash, Where, Job
  <1>14. CASE UNCHANGED vars
    BY <1>14 DEF vars
  <1> QED
    BY <1>1, <1>2, <1>3, <1>4, <1>5, <1>6, <1>7, <1>8, <1>9, <1>10, <1>11,
       <1>12, <1>13, <1>14 DEF Next

(* Type correctness: the columns, the maps, the hashes and the goroutines  *)
(* stay in their types, and every call that has begun has its goroutine.   *)
THEOREM TypeCorrect == Spec => []TypeOK
  BY InitType, TypeStep, PTL DEF Spec

-----------------------------------------------------------------------------
(* Where the money is.                                                     *)

Begun == {o \in Ops : where[o] # "new"}

\* The calls on account a whose change is in one of the places of W.
At(W, a) == {o \in Ops : where[o] \in W /\ call[o].account = a}

Held(W, a) == Sum(call, At(W, a))

(* The map holds what was put into it, the running batch what it took, and *)
(* the column the rest; what may be lost was not asked for with db = true. *)
Books ==
    /\ IsFiniteSet(Begun)
    /\ \A a \in Accounts :
         /\ pending[a] = Held({"pending"}, a)
         /\ flushing[a] = Held({"flushing"}, a)
         /\ column[a] = InitQuota + Held({"stored"}, a)
    /\ \A o \in Ops :
         where[o] \in {"pending", "flushing", "lost"} => ~call[o].direct

Inv == TypeOK /\ Books

(* What is held in a place is the sum of finitely many integers.           *)
LEMMA HeldInt ==
    ASSUME Inv, NEW W, "new" \notin W, NEW a \in Accounts
    PROVE  /\ IsFiniteSet(At(W, a))
           /\ \A o \in At(W, a) : call[o].amount \in Int
           /\ Held(W, a) \in Int
  <1>1. IsFiniteSet(At(W, a))
    <2>1. At(W, a) \in SUBSET Begun
      BY DEF At, Begun
    <2> QED BY <2>1, FS_Subset DEF Inv, Books
  <1>2. \A o \in At(W, a) : call[o].amount \in Int
    BY CallFields DEF At, Inv
  <1> QED BY <1>1, <1>2, SumInt DEF Held

(* Two different places hold the sum of both.                              *)
LEMMA HeldBoth ==
    ASSUME Inv, NEW V, NEW W, "new" \notin V \cup W, V \cap W = {},
           NEW a \in Accounts
    PROVE  Held(V \cup W, a) = Held(V, a) + Held(W, a)
  <1>1. At(V \cup W, a) = At(V, a) \cup At(W, a)
    BY DEF At
  <1>2. At(V, a) \cap At(W, a) = {}
    BY DEF At
  <1>3. /\ IsFiniteSet(At(V, a)) /\ IsFiniteSet(At(W, a))
        /\ \A o \in At(V, a) \cup At(W, a) : call[o].amount \in Int
    BY HeldInt
  <1>4. Sum(call, At(V, a) \cup At(W, a))
          = Sum(call, At(V, a)) + Sum(call, At(W, a))
    BY <1>2, <1>3, SumUnion
  <1> QED BY <1>1, <1>4, Zenon DEF Held

(* A call that reaches a place adds its amount to its account there.       *)
LEMMA HeldMore ==
    ASSUME Inv, NEW W, "new" \notin W, NEW o \in Ops, where[o] \notin W,
           NEW place \in W, where' = [where EXCEPT ![o] = place],
           UNCHANGED call, NEW a \in Accounts
    PROVE  Held(W, a)' = IF a = call[o].account
                         THEN Held(W, a) + call[o].amount ELSE Held(W, a)
  <1>1. At(W, a)' = IF a = call[o].account THEN At(W, a) \cup {o} ELSE At(W, a)
    BY DEF At, Inv, TypeOK
  <1>2. o \notin At(W, a)
    BY DEF At
  <1>3. /\ IsFiniteSet(At(W, a)) /\ call[o].amount \in Int
        /\ \A q \in At(W, a) : call[q].amount \in Int
    BY HeldInt, CallFields DEF Inv
  <1>4. Held(W, a)' = Sum(call, At(W, a)')
    BY DEF Held
  <1>5. CASE a = call[o].account
    BY <1>1, <1>2, <1>3, <1>4, <1>5, SumAdd DEF Held
  <1>6. CASE a # call[o].account
    BY <1>1, <1>4, <1>6 DEF Held
  <1> QED BY <1>5, <1>6

(* A place whose calls stay the same holds the same.                       *)
LEMMA HeldSame ==
    ASSUME NEW V, NEW W, NEW a \in Accounts, UNCHANGED call, At(W, a)' = At(V, a)
    PROVE  Held(W, a)' = Held(V, a)
  BY DEF Held

LEMMA HeldNothing ==
    ASSUME NEW W, NEW a \in Accounts, At(W, a)' = {}
    PROVE  Held(W, a)' = 0
  BY SumEmpty DEF Held

-----------------------------------------------------------------------------
(* Every step keeps the books.                                             *)

Settled == {"pending", "flushing", "stored", "lost"}

(* A step that moves no change from one place to another.                  *)
LEMMA BooksKept ==
    ASSUME Inv, UNCHANGED <<call, column, pending, flushing>>,
           IsFiniteSet(Begun)',
           \A o \in Ops, place \in Settled : where'[o] = place <=> where[o] = place
    PROVE  Books'
  <1>1. ASSUME NEW a \in Accounts, NEW place \in Settled
        PROVE  Held({place}, a)' = Held({place}, a)
    <2>1. At({place}, a)' = At({place}, a)
      BY DEF At
    <2> QED BY <2>1, HeldSame
  <1>2. \A o \in Ops :
          (where[o] \in {"pending", "flushing", "lost"} => ~call[o].direct)'
    BY DEF Inv, Books, Settled
  <1> QED BY <1>1, <1>2 DEF Inv, Books, Settled

(* A call that has begun goes on.                                          *)
LEMMA BegunKept ==
    ASSUME Inv, \A o \in Ops : where'[o] = "new" <=> where[o] = "new"
    PROVE  IsFiniteSet(Begun)'
  <1>1. Begun' = Begun
    BY DEF Begun
  <1> QED BY <1>1 DEF Inv, Books

LEMMA BooksCalls ==
    ASSUME Inv, NEW o \in Ops,
           \/ Begin(o) \/ AddNewRecord(o) \/ UpdateColumn(o)
           \/ CheckTTL(o) \/ IncrCache(o)
    PROVE  Books'
  <1> USE DEF Inv, TypeOK, memory
  <1>f. /\ call[o].account \in Accounts
        /\ call[o].amount \in Int
    BY CallFields
  <1>1. CASE Begin(o)
    <2>1. Begun' = Begun \cup {o}
      BY <1>1 DEF Begin, Begun
    <2>2. IsFiniteSet(Begun)'
      BY <2>1, FS_AddElement DEF Books
    <2>3. \A q \in Ops, place \in Settled :
            where'[q] = place <=> where[q] = place
      BY <1>1 DEF Begin, Settled
    <2>4. UNCHANGED <<call, column, pending, flushing>>
      BY <1>1 DEF Begin
    <2> QED BY <2>2, <2>3, <2>4, BooksKept
  <1>2. CASE AddNewRecord(o)
    <2>1. /\ where[o] = "called" /\ where' = [where EXCEPT ![o] = "pending"]
          /\ UNCHANGED <<call, column, flushing>>
          /\ pending' = [pending EXCEPT ![call[o].account] = @ + call[o].amount]
          /\ ~call[o].direct
      BY <1>2 DEF AddNewRecord, Batched
    <2>2. IsFiniteSet(Begun)'
      BY <2>1, BegunKept
    <2>3. ASSUME NEW a \in Accounts PROVE pending'[a] = Held({"pending"}, a)'
      <3>1. Held({"pending"}, a)' =
              IF a = call[o].account THEN Held({"pending"}, a) + call[o].amount
                                     ELSE Held({"pending"}, a)
        BY <2>1, HeldMore
      <3>2. pending[a] = Held({"pending"}, a)
        BY DEF Books
      <3> QED BY <1>f, <2>1, <3>1, <3>2
    <2>4. ASSUME NEW a \in Accounts, NEW place \in {"flushing", "stored"}
          PROVE  Held({place}, a)' = Held({place}, a)
      <3>1. At({place}, a)' = At({place}, a)
        BY <2>1 DEF At
      <3> QED BY <2>1, <3>1, HeldSame
    <2>5. \A q \in Ops :
            (where[q] \in {"pending", "flushing", "lost"} => ~call[q].direct)'
      BY <2>1 DEF Books
    <2> QED BY <2>1, <2>2, <2>3, <2>4, <2>5 DEF Books
  <1>3. CASE UpdateColumn(o)
    <2>1. where[o] = "called" /\ UNCHANGED <<call, pending, flushing>>
      BY <1>3 DEF UpdateColumn
    <2>2. IsFiniteSet(Begun)'
      BY <1>3, BegunKept DEF UpdateColumn
    <2>3. CASE where' = [where EXCEPT ![o] = "failed"] /\ UNCHANGED column
      <3>1. \A q \in Ops, place \in Settled :
              where'[q] = place <=> where[q] = place
        BY <2>1, <2>3 DEF Settled
      <3> QED BY <2>1, <2>2, <2>3, <3>1, BooksKept
    <2>4. CASE /\ column' = [column EXCEPT ![call[o].account] = @ + call[o].amount]
               /\ where' = [where EXCEPT ![o] = "stored"]
      <3>1. ASSUME NEW a \in Accounts
            PROVE  column'[a] = InitQuota + Held({"stored"}, a)'
        <4>1. Held({"stored"}, a)' =
                IF a = call[o].account THEN Held({"stored"}, a) + call[o].amount
                                       ELSE Held({"stored"}, a)
          BY <2>1, <2>4, HeldMore
        <4>2. column[a] = InitQuota + Held({"stored"}, a)
          BY DEF Books
        <4>3. Held({"stored"}, a) \in Int
          BY HeldInt
        <4> QED BY <1>f, <2>4, <4>1, <4>2, <4>3, QuotaStoreAssumption
      <3>2. ASSUME NEW a \in Accounts, NEW place \in {"pending", "flushing"}
            PROVE  Held({place}, a)' = Held({place}, a)
        <4>1. At({place}, a)' = At({place}, a)
          BY <2>1, <2>4 DEF At
        <4> QED BY <2>1, <4>1, HeldSame
      <3>3. \A q \in Ops :
              (where[q] \in {"pending", "flushing", "lost"} => ~call[q].direct)'
        BY <2>1, <2>4 DEF Books
      <3> QED BY <2>1, <2>2, <3>1, <3>2, <3>3 DEF Books
    <2> QED BY <1>3, <2>3, <2>4 DEF UpdateColumn
  <1>4. CASE CheckTTL(o) \/ IncrCache(o)
    <2>1. UNCHANGED <<call, where, column, pending, flushing>>
      BY <1>4 DEF CheckTTL, IncrCache
    <2> QED BY <2>1, BegunKept, BooksKept
  <1> QED BY <1>1, <1>2, <1>3, <1>4

(* The batch is taken, written or lost account by account.                 *)
LEMMA BooksBatch ==
    ASSUME Inv, TakeBatch \/ \E a \in Accounts : FlushAccount(a)
    PROVE  Books'
  <1> USE DEF Inv, TypeOK
  <1>1. CASE TakeBatch
    <2>1. UNCHANGED <<call, column>>
      BY <1>1 DEF TakeBatch
    <2>2. IsFiniteSet(Begun)'
      BY <1>1, BegunKept DEF TakeBatch
    <2>3. ASSUME NEW a \in Accounts
          PROVE  /\ flushing'[a] = Held({"flushing"}, a)'
                 /\ pending'[a] = Held({"pending"}, a)'
                 /\ Held({"stored"}, a)' = Held({"stored"}, a)
      <3>1. /\ At({"flushing"}, a)' = At({"pending"}, a)
            /\ At({"pending"}, a)' = {}
            /\ At({"stored"}, a)' = At({"stored"}, a)
        BY <1>1 DEF TakeBatch, At
      <3>2. flushing'[a] = pending[a] /\ pending'[a] = 0
        BY <1>1 DEF TakeBatch
      <3> QED BY <2>1, <3>1, <3>2, HeldSame, HeldNothing DEF Books
    <2>4. \A q \in Ops :
            (where[q] \in {"pending", "flushing", "lost"} => ~call[q].direct)'
      BY <1>1, <2>1 DEF TakeBatch, Books
    <2> QED BY <2>1, <2>2, <2>3, <2>4 DEF Books
  <1>2. ASSUME NEW a \in Accounts, FlushAccount(a) PROVE Books'
    <2>1. UNCHANGED <<call, pending>>
      BY <1>2 DEF FlushAccount
    <2>2. IsFiniteSet(Begun)'
      BY <1>2, BegunKept DEF FlushAccount
    <2>3. ASSUME NEW b \in Accounts
          PROVE  /\ flushing'[b] = Held({"flushing"}, b)'
                 /\ pending'[b] = Held({"pending"}, b)'
      <3>1. At({"pending"}, b)' = At({"pending"}, b)
        BY <1>2 DEF FlushAccount, At
      <3>2. pending'[b] = Held({"pending"}, b)'
        BY <2>1, <3>1, HeldSame DEF Books
      <3>3. CASE b = a
        <4>1. At({"flushing"}, b)' = {} /\ flushing'[b] = 0
          BY <1>2, <3>3 DEF FlushAccount, At
        <4> QED BY <3>2, <4>1, HeldNothing
      <3>4. CASE b # a
        <4>1. /\ At({"flushing"}, b)' = At({"flushing"}, b)
              /\ flushing'[b] = flushing[b]
          BY <1>2, <3>4 DEF FlushAccount, At
        <4> QED BY <2>1, <3>2, <4>1, HeldSame DEF Books
      <3> QED BY <3>3, <3>4
    <2>4. ASSUME NEW b \in Accounts
          PROVE  column'[b] = InitQuota + Held({"stored"}, b)'
      <3>c. column[b] = InitQuota + Held({"stored"}, b)
        BY DEF Books
      <3>1. CASE b = a /\ column' = [column EXCEPT ![a] = @ + flushing[a]]
                       /\ \A o \in Ops : where'[o] =
                            IF where[o] = "flushing" /\ call[o].account = a
                            THEN "stored" ELSE where[o]
        <4>1. At({"stored"}, a)' = At({"stored"} \cup {"flushing"}, a)
          BY <2>1, <3>1 DEF At
        <4>2. Held({"stored"} \cup {"flushing"}, a)
                = Held({"stored"}, a) + Held({"flushing"}, a)
          BY HeldBoth
        <4>3. Held({"stored"}, a)' = Held({"stored"} \cup {"flushing"}, a)
          BY <2>1, <4>1, HeldSame
        <4>4. flushing[a] = Held({"flushing"}, a)
          BY DEF Books
        <4>5. Held({"stored"}, a) \in Int /\ Held({"flushing"}, a) \in Int
          BY HeldInt
        <4>6. column'[a] = column[a] + flushing[a]
          BY <3>1
        <4> QED BY <3>1, <3>c, <4>2, <4>3, <4>4, <4>5, <4>6, QuotaStoreAssumption
      <3>2. CASE column'[b] = column[b] /\ At({"stored"}, b)' = At({"stored"}, b)
        BY <2>1, <3>2, <3>c, HeldSame
      <3>3. CASE b # a
        <4>1. column'[b] = column[b] /\ At({"stored"}, b)' = At({"stored"}, b)
          BY <1>2, <3>3 DEF FlushAccount, At
        <4> QED BY <3>2, <4>1
      <3>4. CASE b = a /\ UNCHANGED column
                       /\ \A o \in Ops : where'[o] =
                            IF where[o] = "flushing" /\ call[o].account = a
                            THEN "lost" ELSE where[o]
        <4>1. At({"stored"}, b)' = At({"stored"}, b)
          BY <2>1, <3>4 DEF At
        <4> QED BY <3>2, <3>4, <4>1
      <3> QED BY <1>2, <3>1, <3>3, <3>4 DEF FlushAccount
    <2>5. \A q \in Ops :
            (where[q] \in {"pending", "flushing", "lost"} => ~call[q].direct)'
      BY <1>2, <2>1 DEF FlushAccount, Books
    <2> QED BY <2>1, <2>2, <2>3, <2>4, <2>5 DEF Books
  <1> QED BY <1>1, <1>2

(* The cache, the edits that find the quota as they read it, and a restart.*)
LEMMA BooksOthers ==
    ASSUME QuietEdits, Inv,
           \/ \E a \in Accounts : DropCache(a)
           \/ \E r \in Readers, a \in Accounts : ReadColumn(r, a)
           \/ \E r \in Readers \cup Editors : Populate(r)
           \/ \E e \in Editors, t \in Tokens : EditRead(e, t)
           \/ \E e \in Editors : EditWrite(e)
           \/ Crash
           \/ UNCHANGED vars
    PROVE  Books'
  <1> USE DEF Inv, TypeOK, memory
  <1>1. CASE UNCHANGED <<call, where, column, pending, flushing>>
    BY <1>1, BegunKept, BooksKept
  <1>2. ASSUME NEW e \in Editors, EditWrite(e)
        PROVE  UNCHANGED <<call, where, column, pending, flushing>>
    BY <1>2 DEF EditWrite
  <1>3. CASE Crash
    <2>1. UNCHANGED <<call, column>>
      BY <1>3 DEF Crash
    <2>2. IsFiniteSet(Begun)'
      BY <1>3, BegunKept DEF Crash
    <2>3. ASSUME NEW a \in Accounts
          PROVE  /\ flushing'[a] = Held({"flushing"}, a)'
                 /\ pending'[a] = Held({"pending"}, a)'
                 /\ Held({"stored"}, a)' = Held({"stored"}, a)
      <3>1. /\ At({"flushing"}, a)' = {}
            /\ At({"pending"}, a)' = {}
            /\ At({"stored"}, a)' = At({"stored"}, a)
        BY <1>3 DEF Crash, At
      <3>2. flushing'[a] = 0 /\ pending'[a] = 0
        BY <1>3 DEF Crash
      <3> QED BY <2>1, <3>1, <3>2, HeldSame, HeldNothing
    <2>4. \A q \in Ops :
            (where[q] \in {"pending", "flushing", "lost"} => ~call[q].direct)'
      BY <1>3, <2>1 DEF Crash, Books
    <2> QED BY <2>1, <2>2, <2>3, <2>4 DEF Books
  <1> QED
    BY <1>1, <1>2, <1>3 DEF DropCache, ReadColumn, Populate, EditRead, vars

LEMMA InitInv == Init => Inv
  <1> SUFFICES ASSUME Init PROVE Books
    BY InitType DEF Inv
  <1>1. Begun = {}
    BY DEF Init, Begun
  <1>2. ASSUME NEW a \in Accounts, NEW place \in {"pending", "flushing", "stored"}
        PROVE  Held({place}, a) = 0
    <2>1. At({place}, a) = {}
      BY DEF Init, At
    <2> QED BY <2>1, SumEmpty DEF Held
  <1> QED BY <1>1, <1>2, FS_EmptySet, QuotaStoreAssumption DEF Init, Books

LEMMA InvStep ==
    ASSUME QuietEdits, Inv, [Next]_vars
    PROVE  Inv'
  <1>1. TypeOK'
    BY TypeStep DEF Inv
  <1>2. Books'
    BY BooksCalls, BooksBatch, BooksOthers DEF Next
  <1> QED BY <1>1, <1>2 DEF Inv

LEMMA Invariance ==
    ASSUME QuietEdits
    PROVE  Spec => []Inv
  <1>1. Inv /\ [Next]_vars => Inv'
    BY InvStep
  <1> QED BY <1>1, InitInv, PTL DEF Spec

-----------------------------------------------------------------------------
(* The ledger.                                                             *)

(* Its sums are the ones above.                                            *)
LEMMA TotalIs ==
    ASSUME NEW S, NEW a
    PROVE  Ledger!Total(S, a) = Sum(call, {o \in S : call[o].account = a})
  BY DEF Ledger!Total, Ledger!MapThenSumSet, Ledger!MapThenFoldSet, Sum,
         MapThenSumSet, MapThenFoldSet

(* The sum of the calls and the quotas agree (IncreaseUserQuota,           *)
(* DecreaseUserQuota, the token functions, addNewRecord, batchUpdate): for *)
(* any number of calls that interleave with batches, failed statements and *)
(* restarts, every acknowledged call counts once, and what was asked for   *)
(* with db = true is never lost.                                           *)
THEOREM QuotasBalance ==
    ASSUME QuietEdits
    PROVE  Spec => []LedgerBalanced
  <1>1. Inv => LedgerBalanced
    <2> SUFFICES ASSUME Inv PROVE LedgerBalanced
      OBVIOUS
    <2>1. ASSUME NEW a \in Accounts
          PROVE  column[a] + pending[a] + flushing[a] =
                   InitQuota + Ledger!Total(
                     {o \in Ops : where[o] \in Settled}
                       \ {o \in Ops : where[o] = "lost"}, a)
      <3> DEFINE Kept == ({"stored"} \cup {"pending"}) \cup {"flushing"}
      <3>1. {o \in {o \in Ops : where[o] \in Settled}
                     \ {o \in Ops : where[o] = "lost"} : call[o].account = a}
              = At(Kept, a)
        BY DEF At, Settled
      <3>2. /\ Held(Kept, a)
                 = Held({"stored"} \cup {"pending"}, a) + Held({"flushing"}, a)
            /\ Held({"stored"} \cup {"pending"}, a)
                 = Held({"stored"}, a) + Held({"pending"}, a)
        BY HeldBoth
      <3>3. /\ Held({"stored"}, a) \in Int
            /\ Held({"pending"}, a) \in Int
            /\ Held({"flushing"}, a) \in Int
        BY HeldInt
      <3>4. /\ pending[a] = Held({"pending"}, a)
            /\ flushing[a] = Held({"flushing"}, a)
            /\ column[a] = InitQuota + Held({"stored"}, a)
        BY DEF Inv, Books
      <3>5. Ledger!Total({o \in Ops : where[o] \in Settled}
                           \ {o \in Ops : where[o] = "lost"}, a) = Held(Kept, a)
        <4> HIDE DEF Kept
        <4> QED BY <3>1, TotalIs DEF Held
      <3> HIDE DEF Kept
      <3> QED BY <3>2, <3>3, <3>4, <3>5, QuotaStoreAssumption
    <2>2. \A o \in {o \in Ops : where[o] = "lost"} : ~call[o].direct
      BY DEF Inv, Books
    <2> QED BY <2>1, <2>2 DEF LedgerBalanced, Ledger!Balanced, Settled
  <1> QED BY <1>1, Invariance, PTL

-----------------------------------------------------------------------------
(* The store implements the ledger, step by step.                          *)

Balance == [a \in Accounts |-> column[a] + pending[a] + flushing[a]]
Acked == {o \in Ops : where[o] \in Settled}
Soft == {o \in Ops : where[o] \in {"pending", "flushing"}}
Lost == {o \in Ops : where[o] = "lost"}

LEMMA LedgerInit == Init => Ledger!Init
  <1> SUFFICES ASSUME Init PROVE Ledger!Init
    OBVIOUS
  <1>1. Balance = [a \in Accounts |-> InitQuota]
    BY QuotaStoreAssumption DEF Init, Balance
  <1>2. Acked = {} /\ Soft = {} /\ Lost = {}
    BY DEF Init, Acked, Soft, Lost, Settled
  <1> QED BY <1>1, <1>2 DEF Ledger!Init, Balance, Acked, Soft, Lost, Settled

(* Nothing of the ledger moves.                                            *)
LEMMA LedgerStutters ==
    ASSUME UNCHANGED call, Balance' = Balance,
           \A o \in Ops, place \in Settled : where'[o] = place <=> where[o] = place
    PROVE  UNCHANGED Ledger!vars
  <1>1. Acked' = Acked /\ Soft' = Soft /\ Lost' = Lost
    BY DEF Acked, Soft, Lost, Settled
  <1> QED BY <1>1 DEF Ledger!vars, Balance, Acked, Soft, Lost, Settled

(* A call is acknowledged: in the map it is soft, in the column firm.      *)
LEMMA LedgerApplies ==
    ASSUME Inv, NEW o \in Ops,
           \/ AddNewRecord(o)
           \/ UpdateColumn(o) /\ where' = [where EXCEPT ![o] = "stored"]
    PROVE  Ledger!Apply(o)
  <1> USE DEF Inv, TypeOK
  <1> DEFINE a == call[o].account
             n == call[o].amount
  <1>f. a \in Accounts /\ n \in Int
    BY CallFields
  <1>1. o \notin Acked /\ Acked' = Acked \cup {o} /\ Lost' = Lost /\ UNCHANGED call
    BY DEF AddNewRecord, UpdateColumn, Acked, Lost, Settled
  <1>2. \/ Soft' = Soft
        \/ ~call[o].direct /\ Soft' = Soft \cup {o}
    BY DEF AddNewRecord, UpdateColumn, Soft, Batched
  <1>3. Balance' = [Balance EXCEPT ![a] = @ + n]
    <2>1. CASE AddNewRecord(o)
      <3>1. pending' = [pending EXCEPT ![a] = @ + n] /\ UNCHANGED <<column, flushing>>
        BY <2>1 DEF AddNewRecord
      <3> QED BY <1>f, <3>1 DEF Balance
    <2>2. CASE UpdateColumn(o) /\ where' = [where EXCEPT ![o] = "stored"]
      <3>1. column' = [column EXCEPT ![a] = @ + n] /\ UNCHANGED <<pending, flushing>>
        BY <2>2 DEF UpdateColumn, memory
      <3> QED BY <1>f, <3>1 DEF Balance
    <2> QED BY <2>1, <2>2
  <1> QED BY <1>1, <1>2, <1>3
    DEF Ledger!Apply, Balance, Acked, Soft, Lost, Settled

(* Soft changes are lost: the ledger takes back exactly their sum.         *)
LEMMA LedgerLoses ==
    ASSUME NEW S, S \subseteq Soft, UNCHANGED call, Acked' = Acked,
           Soft' = Soft \ S, Lost' = Lost \cup S,
           \A a \in Accounts :
              Balance'[a] =
                Balance[a] - Sum(call, {o \in S : call[o].account = a})
    PROVE  Ledger!Lose
  <1>1. Balance' = [a \in Accounts |-> Balance[a] - Ledger!Total(S, a)]
    BY TotalIs DEF Balance
  <1>2. S \in SUBSET Soft
    OBVIOUS
  <1> QED BY <1>1, <1>2 DEF Ledger!Lose, Balance, Acked, Soft, Lost, Settled

(* The batch: taking it is invisible, writing an account stores its soft   *)
(* changes, failing to write it loses them.                                *)
LEMMA LedgerBatch ==
    ASSUME Inv, TakeBatch \/ \E a \in Accounts : FlushAccount(a)
    PROVE  Ledger!Next \/ UNCHANGED Ledger!vars
  <1> USE DEF Inv, TypeOK
  <1>1. CASE TakeBatch
    <2>1. Balance' = Balance
      <3>1. ASSUME NEW a \in Accounts
            PROVE  column'[a] + pending'[a] + flushing'[a]
                     = column[a] + pending[a] + flushing[a]
        <4>1. /\ flushing[a] = 0 /\ pending'[a] = 0
              /\ flushing'[a] = pending[a] /\ column'[a] = column[a]
          BY <1>1 DEF TakeBatch
        <4> QED BY <4>1
      <3> QED BY <3>1 DEF Balance
    <2>2. UNCHANGED call
      BY <1>1 DEF TakeBatch
    <2>3. Acked' = Acked /\ Soft' = Soft /\ Lost' = Lost
      BY <1>1 DEF TakeBatch, Acked, Soft, Lost, Settled
    <2> QED
      BY <2>1, <2>2, <2>3 DEF Ledger!vars, Balance, Acked, Soft, Lost, Settled
  <1>2. ASSUME NEW a \in Accounts, FlushAccount(a) PROVE Ledger!Next
    <2> DEFINE S == At({"flushing"}, a)
    <2>1. UNCHANGED <<call, pending>> /\ flushing' = [flushing EXCEPT ![a] = 0]
      BY <1>2 DEF FlushAccount
    <2>2. S \subseteq Soft /\ Acked' = Acked /\ Soft' = Soft \ S
      BY <1>2 DEF FlushAccount, At, Acked, Soft, Settled
    <2>3. CASE /\ column' = [column EXCEPT ![a] = @ + flushing[a]]
               /\ \A o \in Ops : where'[o] =
                    IF where[o] = "flushing" /\ call[o].account = a
                    THEN "stored" ELSE where[o]
      <3>1. Lost' = Lost
        BY <2>3 DEF Lost
      <3>2. ASSUME NEW b \in Accounts
            PROVE  column'[b] + pending'[b] + flushing'[b]
                     = column[b] + pending[b] + flushing[b]
        <4>1. CASE b = a
          BY <2>1, <2>3, <4>1
        <4>2. CASE b # a
          BY <2>1, <2>3, <4>2
        <4> QED BY <4>1, <4>2
      <3>3. Balance' = Balance
        BY <3>2 DEF Balance
      <3>4. Ledger!Store
        <4> HIDE DEF S
        <4> QED BY <2>1, <2>2, <3>1, <3>3
          DEF Ledger!Store, Balance, Acked, Soft, Lost, Settled
      <3> QED BY <3>4 DEF Ledger!Next
    <2>4. CASE /\ UNCHANGED column
               /\ \A o \in Ops : where'[o] =
                    IF where[o] = "flushing" /\ call[o].account = a
                    THEN "lost" ELSE where[o]
      <3>1. Lost' = Lost \cup S
        BY <2>4 DEF Lost, At
      <3>2. ASSUME NEW b \in Accounts
            PROVE  Balance'[b] =
                     Balance[b] - Sum(call, {o \in S : call[o].account = b})
        <4>p. /\ Balance[b] = column[b] + pending[b] + flushing[b]
              /\ Balance'[b] = column[b] + pending[b] + flushing'[b]
          BY <2>1, <2>4 DEF Balance
        <4>1. CASE b = a
          <5>1. {o \in S : call[o].account = b} = S
            BY <4>1 DEF At
          <5>2. flushing[a] = Sum(call, S)
            BY DEF Books, Held
          <5>3. flushing'[b] = 0 /\ flushing[b] \in Int
            BY <2>1, <4>1
          <5>4. Sum(call, {o \in S : call[o].account = b}) = flushing[b]
            <6> HIDE DEF S
            <6> QED BY <4>1, <5>1, <5>2
          <5> HIDE DEF S
          <5> QED BY <4>p, <5>3, <5>4
        <4>2. CASE b # a
          <5>1. {o \in S : call[o].account = b} = {}
            BY <4>2 DEF At
          <5>2. Sum(call, {o \in S : call[o].account = b}) = 0
            BY <5>1, SumEmpty
          <5>3. flushing'[b] = flushing[b]
            BY <2>1, <4>2
          <5> HIDE DEF S
          <5> QED BY <4>p, <5>2, <5>3
        <4> QED BY <4>1, <4>2
      <3>3. Ledger!Lose
        <4> HIDE DEF S
        <4> QED BY <2>1, <2>2, <3>1, <3>2, LedgerLoses
      <3> QED BY <3>3 DEF Ledger!Next
    <2> QED BY <1>2, <2>3, <2>4 DEF FlushAccount
  <1> QED BY <1>1, <1>2

(* A restart loses all that was in memory.                                 *)
LEMMA LedgerCrash ==
    ASSUME Inv, Crash
    PROVE  Ledger!Lose
  <1> USE DEF Inv, TypeOK
  <1>1. UNCHANGED <<call, column>>
    BY DEF Crash
  <1>2. Acked' = Acked /\ Soft' = Soft \ Soft /\ Lost' = Lost \cup Soft
    BY DEF Crash, Acked, Soft, Lost, Settled
  <1>3. ASSUME NEW a \in Accounts
        PROVE  Balance'[a] =
                 Balance[a] - Sum(call, {o \in Soft : call[o].account = a})
    <2>1. {o \in Soft : call[o].account = a} = At({"pending"} \cup {"flushing"}, a)
      BY DEF Soft, At
    <2>2. Held({"pending"} \cup {"flushing"}, a)
            = Held({"pending"}, a) + Held({"flushing"}, a)
      BY HeldBoth
    <2>3. Sum(call, {o \in Soft : call[o].account = a}) = pending[a] + flushing[a]
      BY <2>1, <2>2 DEF Held, Books
    <2>4. pending'[a] = 0 /\ flushing'[a] = 0 /\ column'[a] = column[a]
      BY DEF Crash
    <2> QED BY <2>3, <2>4 DEF Balance
  <1> QED BY <1>1, <1>2, <1>3, LedgerLoses

LEMMA LedgerStep ==
    ASSUME QuietEdits, Inv, [Next]_vars
    PROVE  [Ledger!Next]_(Ledger!vars)
  <1> USE DEF Inv, TypeOK, memory
  <1>1. CASE /\ UNCHANGED <<call, column, pending, flushing>>
             /\ \A o \in Ops, place \in Settled :
                  where'[o] = place <=> where[o] = place
    BY <1>1, LedgerStutters DEF Balance
  <1>2. ASSUME NEW o \in Ops, Begin(o) \/ CheckTTL(o) \/ IncrCache(o)
        PROVE  [Ledger!Next]_(Ledger!vars)
    BY <1>1, <1>2 DEF Begin, CheckTTL, IncrCache, Settled
  <1>3. ASSUME NEW o \in Ops, AddNewRecord(o)
        PROVE  [Ledger!Next]_(Ledger!vars)
    BY <1>3, LedgerApplies DEF Ledger!Next
  <1>4. ASSUME NEW o \in Ops, UpdateColumn(o)
        PROVE  [Ledger!Next]_(Ledger!vars)
    <2>1. CASE where' = [where EXCEPT ![o] = "stored"]
      BY <1>4, <2>1, LedgerApplies DEF Ledger!Next
    <2>2. CASE where' = [where EXCEPT ![o] = "failed"] /\ UNCHANGED column
      BY <1>1, <1>4, <2>2 DEF UpdateColumn, Settled
    <2> QED BY <1>4, <2>1, <2>2 DEF UpdateColumn
  <1>5. CASE TakeBatch \/ \E a \in Accounts : FlushAccount(a)
    BY <1>5, LedgerBatch
  <1>6. ASSUME \/ \E a \in Accounts : DropCache(a)
               \/ \E r \in Readers, a \in Accounts : ReadColumn(r, a)
               \/ \E r \in Readers \cup Editors : Populate(r)
               \/ \E e \in Editors, t \in Tokens : EditRead(e, t)
               \/ UNCHANGED vars
        PROVE  [Ledger!Next]_(Ledger!vars)
    BY <1>1, <1>6 DEF DropCache, ReadColumn, Populate, EditRead, vars
  <1>7. ASSUME NEW e \in Editors, EditWrite(e)
        PROVE  [Ledger!Next]_(Ledger!vars)
    BY <1>1, <1>7 DEF EditWrite
  <1>8. CASE Crash
    BY <1>8, LedgerCrash DEF Ledger!Next
  <1> QED BY <1>2, <1>3, <1>4, <1>5, <1>6, <1>7, <1>8 DEF Next

(* The quota functions implement the ledger: whatever batches, cache       *)
(* goroutines, errors and restarts there are, the callers see a balance to *)
(* which every acknowledged call is applied at once and once, and from     *)
(* which a restart or a failed batch takes only changes still in memory.   *)
THEOREM StoreImplementsLedger ==
    ASSUME QuietEdits
    PROVE  Spec => ImplementsLedger
  <1>1. Inv /\ [Next]_vars => [Ledger!Next]_(Ledger!vars)
    BY LedgerStep
  <1> QED
    BY <1>1, LedgerInit, Invariance, PTL DEF Spec, ImplementsLedger, Ledger!Spec

=============================================================================
