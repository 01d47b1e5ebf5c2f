------------------------------ MODULE Database ------------------------------
(***************************************************************************)
(* src/database.c: batches of queries on one SQLite connection, shared by  *)
(* threads.  A batch runs between BEGIN IMMEDIATE and COMMIT or ROLLBACK   *)
(* under a recursive mutex; f_database_run_raw_command takes no lock.      *)
(* The callback of a row may call the library again, from its own thread.  *)
(*                                                                         *)
(* SQLite is external: any command may fail, BEGIN, COMMIT and ROLLBACK    *)
(* included, another process may hold the file, and an error may or may    *)
(* not end the open transaction.  What a query writes is one effect,       *)
(* <<batch, index>>; a raw write is <<0, n>>.  SHIT stands for every result *)
(* other than NOICE.                                                       *)
(***************************************************************************)
EXTENDS Integers, Sequences, FiniteSets

CONSTANTS Threads,
          NULL,
          MaxQueries,  \* bound: queries of a batch
          MaxRows,     \* bound: rows of a query that reach the callback
          MaxBatches,  \* bound: calls of the execute functions
          MaxRaws      \* bound: commands of f_database_run_raw_command

ASSUME DatabaseAssumption ==
  /\ NULL \notin Threads
  /\ {MaxQueries, MaxRows, MaxBatches, MaxRaws} \subseteq Nat

Batches == 1 .. MaxBatches

VARIABLES
  database,     \* the connection, "open", or NULL
  lock,         \* database_lock: its thread, and how often that thread took it
  transaction,  \* SQLite: a transaction is open
  pending,      \* SQLite: what the open transaction has written
  durable,      \* SQLite: what is committed
  statements,   \* SQLite: statements prepared and not finalised
  stack,        \* the calls a thread is inside, the innermost first
  batches,      \* how many batches were called for
  queries,      \* the number of queries of each batch
  outcome,      \* ghost: what the call of each batch returned
  rolled,       \* ghost: *successfully_rollback
  opener,       \* ghost: the batch whose BEGIN opened the transaction; 0: none, or a raw BEGIN
  torn,         \* ghost: batches whose transaction another command ended under them
  raws          \* how many raw commands were sent

sqlite == <<transaction, pending, durable, opener, torn>>
ghosts == <<batches, queries, outcome, rolled>>
vars == <<database, lock, sqlite, statements, stack, ghosts, raws>>

Effects(c) == {<<c, i>> : i \in 1 .. queries[c]}

Init ==
  /\ database = NULL
  /\ lock = [by |-> NULL, depth |-> 0]
  /\ transaction = FALSE /\ pending = {} /\ durable = {}
  /\ statements = 0
  /\ stack = [t \in Threads |-> <<>>]
  /\ batches = 0 /\ raws = 0
  /\ queries = [c \in Batches |-> 0]
  /\ outcome = [c \in Batches |-> "none"]
  /\ rolled = [c \in Batches |-> "unset"]
  /\ opener = 0 /\ torn = {}

-----------------------------------------------------------------------------
(***************************************************************************)
(* SQLite.  A transaction is ended on behalf of a batch, or of 0: a raw    *)
(* command, or closing.                                                    *)
(***************************************************************************)
Write(effect) ==
  /\ IF transaction THEN pending' = pending \cup {effect} /\ UNCHANGED durable
     ELSE durable' = durable \cup {effect} /\ UNCHANGED pending
  /\ UNCHANGED <<transaction, opener, torn>>

HasFrame(c, places) ==
  \E t \in Threads : \E i \in DOMAIN stack[t] :
    stack[t][i].batch = c /\ stack[t][i].pc \in places

\* A batch still at its queries is cut by any other end of its transaction; one that goes back, or
\* could not, only by a COMMIT.
Cut(c, commits) ==
  IF /\ opener \notin {0, c}
     /\ \/ HasFrame(opener, {"query", "step", "row"})
        \/ commits /\ (rolled[opener] = "false" \/ HasFrame(opener, {"rollback"}))
  THEN {opener} ELSE {}

Commit(c) ==
  /\ transaction
  /\ transaction' = FALSE /\ durable' = durable \cup pending /\ pending' = {}
  /\ opener' = 0 /\ torn' = torn \cup Cut(c, TRUE)

Discard(c) ==
  /\ transaction' = FALSE /\ pending' = {} /\ UNCHANGED durable
  /\ opener' = 0 /\ torn' = torn \cup Cut(c, FALSE)

\* An error such as a full disk may end the transaction by itself.
Error(c) == UNCHANGED sqlite \/ Discard(c)

-----------------------------------------------------------------------------
(***************************************************************************)
(* Opening and closing: nobody else may be inside the library.             *)
(***************************************************************************)
Alone == \A t \in Threads : stack[t] = <<>>

\* Every way to fail (parameters, sqlite3_open_v2, busy timeout, mutex) closes what was opened
\* and leaves NULL, so it changes nothing here.
f_database_initialize ==
  /\ Alone /\ database = NULL
  /\ database' = "open"
  /\ lock' = [by |-> NULL, depth |-> 0]
  /\ UNCHANGED <<sqlite, statements, stack, ghosts, raws>>

\* Closing rolls back what was left open; a statement that is not finalised would keep the
\* connection alive.
f_database_free ==
  /\ Alone /\ database # NULL
  /\ lock.by = NULL
  /\ database' = NULL
  /\ Discard(0)
  /\ UNCHANGED <<lock, statements, stack, ghosts, raws>>

-----------------------------------------------------------------------------
(***************************************************************************)
(* The execute functions.  f_database_query_execute is a batch of one.     *)
(***************************************************************************)
Top(t) == Head(stack[t])
At(t, place) == stack[t] # <<>> /\ Top(t).pc = place

\* The innermost call of t goes on at place, with result.
Continue(t, place, result) ==
  stack' = [stack EXCEPT ![t] = <<[Top(t) EXCEPT !.pc = place, !.result = result]>> \o Tail(@)]

\* t may call the library: it is outside, or in the callback of a row.
MayCall(t) == database # NULL /\ (stack[t] = <<>> \/ At(t, "row"))

CallExecute(t, n) ==
  /\ MayCall(t)
  /\ batches < MaxBatches
  /\ batches' = batches + 1
  /\ queries' = [queries EXCEPT ![batches + 1] = n]
  /\ stack' = [stack EXCEPT ![t] = <<[batch |-> batches + 1, index |-> 1, rows |-> 0,
                                      pc |-> "lock", result |-> "NOICE"]>> \o @]
  /\ UNCHANGED <<database, lock, sqlite, statements, outcome, rolled, raws>>

Lock(t) ==
  /\ At(t, "lock")
  /\ lock.by \in {NULL, t}
  /\ lock' = [by |-> t, depth |-> lock.depth + 1]
  /\ Continue(t, "begin", "NOICE")
  /\ UNCHANGED <<database, sqlite, statements, ghosts, raws>>

\* SQLite refuses to begin inside a transaction, or while another process holds the file.
Begin(t) ==
  /\ At(t, "begin")
  /\ \/ /\ ~transaction
        /\ transaction' = TRUE /\ opener' = Top(t).batch
        /\ Continue(t, "query", "NOICE")
        /\ UNCHANGED <<pending, durable, torn>>
     \/ Error(Top(t).batch) /\ Continue(t, "unlock", "SHIT")
  /\ UNCHANGED <<database, lock, statements, ghosts, raws>>

\* p_database_query_execute_index up to the first step: the SQL, the number of parameters, a
\* value or the memory for the row may be wrong.
Prepare(t) ==
  /\ At(t, "query")
  /\ Top(t).index <= queries[Top(t).batch]
  /\ \/ Continue(t, "step", "NOICE") /\ statements' = statements + 1
     \/ Continue(t, "rollback", "SHIT") /\ UNCHANGED statements
  /\ UNCHANGED <<database, lock, sqlite, ghosts, raws>>

\* A row, which goes to the callback.
StepRow(t) ==
  /\ At(t, "step")
  /\ Top(t).rows < MaxRows
  /\ stack' = [stack EXCEPT ![t] = <<[Top(t) EXCEPT !.pc = "row", !.rows = @ + 1]>> \o Tail(@)]
  /\ UNCHANGED <<database, lock, sqlite, statements, ghosts, raws>>

CallbackReturns(t) ==
  /\ At(t, "row")
  /\ Continue(t, "step", "NOICE")
  /\ UNCHANGED <<database, lock, sqlite, statements, ghosts, raws>>

StepDoneStays(t) ==  \* mutant: the loop does not move on to the next query
  /\ At(t, "step")
  /\ Write(<<Top(t).batch, Top(t).index>>)
  /\ statements' = statements - 1
  /\ stack' = [stack EXCEPT ![t] = <<[Top(t) EXCEPT !.pc = "query", !.rows = 0]>> \o Tail(@)]
  /\ UNCHANGED <<database, lock, ghosts, raws>>

\* SQLITE_DONE: the next query of the batch.
StepDone(t) ==
  /\ At(t, "step")
  /\ Write(<<Top(t).batch, Top(t).index>>)
  /\ statements' = statements - 1
  /\ stack' = [stack EXCEPT ![t] = <<[Top(t) EXCEPT !.pc = "query", !.index = @ + 1, !.rows = 0]>>
                                   \o Tail(@)]
  /\ UNCHANGED <<database, lock, ghosts, raws>>

StepFailsUnseen(t) ==  \* mutant: the loop over the queries does not look at the result
  /\ At(t, "step")
  /\ statements' = statements - 1
  /\ stack' = [stack EXCEPT ![t] = <<[Top(t) EXCEPT !.pc = "query", !.index = @ + 1, !.rows = 0]>>
                                   \o Tail(@)]
  /\ UNCHANGED <<database, lock, sqlite, ghosts, raws>>

StepFailsUnfinalized(t) ==  \* mutant: an early return skips sqlite3_finalize
  /\ At(t, "step")
  /\ Continue(t, "rollback", "SHIT")
  /\ UNCHANGED <<database, lock, sqlite, statements, ghosts, raws>>

\* Any other status; the query has written nothing.
StepFails(t) ==
  /\ At(t, "step")
  /\ Error(Top(t).batch)
  /\ statements' = statements - 1
  /\ Continue(t, "rollback", "SHIT")
  /\ UNCHANGED <<database, lock, ghosts, raws>>

p_database_query_execute_index(t) ==
  Prepare(t) \/ StepRow(t) \/ CallbackReturns(t) \/ StepDone(t) \/ StepFails(t)

AllDoneEarly(t) ==  \* mutant: the last query is never run
  At(t, "query") /\ Top(t).index >= queries[Top(t).batch]

AllDone(t) == At(t, "query") /\ Top(t).index > queries[Top(t).batch]

CommitSucceeds(t) ==
  /\ AllDone(t)
  /\ Commit(Top(t).batch)
  /\ Continue(t, "unlock", "NOICE")
  /\ UNCHANGED <<database, lock, statements, ghosts, raws>>

\* The transaction stays open, as when another process still reads, or is gone.
CommitFails(t) ==
  /\ AllDone(t)
  /\ Error(Top(t).batch)
  /\ Continue(t, "unlock", "SHIT")
  /\ UNCHANGED <<database, lock, statements, ghosts, raws>>

\* A ROLLBACK that fails is not tried again: the transaction may stay open with what it wrote.
Rollback(t) ==
  /\ At(t, "rollback")
  /\ \/ /\ transaction
        /\ Discard(Top(t).batch)
        /\ rolled' = [rolled EXCEPT ![Top(t).batch] = "true"]
     \/ /\ Error(Top(t).batch)
        /\ rolled' = [rolled EXCEPT ![Top(t).batch] = "false"]
  /\ Continue(t, "unlock", Top(t).result)
  /\ UNCHANGED <<database, lock, statements, batches, queries, outcome, raws>>

Unlock(t) ==
  /\ At(t, "unlock")
  /\ lock' = [by |-> IF lock.depth = 1 THEN NULL ELSE t, depth |-> lock.depth - 1]
  /\ outcome' = [outcome EXCEPT ![Top(t).batch] = Top(t).result]
  /\ stack' = [stack EXCEPT ![t] = Tail(@)]
  /\ UNCHANGED <<database, sqlite, statements, batches, queries, rolled, raws>>

f_database_query_execute_list(t) ==
  \/ Lock(t) \/ Begin(t)
  \/ p_database_query_execute_index(t)
  \/ CommitSucceeds(t) \/ CommitFails(t) \/ Rollback(t)
  \/ Unlock(t)

-----------------------------------------------------------------------------
(***************************************************************************)
(* f_database_run_raw_command, without the lock: any command, from outside *)
(* or from the callback of a row, while another thread is inside a batch.  *)
(* One that fails and changes nothing is no step.                          *)
(***************************************************************************)
Raw(t) ==
  /\ MayCall(t)
  /\ raws < MaxRaws
  /\ raws' = raws + 1
  /\ UNCHANGED <<database, lock, statements, stack, ghosts>>

RawWrite(t) == Raw(t) /\ Write(<<0, raws + 1>>)

RawBegin(t) ==
  /\ Raw(t)
  /\ ~transaction /\ transaction' = TRUE
  /\ UNCHANGED <<pending, durable, opener, torn>>

RawCommit(t) == Raw(t) /\ Commit(0)

\* A ROLLBACK, or any command whose error ends the transaction.
RawDiscard(t) == Raw(t) /\ transaction /\ Discard(0)

f_database_run_raw_command(t) == RawWrite(t) \/ RawBegin(t) \/ RawCommit(t) \/ RawDiscard(t)

Next ==
  \/ f_database_initialize
  \/ f_database_free
  \/ \E t \in Threads : \/ \E n \in 0 .. MaxQueries : CallExecute(t, n)
                        \/ f_database_query_execute_list(t)
                        \/ f_database_run_raw_command(t)

\* A thread inside the library goes on; SQLite gives back a lock after its busy timeout.
Fairness == \A t \in Threads : WF_vars(f_database_query_execute_list(t))

Spec == Init /\ [][Next]_vars
FairSpec == Spec /\ Fairness

-----------------------------------------------------------------------------
(***************************************************************************)
(* Properties.                                                             *)
(***************************************************************************)
Places == {"lock", "begin", "query", "step", "row", "rollback", "unlock"}
Results == {"NOICE", "SHIT"}
AllEffects == (Batches \X (1 .. MaxQueries)) \cup ({0} \X (1 .. MaxRaws))

TypeOK ==
  /\ database \in {"open", NULL}
  /\ lock \in [by : Threads \cup {NULL}, depth : Nat]
  /\ (lock.by = NULL) <=> (lock.depth = 0)
  /\ transaction \in BOOLEAN
  /\ pending \subseteq AllEffects /\ durable \subseteq AllEffects
  /\ statements \in Nat
  /\ \A t \in Threads : \A i \in DOMAIN stack[t] :
       stack[t][i] \in [batch : Batches, index : 1 .. MaxQueries + 1, rows : 0 .. MaxRows,
                        pc : Places, result : Results]
  /\ outcome \in [Batches -> Results \cup {"none"}]
  /\ rolled \in [Batches -> {"unset", "true", "false"}]
  /\ opener \in Batches \cup {0} /\ torn \subseteq Batches

\* What is committed holds all of a batch or nothing of it, whichever command fails and although
\* other threads write in between, unless another command ended its transaction under it.  A
\* batch called from the callback of a row gets the recursive lock, but never gets to run a
\* query, so it cannot commit or roll back the batch around it.
BatchesAreAtomic ==
  /\ \A c \in Batches \ torn : durable \cap Effects(c) \in {{}, Effects(c)}
  /\ \A t \in Threads : \A i, j \in DOMAIN stack[t] :
       i < j /\ stack[t][j].batch \notin torn =>
         stack[t][i].pc \notin {"query", "step", "row", "rollback"}

\* A batch that returned NOICE is committed.  With *successfully_rollback true nothing of it is
\* left.  With false nothing of it is committed, and what is pending is in the transaction it
\* opened itself, which is still open.
OutcomesAreTrue ==
  \A c \in Batches \ torn :
    /\ outcome[c] = "NOICE" => Effects(c) \subseteq durable
    /\ rolled[c] = "true" => Effects(c) \cap (pending \cup durable) = {}
    /\ rolled[c] = "false" =>
         /\ Effects(c) \cap durable = {}
         /\ Effects(c) \cap pending # {} => transaction /\ opener = c

\* Between two batches no statement is left to finalise.  No transaction of a batch is open,
\* except of one whose ROLLBACK failed, or whose COMMIT failed with all of it still pending.
NothingIsLeftOpen ==
  /\ TypeOK
  /\ lock.by = NULL =>
       /\ statements = 0
       /\ transaction /\ opener # 0 =>
            /\ outcome[opener] = "SHIT"
            /\ \/ rolled[opener] = "false"
               \/ rolled[opener] = "unset" /\ Effects(opener) \subseteq pending

\* Every call of an execute function comes back.
EveryBatchReturns == \A c \in Batches : batches >= c ~> outcome[c] # "none"
=============================================================================
