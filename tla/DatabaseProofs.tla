--------------------------- MODULE DatabaseProofs ---------------------------
(***************************************************************************)
(* Batches are atomic and leave nothing open, for any number of threads,   *)
(* batches, queries and rows, however deep callbacks call, and whichever   *)
(* commands fail or are sent in between.                                   *)
(*                                                                         *)
(* The invariant follows a batch that nothing has torn: each of its places *)
(* says whose transaction is open and how much of the batch is pending or  *)
(* durable (PlaceOK), and so does what is recorded of it (BatchOK).  The   *)
(* mutex leaves at most one thread with more than a frame that waits for   *)
(* it (LockInv); a call from a row of a batch that is not torn finds the   *)
(* transaction open and gets no further than BEGIN (NestInv).              *)
(***************************************************************************)
EXTENDS Database, SequenceTheorems, TLAPS

Frame == [batch : Batches, index : 1 .. MaxQueries + 1, rows : 0 .. MaxRows,
          pc : Places, result : Results]

InSQL == {"query", "step", "row"}
Unfinished == InSQL \cup {"rollback"}
Stepping == {"step", "row"}

Absent(effects, c) == \A i \in 1 .. queries[c] : <<c, i>> \notin effects
Complete(effects, c) == \A i \in 1 .. queries[c] : <<c, i>> \in effects

\* A transaction is left open behind a ROLLBACK that failed, or a COMMIT.
LeftOpen(c) == rolled[c] = "false" \/ (rolled[c] = "unset" /\ Complete(pending, c))

TypeInv ==
  /\ database \in {"open", NULL}
  /\ lock \in [by : Threads \cup {NULL}, depth : Nat]
  /\ transaction \in BOOLEAN
  /\ statements \in Nat
  /\ stack \in [Threads -> Seq(Frame)]
  /\ batches \in 0 .. MaxBatches /\ raws \in 0 .. MaxRaws
  /\ queries \in [Batches -> 0 .. MaxQueries]
  /\ outcome \in [Batches -> Results \cup {"none"}]
  /\ rolled \in [Batches -> {"unset", "true", "false"}]
  /\ opener \in 0 .. batches /\ torn \in SUBSET (1 .. batches)

\* Only the callback of a row calls the library again.
ShapeInv == \A t \in Threads : \A i \in 1 .. Len(stack[t]) : i > 1 => stack[t][i].pc = "row"

\* A call from a row of a batch that is not torn is waiting, refused, or about to be.
NestInv ==
  \A t \in Threads : \A i, j \in 1 .. Len(stack[t]) :
    j < i /\ stack[t][i].batch \notin torn => stack[t][j].pc \notin Unfinished

\* How often t has the mutex.
Held(t) ==
  IF stack[t] = <<>> THEN 0
  ELSE IF stack[t][1].pc = "lock" THEN Len(stack[t]) - 1 ELSE Len(stack[t])

LockInv ==
  /\ lock.by = NULL <=> lock.depth = 0
  /\ \A t \in Threads : Held(t) = IF lock.by = t THEN lock.depth ELSE 0

\* Each call of the thread that has the mutex has one statement while it steps.
StatementInv ==
  /\ lock.by = NULL => statements = 0
  /\ \A t \in Threads : lock.by = t =>
       statements = IF stack[t][1].pc \in Stepping THEN Len(stack[t]) ELSE Len(stack[t]) - 1

DistinctInv ==
  \A t, u \in Threads : \A i \in 1 .. Len(stack[t]), j \in 1 .. Len(stack[u]) :
    stack[t][i].batch = stack[u][j].batch => t = u /\ i = j

Active(g) == \E t \in Threads : \E i \in 1 .. Len(stack[t]) : stack[t][i] = g

\* What a frame says of its batch.
FrameOK(g) ==
  LET c == g.batch
  IN /\ c <= batches /\ outcome[c] = "none"
     /\ g.index <= queries[c] + 1
     /\ g.pc \in Stepping => g.index <= queries[c]
     /\ g.pc \in {"lock", "begin"} => g.index = 1
     /\ g.pc = "rollback" => g.result = "SHIT"
     /\ g.pc # "unlock" => rolled[c] = "unset"

\* What it says of SQLite, while nobody else has ended the transaction of the batch.
PlaceOK(g) ==
  LET c == g.batch
  IN /\ g.pc \in {"lock", "begin"} => c \notin torn /\ opener # c
     /\ c \notin torn =>
          /\ g.pc # "unlock" => Absent(durable, c)
          /\ g.pc \in InSQL =>
               opener = c /\ \A k \in 1 .. queries[c] : <<c, k>> \in pending <=> k < g.index
          /\ g.pc = "unlock" /\ g.result = "NOICE" => Complete(durable, c) /\ opener # c
          /\ g.pc = "unlock" /\ opener = c => LeftOpen(c)

FrameInv == \A g \in Frame : Active(g) => FrameOK(g) /\ PlaceOK(g)

BatchOK(c) ==
  c \notin torn =>
    /\ opener # c => Absent(pending, c)
    /\ Absent(durable, c) \/ Complete(durable, c)
    /\ Absent(pending, c) \/ Absent(durable, c)
    /\ outcome[c] = "NOICE" => Complete(durable, c)
    /\ rolled[c] = "true" => Absent(pending, c) /\ Absent(durable, c)
    /\ rolled[c] = "false" => Absent(durable, c)
    /\ outcome[c] # "none" /\ opener = c =>
         /\ outcome[c] = "SHIT"
         /\ LeftOpen(c)

\* Nothing is known of batches that were not called for.
FutureInv ==
  \A c \in Batches : c > batches =>
    outcome[c] = "none" /\ rolled[c] = "unset" /\ queries[c] = 0

BatchInv == \A c \in Batches : BatchOK(c)

\* A thread has begun batch c and has not unlocked.
Begun(c) == \E g \in Frame : Active(g) /\ g.batch = c /\ g.pc \in Unfinished \cup {"unlock"}

TransactionInv ==
  /\ ~transaction => pending = {} /\ opener = 0
  /\ opener \notin torn
  /\ opener # 0 => Begun(opener) \/ outcome[opener] = "SHIT"

EffectInv ==
  \A e \in pending \cup durable :
    \/ e \in {0} \X (1 .. raws)
    \/ e \in (1 .. batches) \X (1 .. MaxQueries)

\* What concerns the calls, and what concerns SQLite.
CallInv == TypeInv /\ ShapeInv /\ LockInv /\ DistinctInv /\ FutureInv
DatabaseInv ==
  CallInv /\ NestInv /\ StatementInv /\ FrameInv /\ BatchInv /\ TransactionInv /\ EffectInv

-----------------------------------------------------------------------------
(***************************************************************************)
(* Stacks.                                                                 *)
(***************************************************************************)
\* What is assumed of the constants: bounds are numbers, and NULL is no thread.
LEMMA Bounds ==
  /\ MaxQueries \in Nat /\ MaxRows \in Nat /\ MaxBatches \in Nat /\ MaxRaws \in Nat
  /\ NULL \notin Threads
  BY DatabaseAssumption

\* Another frame in the place of the innermost one.
LEMMA TopReplaced ==
  ASSUME TypeInv, NEW t \in Threads, stack[t] # <<>>, NEW f \in Frame,
         stack' = [stack EXCEPT ![t] = <<f>> \o Tail(@)]
  PROVE  /\ stack' \in [Threads -> Seq(Frame)]
         /\ \A u \in Threads : Len(stack'[u]) = Len(stack[u])
         /\ stack'[t][1] = f
         /\ \A u \in Threads : \A i \in 1 .. Len(stack[u]) :
              u # t \/ i # 1 => stack'[u][i] = stack[u][i]
<1> DEFINE s == stack[t]
           r == <<f>> \o Tail(s)
<1>1. s \in Seq(Frame) /\ Len(s) \in Nat \ {0}
  BY EmptySeq, LenProperties DEF TypeInv
<1>2. Tail(s) \in Seq(Frame) /\ Len(Tail(s)) = Len(s) - 1
      /\ \A i \in 1 .. Len(Tail(s)) : Tail(s)[i] = s[i + 1]
  BY <1>1, HeadTailProperties
<1>3. <<f>> \in Seq(Frame) /\ Len(<<f>>) = 1 /\ <<f>>[1] = f
  OBVIOUS
<1>4. r \in Seq(Frame) /\ Len(r) = Len(s)
      /\ \A i \in 1 .. Len(s) : r[i] = IF i <= 1 THEN <<f>>[i] ELSE Tail(s)[i - 1]
  BY <1>1, <1>2, <1>3, ConcatProperties
<1>5. r[1] = f /\ \A i \in 1 .. Len(s) : i # 1 => r[i] = s[i]
  BY <1>1, <1>2, <1>3, <1>4
<1> HIDE DEF r
<1>6. stack' = [stack EXCEPT ![t] = r]
  BY DEF r
<1> QED
  BY <1>4, <1>5, <1>6 DEF TypeInv

\* A call from outside, or from the callback of a row.
LEMMA Pushed ==
  ASSUME TypeInv, NEW t \in Threads, NEW f \in Frame,
         stack' = [stack EXCEPT ![t] = <<f>> \o @]
  PROVE  /\ stack' \in [Threads -> Seq(Frame)]
         /\ Len(stack'[t]) = Len(stack[t]) + 1
         /\ stack'[t][1] = f
         /\ \A i \in 1 .. Len(stack[t]) : stack'[t][i + 1] = stack[t][i]
         /\ \A u \in Threads \ {t} : stack'[u] = stack[u]
<1> DEFINE s == stack[t]
           r == <<f>> \o s
<1>1. s \in Seq(Frame) /\ Len(s) \in Nat
  BY LenProperties DEF TypeInv
<1>2. <<f>> \in Seq(Frame) /\ Len(<<f>>) = 1 /\ <<f>>[1] = f
  OBVIOUS
<1>3. r \in Seq(Frame) /\ Len(r) = Len(s) + 1
      /\ \A i \in 1 .. Len(s) + 1 : r[i] = IF i <= 1 THEN <<f>>[i] ELSE s[i - 1]
  BY <1>1, <1>2, ConcatProperties
<1>4. r[1] = f /\ \A i \in 1 .. Len(s) : r[i + 1] = s[i]
  BY <1>1, <1>2, <1>3
<1> HIDE DEF r
<1>5. stack' = [stack EXCEPT ![t] = r]
  BY DEF r
<1> QED
  BY <1>3, <1>4, <1>5 DEF TypeInv

\* The innermost call returns.
LEMMA Popped ==
  ASSUME TypeInv, NEW t \in Threads, stack[t] # <<>>, stack' = [stack EXCEPT ![t] = Tail(@)]
  PROVE  /\ stack' \in [Threads -> Seq(Frame)]
         /\ Len(stack[t]) \in Nat \ {0} /\ Len(stack'[t]) = Len(stack[t]) - 1
         /\ \A i \in 1 .. Len(stack'[t]) : stack'[t][i] = stack[t][i + 1]
         /\ \A u \in Threads \ {t} : stack'[u] = stack[u]
<1>1. stack[t] \in Seq(Frame) /\ Len(stack[t]) \in Nat \ {0}
  BY EmptySeq, LenProperties DEF TypeInv
<1>2. Tail(stack[t]) \in Seq(Frame) /\ Len(Tail(stack[t])) = Len(stack[t]) - 1
      /\ \A i \in 1 .. Len(Tail(stack[t])) : Tail(stack[t])[i] = stack[t][i + 1]
  BY <1>1, HeadTailProperties
<1> QED
  BY <1>1, <1>2 DEF TypeInv

\* Frames have their type, and the innermost one is the first.
LEMMA StackFacts ==
  ASSUME TypeInv, NEW t \in Threads
  PROVE  /\ Len(stack[t]) \in Nat /\ DOMAIN stack[t] = 1 .. Len(stack[t])
         /\ stack[t] = <<>> <=> Len(stack[t]) = 0
         /\ \A i \in 1 .. Len(stack[t]) : stack[t][i] \in Frame
         /\ stack[t] # <<>> => /\ Head(stack[t]) = stack[t][1] /\ 1 \in 1 .. Len(stack[t])
                               /\ stack[t][1] \in Frame
<1>1. stack[t] \in Seq(Frame)
  BY DEF TypeInv
<1>2. stack[t] = <<>> <=> Len(stack[t]) = 0
  BY <1>1, EmptySeq
<1>3. \A i \in 1 .. Len(stack[t]) : stack[t][i] \in Frame
  BY <1>1, ElementOfSeq
<1>4. stack[t] # <<>> => Head(stack[t]) = stack[t][1]
  BY <1>1, HeadTailProperties
<1>5. Len(stack[t]) \in Nat /\ DOMAIN stack[t] = 1 .. Len(stack[t])
  BY <1>1, LenProperties
<1>6. stack[t] # <<>> => 1 \in 1 .. Len(stack[t])
  BY <1>2, <1>5
<1> QED
  BY <1>2, <1>3, <1>4, <1>5, <1>6

\* The invariant holds for the innermost call.
LEMMA TopFacts ==
  ASSUME DatabaseInv, NEW t \in Threads, stack[t] # <<>>
  PROVE  /\ Top(t) = stack[t][1] /\ Top(t) \in Frame /\ Active(Top(t))
         /\ Top(t).batch \in Batches /\ Top(t).batch # 0
         /\ FrameOK(Top(t)) /\ PlaceOK(Top(t)) /\ BatchOK(Top(t).batch)
<1>1. Top(t) = stack[t][1] /\ Top(t) \in Frame /\ 1 \in 1 .. Len(stack[t])
  BY StackFacts DEF DatabaseInv, CallInv, Top
<1>2. Active(Top(t))
  BY <1>1 DEF Active
<1>3. Top(t).batch \in Batches /\ Top(t).batch # 0
  BY <1>1, Bounds DEF Frame, Batches
<1> QED
  BY <1>1, <1>2, <1>3 DEF DatabaseInv, FrameInv, BatchInv

\* While a thread has the mutex every other one is outside, or waits for it.
LEMMA OthersWait ==
  ASSUME TypeInv, LockInv, NEW t \in Threads, stack[t] # <<>>, stack[t][1].pc # "lock"
  PROVE  /\ lock.by = t /\ lock.depth = Len(stack[t])
         /\ \A u \in Threads \ {t} : \A i \in 1 .. Len(stack[u]) :
              i = 1 /\ Len(stack[u]) = 1 /\ stack[u][i].pc = "lock"
<1>1. Held(t) = Len(stack[t]) /\ Len(stack[t]) > 0
  BY StackFacts DEF Held
<1>2. lock.by = t /\ lock.depth = Len(stack[t])
  BY <1>1 DEF LockInv
<1>3. \A u \in Threads \ {t} : Held(u) = 0
  BY <1>2 DEF LockInv
<1> QED
  BY <1>2, <1>3, StackFacts DEF Held

\* A place of a batch, as the model asks for it and as the proof does.
LEMMA Framed ==
  ASSUME TypeInv, NEW c, NEW places
  PROVE  HasFrame(c, places) <=> \E g \in Frame : Active(g) /\ g.batch = c /\ g.pc \in places
<1>1. ASSUME HasFrame(c, places)
      PROVE  \E g \in Frame : Active(g) /\ g.batch = c /\ g.pc \in places
  <2>1. PICK t \in Threads : \E i \in DOMAIN stack[t] :
          stack[t][i].batch = c /\ stack[t][i].pc \in places
    BY <1>1 DEF HasFrame
  <2>2. PICK i \in 1 .. Len(stack[t]) : stack[t][i].batch = c /\ stack[t][i].pc \in places
    BY <2>1, StackFacts
  <2>3. stack[t][i] \in Frame /\ Active(stack[t][i])
    BY <2>2, StackFacts DEF Active
  <2> QED BY <2>2, <2>3
<1>2. ASSUME NEW g \in Frame, Active(g), g.batch = c, g.pc \in places PROVE HasFrame(c, places)
  <2>1. PICK t \in Threads : \E i \in 1 .. Len(stack[t]) : stack[t][i] = g
    BY <1>2 DEF Active
  <2>2. PICK i \in 1 .. Len(stack[t]) : stack[t][i] = g
    BY <2>1
  <2>3. i \in DOMAIN stack[t]
    BY StackFacts
  <2> QED BY <1>2, <2>2, <2>3 DEF HasFrame
<1> QED BY <1>1, <1>2

-----------------------------------------------------------------------------
(***************************************************************************)
(* What the end of a transaction, or a write, does to the other batches.   *)
(* The acting batch is c, or 0.                                            *)
(***************************************************************************)
OthersOK(c) ==
  /\ \A d \in Batches \ {c} : BatchOK(d)'
  /\ \A g \in Frame : Active(g) /\ g.batch # c => PlaceOK(g)'

RestKept(c) ==
  /\ UNCHANGED <<batches, queries, outcome>>
  /\ \A d \in Batches \ {c} : rolled'[d] = rolled[d]

\* A command that does nothing to SQLite.
LEMMA SameKeepsOthers ==
  ASSUME DatabaseInv, NEW c, RestKept(c), UNCHANGED sqlite
  PROVE  OthersOK(c)
<1>1. UNCHANGED <<transaction, pending, durable, opener, torn, queries, outcome>>
  BY DEF sqlite, RestKept
<1>2. ASSUME NEW d \in Batches \ {c} PROVE BatchOK(d)'
  <2>1. BatchOK(d) /\ rolled'[d] = rolled[d]
    BY DEF RestKept, DatabaseInv, BatchInv
  <2> QED BY <2>1, <1>1 DEF BatchOK, LeftOpen, Absent, Complete
<1>3. ASSUME NEW g \in Frame, Active(g), g.batch # c PROVE PlaceOK(g)'
  <2>1. PlaceOK(g) /\ rolled'[g.batch] = rolled[g.batch]
    BY <1>3 DEF RestKept, DatabaseInv, FrameInv, Frame
  <2> QED BY <2>1, <1>1 DEF PlaceOK, LeftOpen, Absent, Complete
<1> QED BY <1>2, <1>3 DEF OthersOK

\* A write of batch c, or a raw one.
LEMMA WriteKeepsOthers ==
  ASSUME DatabaseInv, NEW c, NEW k, RestKept(c), Write(<<c, k>>)
  PROVE  OthersOK(c)
<1>1. UNCHANGED <<transaction, opener, torn, queries, outcome>>
  BY DEF Write, RestKept
<1>2. \A d \in Batches \ {c} : \A j :
        /\ <<d, j>> \in pending' <=> <<d, j>> \in pending
        /\ <<d, j>> \in durable' <=> <<d, j>> \in durable
  BY DEF Write
<1>3. ASSUME NEW d \in Batches \ {c} PROVE BatchOK(d)'
  <2>1. BatchOK(d) /\ rolled'[d] = rolled[d]
    BY DEF RestKept, DatabaseInv, BatchInv
  <2> QED BY <2>1, <1>1, <1>2 DEF BatchOK, LeftOpen, Absent, Complete
<1>4. ASSUME NEW g \in Frame, Active(g), g.batch # c PROVE PlaceOK(g)'
  <2>1. PICK d \in Batches \ {c} : d = g.batch
    BY <1>4 DEF Frame
  <2>2. PlaceOK(g) /\ rolled'[d] = rolled[d]
    BY <1>4 DEF RestKept, DatabaseInv, FrameInv
  <2> QED BY <2>1, <2>2, <1>1, <1>2 DEF PlaceOK, LeftOpen, Absent, Complete
<1> QED BY <1>3, <1>4 DEF OthersOK

\* A BEGIN of c, or a raw one: no other batch that is not torn is at its queries.
LEMMA OpenKeepsOthers ==
  ASSUME DatabaseInv, NEW c, RestKept(c), ~transaction,
         opener' = c, UNCHANGED <<pending, durable, torn>>
  PROVE  OthersOK(c)
<1>1. opener = 0 /\ UNCHANGED <<queries, outcome>>
  BY DEF RestKept, DatabaseInv, TransactionInv
<1>2. 0 \notin Batches
  BY Bounds DEF Batches
<1>3. ASSUME NEW d \in Batches \ {c} PROVE BatchOK(d)'
  <2>1. BatchOK(d) /\ rolled'[d] = rolled[d]
    BY DEF RestKept, DatabaseInv, BatchInv
  <2> QED BY <2>1, <1>1, <1>2 DEF BatchOK, LeftOpen, Absent, Complete
<1>4. ASSUME NEW g \in Frame, Active(g), g.batch # c PROVE PlaceOK(g)'
  <2>1. PICK d \in Batches \ {c} : d = g.batch
    BY <1>4 DEF Frame
  <2>2. PlaceOK(g) /\ rolled'[d] = rolled[d]
    BY <1>4, <2>1 DEF RestKept, DatabaseInv, FrameInv
  <2> QED BY <2>1, <2>2, <1>1, <1>2 DEF PlaceOK, LeftOpen, Absent, Complete
<1> QED BY <1>3, <1>4 DEF OthersOK

\* The batch whose transaction c ends is not at its queries, or it is torn.
LEMMA CutFacts ==
  ASSUME DatabaseInv, NEW c, NEW commits \in BOOLEAN, opener \notin {0, c},
         opener \notin torn \cup Cut(c, commits)
  PROVE  /\ opener \in Batches
         /\ \A g \in Frame : Active(g) /\ g.batch = opener => g.pc \in {"rollback", "unlock"}
         /\ commits => /\ rolled[opener] = "unset" /\ Complete(pending, opener)
                       /\ \A g \in Frame : Active(g) /\ g.batch = opener =>
                            g.pc = "unlock" /\ g.result # "NOICE"
<1>1. opener \in Batches
  BY Bounds DEF DatabaseInv, CallInv, TypeInv, Batches
<1>2. ~HasFrame(opener, {"query", "step", "row"})
      /\ (commits => rolled[opener] # "false" /\ ~HasFrame(opener, {"rollback"}))
  BY DEF Cut
<1>3. ASSUME NEW g \in Frame, Active(g), g.batch = opener
      PROVE  /\ g.pc \in {"rollback", "unlock"}
             /\ commits => g.pc = "unlock" /\ g.result # "NOICE"
             /\ commits => LeftOpen(opener)
  <2>1. PlaceOK(g)
    BY <1>3 DEF DatabaseInv, FrameInv
  <2>2. g.pc \notin {"lock", "begin"}
    BY <2>1, <1>3 DEF PlaceOK
  <2>3. g.pc \notin {"query", "step", "row"} /\ (commits => g.pc \notin {"rollback"})
    BY <1>2, <1>3, Framed DEF DatabaseInv, CallInv
  <2>4. g.pc \in {"rollback", "unlock"}
    BY <2>2, <2>3 DEF Frame, Places
  <2> QED BY <1>3, <2>1, <2>3, <2>4 DEF PlaceOK
<1>4. commits => LeftOpen(opener)
  <2>1. CASE Begun(opener)
    BY <2>1, <1>3 DEF Begun
  <2>2. CASE outcome[opener] = "SHIT"
    BY <2>2, <1>1 DEF DatabaseInv, BatchInv, BatchOK
  <2> QED BY <2>1, <2>2 DEF DatabaseInv, TransactionInv
<1> QED BY <1>1, <1>2, <1>3, <1>4 DEF LeftOpen

\* The end of a transaction, by c: what is not torn by it is all there, or gone.
LEMMA EndKeepsOthers ==
  ASSUME DatabaseInv, NEW c, RestKept(c), Commit(c) \/ Discard(c)
  PROVE  OthersOK(c)
<1>1. PICK commits \in BOOLEAN :
        /\ torn' = torn \cup Cut(c, commits)
        /\ durable' = IF commits THEN durable \cup pending ELSE durable
  BY DEF Commit, Discard
<1>2. opener' = 0 /\ pending' = {} /\ 0 \notin Batches /\ UNCHANGED <<queries, outcome>>
  <2>1. opener' = 0 /\ pending' = {}
    BY DEF Commit, Discard
  <2>2. 0 \notin Batches
    BY Bounds DEF Batches
  <2> QED BY <2>1, <2>2 DEF RestKept
<1>3. ASSUME NEW d \in Batches \ {c}, d \notin torn'
      PROVE  /\ d \notin torn /\ BatchOK(d) /\ rolled'[d] = rolled[d]
             /\ \/ UNCHANGED <<Absent(durable, d), Complete(durable, d)>> /\ (commits => opener # d)
                \/ /\ commits /\ opener = d
                   /\ rolled[d] = "unset" /\ Complete(durable, d)'
             /\ opener = d => \A g \in Frame : Active(g) /\ g.batch = d =>
                  g.pc \in {"rollback", "unlock"} /\ (commits => g.pc = "unlock" /\ g.result # "NOICE")
  <2>1. d \notin torn /\ BatchOK(d) /\ rolled'[d] = rolled[d]
    BY <1>1, <1>3 DEF RestKept, DatabaseInv, BatchInv
  <2>2. CASE opener # d
    <3>1. Absent(pending, d)
      BY <2>1, <2>2 DEF BatchOK
    <3>2. \A k \in 1 .. queries[d] : <<d, k>> \in durable' <=> <<d, k>> \in durable
      BY <1>1, <3>1 DEF Absent
    <3> QED BY <2>1, <2>2, <3>2, <1>2 DEF Absent, Complete
  <2>3. CASE opener = d
    <3>1. /\ \A g \in Frame : Active(g) /\ g.batch = d => g.pc \in {"rollback", "unlock"}
          /\ commits => /\ rolled[d] = "unset" /\ Complete(pending, d)
                        /\ \A g \in Frame : Active(g) /\ g.batch = d =>
                             g.pc = "unlock" /\ g.result # "NOICE"
      BY <2>3, <1>1, <1>2, <1>3, CutFacts
    <3>2. CASE commits
      <4>1. Complete(durable, d)'
        BY <3>1, <3>2, <1>1, <1>2 DEF Complete
      <4> QED BY <4>1, <3>1, <3>2, <2>1, <2>3
    <3>3. CASE ~commits
      <4>1. UNCHANGED <<Absent(durable, d), Complete(durable, d)>>
        BY <3>3, <1>1, <1>2 DEF Absent, Complete
      <4> QED BY <4>1, <3>1, <3>3, <2>1, <2>3
    <3> QED BY <3>2, <3>3
  <2> QED BY <2>2, <2>3
<1>4. ASSUME NEW d \in Batches PROVE Absent(pending, d)'
  BY <1>2 DEF Absent
<1>5. ASSUME NEW d \in Batches \ {c} PROVE BatchOK(d)'
  <2> SUFFICES ASSUME d \notin torn' PROVE BatchOK(d)'
    BY DEF BatchOK
  <2>1. CASE UNCHANGED <<Absent(durable, d), Complete(durable, d)>>
    BY <2>1, <1>2, <1>3, <1>4 DEF BatchOK
  <2>2. CASE commits /\ opener = d /\ rolled[d] = "unset" /\ Complete(durable, d)'
    BY <2>2, <1>2, <1>3, <1>4 DEF BatchOK
  <2> QED BY <2>1, <2>2, <1>3
<1>6. ASSUME NEW g \in Frame, Active(g), g.batch # c PROVE PlaceOK(g)'
  <2>1. PICK d \in Batches \ {c} : d = g.batch
    BY <1>6 DEF Frame
  <2>2. PlaceOK(g)
    BY <1>6 DEF DatabaseInv, FrameInv
  <2>3. g.pc \in {"lock", "begin"} => d \notin torn' /\ opener' # d
    BY <2>1, <2>2, <1>1, <1>2 DEF PlaceOK, Cut
  <2> SUFFICES ASSUME d \notin torn' PROVE PlaceOK(g)'
    BY <2>1, <2>3 DEF PlaceOK
  <2>4. CASE opener # d
    <3>1. g.pc \notin InSQL /\ UNCHANGED <<Absent(durable, d), Complete(durable, d)>>
      BY <2>1, <2>2, <2>4, <1>3 DEF PlaceOK
    <3> QED BY <2>1, <2>2, <2>3, <3>1, <1>2, <1>3 DEF PlaceOK
  <2>5. CASE opener = d
    <3>1. /\ g.pc \in {"rollback", "unlock"}
          /\ commits => g.pc = "unlock" /\ g.result # "NOICE"
          /\ ~commits => UNCHANGED <<Absent(durable, d), Complete(durable, d)>>
      BY <2>1, <2>5, <1>3, <1>6
    <3> QED BY <2>1, <2>2, <2>5, <2>3, <3>1, <1>2, <1>3 DEF PlaceOK, InSQL
  <2> QED BY <2>4, <2>5
<1> QED BY <1>5, <1>6 DEF OthersOK

-----------------------------------------------------------------------------
(***************************************************************************)
(* One lemma per step of a batch.  t has the mutex.                        *)
(***************************************************************************)
\* t goes on with its innermost call, of batch c: what a step has to show of c and of SQLite for
\* the invariant to hold behind it.
LEMMA GoesOn ==
  ASSUME DatabaseInv, NEW t \in Threads, stack[t] # <<>>, Top(t).pc # "lock",
         NEW c \in Batches, c = Top(t).batch,
         NEW f \in Frame, f.batch = c, f.pc \in Unfinished \cup {"unlock"},
         stack' = [stack EXCEPT ![t] = <<f>> \o Tail(@)],
         UNCHANGED <<database, lock, raws>>, RestKept(c),
         rolled' \in [Batches -> {"unset", "true", "false"}],
         statements' = IF f.pc \in Stepping THEN Len(stack[t]) ELSE Len(stack[t]) - 1,
         transaction' \in BOOLEAN, opener' \in {0, c, opener}, torn' \in SUBSET (1 .. batches),
         torn \subseteq torn', opener' \notin torn',
         ~transaction' => pending' = {} /\ opener' = 0,
         OthersOK(c), BatchOK(c)', FrameOK(f)', PlaceOK(f)', EffectInv',
         f.pc \in Unfinished => Top(t).pc \in Unfinished \/ ~transaction
  PROVE  DatabaseInv'
<1>1. /\ stack' \in [Threads -> Seq(Frame)]
      /\ \A u \in Threads : Len(stack'[u]) = Len(stack[u])
      /\ stack'[t][1] = f
      /\ \A u \in Threads : \A i \in 1 .. Len(stack[u]) :
           u # t \/ i # 1 => stack'[u][i] = stack[u][i]
  BY TopReplaced DEF DatabaseInv, CallInv
<1>2. /\ Top(t) = stack[t][1] /\ Top(t) \in Frame /\ FrameOK(Top(t)) /\ 1 \in 1 .. Len(stack[t])
      /\ Len(stack[t]) \in Nat \ {0}
  BY TopFacts, StackFacts DEF DatabaseInv, CallInv
<1>3. UNCHANGED <<batches, queries, outcome>> /\ \A d \in Batches \ {c} : rolled'[d] = rolled[d]
  BY DEF RestKept
<1>4. \A u \in Threads : \A i \in 1 .. Len(stack[u]) : stack'[u][i].batch = stack[u][i].batch
  BY <1>1, <1>2
<1>5. TypeInv'
  <2>1. statements' \in Nat
    BY <1>2
  <2>2. opener' \in 0 .. batches'
    BY <1>2, <1>3 DEF DatabaseInv, CallInv, TypeInv, FrameOK, Batches
  <2> QED BY <1>1, <1>3, <2>1, <2>2 DEF DatabaseInv, CallInv, TypeInv
<1>6. ShapeInv'
  BY <1>1 DEF DatabaseInv, CallInv, ShapeInv
<1>7. LockInv'
  <2>1. \A u \in Threads : stack'[u] = <<>> <=> stack[u] = <<>>
    BY <1>1, EmptySeq, StackFacts DEF DatabaseInv, CallInv
  <2>2. \A u \in Threads : stack[u] # <<>> => 1 \in 1 .. Len(stack[u])
    BY StackFacts DEF DatabaseInv, CallInv
  <2>3. \A u \in Threads : Held(u)' = Held(u)
    BY <1>1, <1>2, <2>1, <2>2 DEF Held, Unfinished, InSQL
  <2> QED BY <2>3 DEF DatabaseInv, CallInv, LockInv
<1>8. DistinctInv'
  BY <1>1, <1>4 DEF DatabaseInv, CallInv, DistinctInv
<1>9. FutureInv'
  BY <1>2, <1>3 DEF DatabaseInv, CallInv, FutureInv, FrameOK, TypeInv, Batches
\* A batch torn before stays so; t gets among the queries only when the batches around it are torn.
<1>10. NestInv'
  <2> SUFFICES ASSUME NEW u \in Threads,
                      NEW i \in 1 .. Len(stack'[u]), NEW j \in 1 .. Len(stack'[u]),
                      j < i, stack'[u][i].batch \notin torn'
               PROVE  stack'[u][j].pc \notin Unfinished
    BY DEF NestInv
  <2>0. i \in 1 .. Len(stack[u]) /\ j \in 1 .. Len(stack[u]) /\ stack[u][i].batch \notin torn
    BY <1>1, <1>4
  <2>1. stack[u][j].pc \notin Unfinished
    BY <2>0 DEF DatabaseInv, NestInv
  <2>2. CASE u = t /\ j = 1
    <3>1. transaction
      <4>1. PICK g \in Frame : g = stack[t][i] /\ Active(g) /\ g.pc = "row"
        BY <2>0, <2>2, StackFacts DEF DatabaseInv, CallInv, ShapeInv, Active
      <4>2. opener = g.batch /\ opener # 0
        BY <2>0, <2>2, <4>1, Bounds DEF DatabaseInv, FrameInv, PlaceOK, InSQL, Frame, Batches
      <4> QED BY <4>2 DEF DatabaseInv, TransactionInv
    <3>2. Top(t).pc \notin Unfinished
      BY <2>1, <2>2, <1>2
    <3> QED BY <2>2, <3>1, <3>2, <1>1
  <2>3. CASE u # t \/ j # 1
    BY <2>0, <2>1, <2>3, <1>1
  <2> QED BY <2>2, <2>3
<1>11. StatementInv'
  <2>1. lock.by = t
    BY <1>2, OthersWait DEF DatabaseInv, CallInv
  <2> QED BY <2>1, <1>1, Bounds DEF StatementInv
<1>12. ASSUME NEW g \in Frame
       PROVE  /\ Active(g)' => g = f \/ (Active(g) /\ g.batch # c)
              /\ Active(g) /\ g.batch # c => Active(g)'
              /\ Active(f)'
  <2>1. ASSUME Active(g)' PROVE g = f \/ (Active(g) /\ g.batch # c)
    <3>1. PICK u \in Threads : \E i \in 1 .. Len(stack[u]) : stack'[u][i] = g
      BY <2>1, <1>1 DEF Active
    <3>2. PICK i \in 1 .. Len(stack[u]) : stack'[u][i] = g
      BY <3>1
    <3>3. CASE u = t /\ i = 1
      BY <3>2, <3>3, <1>1
    <3>4. CASE ~(u = t /\ i = 1)
      <4>1. stack[u][i] = g
        BY <3>2, <3>4, <1>1
      <4>2. stack[u][i].batch # stack[t][1].batch
        BY <3>4, <1>2 DEF DatabaseInv, CallInv, DistinctInv
      <4> QED BY <4>1, <4>2, <1>2 DEF Active
    <3> QED BY <3>3, <3>4
  <2>2. ASSUME Active(g), g.batch # c PROVE Active(g)'
    <3>1. PICK u \in Threads : \E i \in 1 .. Len(stack[u]) : stack[u][i] = g
      BY <2>2 DEF Active
    <3>2. PICK i \in 1 .. Len(stack[u]) : stack[u][i] = g
      BY <3>1
    <3>3. u # t \/ i # 1
      BY <2>2, <3>2, <1>2
    <3> QED BY <3>2, <3>3, <1>1 DEF Active
  <2>3. Active(f)'
    BY <1>1, <1>2 DEF Active
  <2> QED BY <2>1, <2>2, <2>3
<1>13. FrameInv'
  <2> SUFFICES ASSUME NEW g \in Frame, Active(g)' PROVE FrameOK(g)' /\ PlaceOK(g)'
    BY DEF FrameInv
  <2>1. CASE g = f
    BY <2>1
  <2>2. CASE Active(g) /\ g.batch # c
    <3>1. FrameOK(g) /\ g.batch \in Batches
      BY <2>2 DEF DatabaseInv, FrameInv, Frame
    <3>2. FrameOK(g)'
      BY <2>2, <3>1, <1>3 DEF FrameOK
    <3> QED BY <2>2, <3>2 DEF OthersOK
  <2> QED BY <2>1, <2>2, <1>12
<1>14. BatchInv'
  BY DEF OthersOK, BatchInv
<1>15. TransactionInv'
  <2> SUFFICES ASSUME opener' # 0 PROVE Begun(opener)' \/ outcome[opener]' = "SHIT"
    BY DEF TransactionInv
  <2>1. CASE opener' = c
    BY <2>1, <1>12 DEF Begun
  <2>2. CASE opener' # c
    <3>1. opener' = opener /\ opener # 0
      BY <2>2
    <3>2. CASE Begun(opener)
      <4>1. PICK g \in Frame : /\ Active(g) /\ g.batch = opener
                               /\ g.pc \in Unfinished \cup {"unlock"}
        BY <3>2 DEF Begun
      <4> QED BY <2>2, <3>1, <4>1, <1>12 DEF Begun
    <3>3. CASE outcome[opener] = "SHIT"
      BY <3>1, <3>3, <1>3
    <3> QED BY <3>1, <3>2, <3>3 DEF DatabaseInv, TransactionInv
  <2> QED BY <2>1, <2>2
<1> QED
  BY <1>5, <1>6, <1>7, <1>8, <1>9, <1>10, <1>11, <1>13, <1>14, <1>15 DEF DatabaseInv, CallInv

\* A thread in the middle of batch c, or about to begin it: where it is and what it has.
LEMMA Working ==
  ASSUME DatabaseInv, NEW t \in Threads, NEW p \in Unfinished \cup {"begin"}, At(t, p)
  PROVE  /\ stack[t] # <<>> /\ Top(t) \in Frame /\ Top(t).pc = p /\ p # "lock"
         /\ FrameOK(Top(t)) /\ PlaceOK(Top(t)) /\ Active(Top(t))
         /\ statements = IF p \in Stepping THEN Len(stack[t]) ELSE Len(stack[t]) - 1
         /\ \E c \in Batches : /\ c = Top(t).batch /\ c # 0 /\ c \in 1 .. batches
                               /\ outcome[c] = "none" /\ rolled[c] = "unset"
                               /\ BatchOK(c) /\ queries[c] \in 0 .. MaxQueries
         /\ Top(t).index \in 1 .. MaxQueries + 1
<1>1. stack[t] # <<>> /\ Top(t).pc = p /\ p \notin {"lock", "unlock"}
  BY DEF At, Unfinished, InSQL
<1>2. /\ Top(t) = stack[t][1] /\ Top(t) \in Frame /\ Active(Top(t))
      /\ Top(t).batch \in Batches /\ Top(t).batch # 0
      /\ FrameOK(Top(t)) /\ PlaceOK(Top(t)) /\ BatchOK(Top(t).batch)
  BY <1>1, TopFacts
<1>3. statements = IF p \in Stepping THEN Len(stack[t]) ELSE Len(stack[t]) - 1
  BY <1>1, <1>2, OthersWait DEF DatabaseInv, CallInv, StatementInv
<1>4. PICK c \in Batches : c = Top(t).batch
  BY <1>2
<1>5. /\ c # 0 /\ c \in 1 .. batches /\ outcome[c] = "none" /\ rolled[c] = "unset"
      /\ BatchOK(c) /\ queries[c] \in 0 .. MaxQueries
  <2>1. c <= batches /\ outcome[c] = "none" /\ rolled[c] = "unset"
    BY <1>1, <1>2, <1>4 DEF FrameOK
  <2>2. c \in 1 .. batches
    BY <2>1 DEF Batches, DatabaseInv, CallInv, TypeInv
  <2> QED BY <2>1, <2>2, <1>2, <1>4 DEF DatabaseInv, CallInv, TypeInv
<1>6. Top(t).index \in 1 .. MaxQueries + 1
  BY <1>2 DEF Frame
<1> QED
  BY <1>1, <1>2, <1>3, <1>4, <1>5, <1>6

\* What SQLite may do on an error, by itself, and on the end of a transaction on behalf of c.
LEMMA ErrorFacts ==
  ASSUME DatabaseInv, NEW c \in Batches \cup {0}, RestKept(c), Error(c) \/ Commit(c)
  PROVE  /\ OthersOK(c)
         /\ Error(c) => /\ durable' = durable
                        /\ \/ pending' = pending /\ opener' = opener
                           \/ pending' = {} /\ opener' = 0
         /\ transaction' \in BOOLEAN /\ opener' \in {0, opener}
         /\ torn' \in SUBSET (1 .. batches) /\ torn \subseteq torn'
         /\ c \in torn' => c \in torn
         /\ opener' \notin torn' /\ (~transaction' => pending' = {} /\ opener' = 0)
         /\ pending' \cup durable' \subseteq pending \cup durable
         /\ raws' = raws => EffectInv'
<1>1. 0 \notin torn /\ opener \in 0 .. batches /\ torn \subseteq 1 .. batches
      /\ batches' = batches /\ batches \in Nat /\ transaction \in BOOLEAN
  BY Bounds DEF DatabaseInv, CallInv, TypeInv, RestKept
<1>2. CASE UNCHANGED sqlite
  <2>1. UNCHANGED <<transaction, pending, durable, opener, torn>>
    BY <1>2 DEF sqlite
  <2>2. OthersOK(c)
    BY <1>2, SameKeepsOthers
  <2>3. raws' = raws => EffectInv'
    BY <1>1, <2>1 DEF DatabaseInv, EffectInv
  <2> QED BY <1>1, <2>1, <2>2, <2>3 DEF DatabaseInv, TransactionInv
<1>3. CASE Commit(c) \/ Discard(c)
  <2>1. OthersOK(c)
    BY <1>3, EndKeepsOthers
  <2>2. /\ transaction' = FALSE /\ opener' = 0 /\ pending' = {} /\ durable' \subseteq durable \cup pending
        /\ torn' \subseteq torn \cup ({opener} \ {0, c}) /\ torn \subseteq torn'
    BY <1>3 DEF Commit, Discard, Cut
  <2>3. raws' = raws => EffectInv'
    BY <1>1, <2>2 DEF DatabaseInv, EffectInv
  <2>4. torn' \in SUBSET (1 .. batches)
    BY <1>1, <2>2
  <2>5. Error(c) => /\ durable' = durable
                    /\ \/ pending' = pending /\ opener' = opener
                       \/ pending' = {} /\ opener' = 0
    BY DEF Error, Discard, sqlite
  <2> QED BY <1>1, <2>1, <2>2, <2>3, <2>4, <2>5
<1> QED BY <1>2, <1>3 DEF Error

\* BEGIN IMMEDIATE: the transaction is of this batch, or the batch is refused.
LEMMA BeginKeeps ==
  ASSUME DatabaseInv, NEW t \in Threads, Begin(t)
  PROVE  DatabaseInv'
<1>1. At(t, "begin")
  BY DEF Begin
<1>2. /\ stack[t] # <<>> /\ Top(t) \in Frame /\ Top(t).pc = "begin"
      /\ FrameOK(Top(t)) /\ PlaceOK(Top(t))
      /\ statements = Len(stack[t]) - 1
  BY <1>1, Working DEF Stepping
<1>3. PICK c \in Batches : /\ c = Top(t).batch /\ c # 0 /\ c \in 1 .. batches
                           /\ outcome[c] = "none" /\ rolled[c] = "unset"
                           /\ BatchOK(c) /\ queries[c] \in 0 .. MaxQueries
  BY <1>1, Working
<1>4. /\ UNCHANGED <<database, lock, statements, batches, queries, outcome, rolled, raws>>
      /\ RestKept(c)
  BY DEF Begin, ghosts, RestKept
<1>5. /\ Top(t).index = 1 /\ Top(t).batch = c
      /\ c \notin torn /\ opener # c /\ Absent(durable, c) /\ Absent(pending, c)
  BY <1>2, <1>3 DEF FrameOK, PlaceOK, BatchOK
<1>6. CASE /\ ~transaction /\ transaction' = TRUE /\ opener' = c
           /\ Continue(t, "query", "NOICE") /\ UNCHANGED <<pending, durable, torn>>
  <2>1. PICK f : f = [Top(t) EXCEPT !.pc = "query", !.result = "NOICE"]
    OBVIOUS
  <2>2. /\ f \in Frame /\ f.batch = c /\ f.pc = "query" /\ f.index = 1
        /\ stack' = [stack EXCEPT ![t] = <<f>> \o Tail(@)]
    BY <2>1, <1>2, <1>5, <1>6 DEF Frame, Places, Results, Continue
  <2>3. OthersOK(c)
    BY <1>4, <1>6, OpenKeepsOthers
  <2>4. Absent(durable, c)' /\ Absent(pending, c)'
    BY <1>4, <1>5, <1>6 DEF Absent
  <2>5. BatchOK(c)' /\ FrameOK(f)' /\ PlaceOK(f)'
    <3>1. BatchOK(c)'
      BY <2>4, <1>3, <1>4, <1>6 DEF BatchOK
    <3>2. FrameOK(f)'
      BY <2>2, <1>3, <1>4 DEF FrameOK, Stepping
    <3>3. PlaceOK(f)'
      BY <2>2, <2>4, <1>3, <1>4, <1>6 DEF PlaceOK, Absent
    <3> QED BY <3>1, <3>2, <3>3
  <2>6. EffectInv'
    BY <1>4, <1>6 DEF DatabaseInv, EffectInv
  <2>7. c \notin torn'
    BY <1>5, <1>6
  <2> QED
    BY <2>2, <2>3, <2>5, <2>6, <2>7, <1>2, <1>3, <1>4, <1>6, GoesOn
       DEF DatabaseInv, CallInv, TypeInv, Unfinished, InSQL, Stepping
<1>7. CASE Error(c) /\ Continue(t, "unlock", "SHIT")
  <2>1. PICK f : f = [Top(t) EXCEPT !.pc = "unlock", !.result = "SHIT"]
    OBVIOUS
  <2>2. /\ f \in Frame /\ f.batch = c /\ f.pc = "unlock" /\ f.index = 1 /\ f.result = "SHIT"
        /\ stack' = [stack EXCEPT ![t] = <<f>> \o Tail(@)]
    BY <2>1, <1>2, <1>5, <1>7 DEF Frame, Places, Results, Continue
  <2>3. /\ OthersOK(c) /\ EffectInv'
        /\ durable' = durable
        /\ \/ pending' = pending /\ opener' = opener
           \/ pending' = {} /\ opener' = 0
        /\ transaction' \in BOOLEAN /\ opener' \in {0, opener}
        /\ torn' \in SUBSET (1 .. batches) /\ torn \subseteq torn'
        /\ c \notin torn' /\ opener' \notin torn' /\ (~transaction' => pending' = {} /\ opener' = 0)
    BY <1>4, <1>5, <1>7, ErrorFacts
  <2>4. Absent(durable, c)' /\ Absent(pending, c)' /\ opener' # c
    BY <2>3, <1>3, <1>4, <1>5 DEF Absent
  <2>5. BatchOK(c)' /\ FrameOK(f)' /\ PlaceOK(f)'
    <3>1. BatchOK(c)'
      BY <2>4, <1>3, <1>4 DEF BatchOK
    <3>2. FrameOK(f)' /\ PlaceOK(f)'
      BY <2>2, <2>4, <1>3, <1>4 DEF FrameOK, PlaceOK, Stepping, InSQL
    <3> QED BY <3>1, <3>2
  <2> QED
    BY <2>2, <2>3, <2>5, <1>2, <1>3, <1>4, GoesOn
       DEF DatabaseInv, CallInv, TypeInv, Unfinished, InSQL, Stepping
<1> QED BY <1>3, <1>6, <1>7 DEF Begin

\* A step that does nothing to SQLite: the frame moves within the queries, or goes back.
LEMMA MovesOn ==
  ASSUME DatabaseInv, NEW t \in Threads, NEW p \in InSQL, At(t, p),
         NEW f \in Frame, f.batch = Top(t).batch, f.index = Top(t).index, f.pc \in Unfinished,
         f.pc = "rollback" => f.result = "SHIT",
         f.pc \in Stepping => f.index <= queries[f.batch],
         stack' = [stack EXCEPT ![t] = <<f>> \o Tail(@)],
         UNCHANGED <<database, lock, sqlite, ghosts, raws>>,
         statements' = IF f.pc \in Stepping THEN Len(stack[t]) ELSE Len(stack[t]) - 1
  PROVE  DatabaseInv'
<1>1. p \in Unfinished \cup {"begin"} /\ p \in Unfinished
  BY DEF Unfinished
<1>2. /\ stack[t] # <<>> /\ Top(t) \in Frame /\ Top(t).pc = p /\ p # "lock"
      /\ FrameOK(Top(t)) /\ PlaceOK(Top(t))
  BY <1>1, Working
<1>3. PICK c \in Batches : /\ c = Top(t).batch /\ c # 0 /\ c \in 1 .. batches
                           /\ outcome[c] = "none" /\ rolled[c] = "unset"
                           /\ BatchOK(c) /\ queries[c] \in 0 .. MaxQueries
  BY <1>1, Working
<1>4. /\ UNCHANGED <<transaction, pending, durable, opener, torn>>
      /\ UNCHANGED <<batches, queries, outcome, rolled>> /\ RestKept(c)
  BY DEF sqlite, ghosts, RestKept
<1>5. OthersOK(c)
  BY <1>4, SameKeepsOthers
<1>6. BatchOK(c)'
  BY <1>3, <1>4 DEF BatchOK, LeftOpen, Absent, Complete
<1>7. FrameOK(f)'
  BY <1>2, <1>3, <1>4 DEF FrameOK, InSQL, Unfinished
<1>8. PlaceOK(f)'
  BY <1>2, <1>3, <1>4 DEF PlaceOK, InSQL, Unfinished, Absent
<1>9. EffectInv'
  BY <1>4 DEF DatabaseInv, EffectInv
<1>10. rolled' \in [Batches -> {"unset", "true", "false"}] /\ transaction' \in BOOLEAN
       /\ torn' \in SUBSET (1 .. batches) /\ torn \subseteq torn' /\ opener' \notin torn'
       /\ opener' \in {0, c, opener} /\ (~transaction' => pending' = {} /\ opener' = 0)
  BY <1>4 DEF DatabaseInv, CallInv, TypeInv, TransactionInv
<1> QED
  BY <1>1, <1>2, <1>3, <1>4, <1>5, <1>6, <1>7, <1>8, <1>9, <1>10, GoesOn

\* sqlite3_prepare_v2 and what follows, up to the first step.
LEMMA PrepareKeeps ==
  ASSUME DatabaseInv, NEW t \in Threads, Prepare(t)
  PROVE  DatabaseInv'
<1>1. At(t, "query") /\ "query" \in InSQL /\ "query" \in Unfinished \cup {"begin"}
  BY DEF Prepare, InSQL, Unfinished
<1>2. Top(t) \in Frame /\ statements = Len(stack[t]) - 1 /\ Len(stack[t]) \in Nat
      /\ Top(t).index <= queries[Top(t).batch]
  BY <1>1, Working, StackFacts DEF Stepping, Prepare, DatabaseInv, CallInv
<1>3. UNCHANGED <<database, lock, sqlite, ghosts, raws>>
  BY DEF Prepare
<1>4. CASE Continue(t, "step", "NOICE") /\ statements' = statements + 1
  <2>1. PICK f : f = [Top(t) EXCEPT !.pc = "step", !.result = "NOICE"]
    OBVIOUS
  <2>2. /\ f \in Frame /\ f.batch = Top(t).batch /\ f.index = Top(t).index /\ f.pc = "step"
        /\ stack' = [stack EXCEPT ![t] = <<f>> \o Tail(@)]
    BY <2>1, <1>2, <1>4 DEF Frame, Places, Results, Continue
  <2>3. f.pc \in Stepping /\ f.pc \in Unfinished /\ statements' = Len(stack[t])
    BY <2>2, <1>2, <1>4 DEF Stepping, Unfinished, InSQL
  <2> QED BY <2>2, <2>3, <1>1, <1>2, <1>3, MovesOn
<1>5. CASE Continue(t, "rollback", "SHIT") /\ UNCHANGED statements
  <2>1. PICK f : f = [Top(t) EXCEPT !.pc = "rollback", !.result = "SHIT"]
    OBVIOUS
  <2>2. /\ f \in Frame /\ f.batch = Top(t).batch /\ f.index = Top(t).index /\ f.pc = "rollback"
        /\ f.result = "SHIT" /\ stack' = [stack EXCEPT ![t] = <<f>> \o Tail(@)]
    BY <2>1, <1>2, <1>5 DEF Frame, Places, Results, Continue
  <2>3. f.pc \notin Stepping /\ f.pc \in Unfinished /\ statements' = Len(stack[t]) - 1
    BY <2>2, <1>2, <1>5 DEF Stepping, Unfinished, InSQL
  <2> QED BY <2>2, <2>3, <1>1, <1>2, <1>3, MovesOn
<1> QED BY <1>4, <1>5 DEF Prepare

\* A row, and the return of its callback.
LEMMA StepRowKeeps ==
  ASSUME DatabaseInv, NEW t \in Threads, StepRow(t) \/ CallbackReturns(t)
  PROVE  DatabaseInv'
<1>1. PICK p \in {"step", "row"} :
        At(t, p) /\ p \in InSQL /\ p \in Stepping /\ p \in Unfinished \cup {"begin"}
  BY DEF StepRow, CallbackReturns, InSQL, Unfinished, Stepping
<1>2. Top(t) \in Frame /\ FrameOK(Top(t)) /\ statements = Len(stack[t]) /\ Top(t).pc = p
  BY <1>1, Working
<1>3. Top(t).index <= queries[Top(t).batch]
  BY <1>1, <1>2 DEF FrameOK
<1>4. PICK f : \/ /\ f = [Top(t) EXCEPT !.pc = "row", !.rows = @ + 1] /\ Top(t).rows < MaxRows
                  /\ stack' = [stack EXCEPT ![t] = <<[Top(t) EXCEPT !.pc = "row", !.rows = @ + 1]>>
                                                   \o Tail(@)]
               \/ f = [Top(t) EXCEPT !.pc = "step", !.result = "NOICE"]
                  /\ Continue(t, "step", "NOICE")
  BY DEF StepRow, CallbackReturns
<1>5. /\ f \in Frame /\ f.batch = Top(t).batch /\ f.index = Top(t).index /\ f.pc \in Stepping
      /\ stack' = [stack EXCEPT ![t] = <<f>> \o Tail(@)]
  <2>1. Top(t).rows + 1 \in 0 .. MaxRows \/ ~(Top(t).rows < MaxRows)
    BY <1>2, Bounds DEF Frame
  <2> QED BY <2>1, <1>2, <1>4 DEF Frame, Places, Results, Continue, Stepping
<1>6. f.pc \in Unfinished /\ f.pc # "rollback"
  BY <1>5 DEF Stepping, Unfinished, InSQL
<1>7. UNCHANGED <<database, lock, sqlite, statements, ghosts, raws>>
  BY DEF StepRow, CallbackReturns
<1> QED
  BY <1>1, <1>2, <1>3, <1>5, <1>6, <1>7, MovesOn

\* A query is done: its effect joins those of the queries before it, or is on its own when
\* another command has ended the transaction.
LEMMA StepDoneKeeps ==
  ASSUME DatabaseInv, NEW t \in Threads, StepDone(t)
  PROVE  DatabaseInv'
<1>1. At(t, "step") /\ "step" \in Unfinished \cup {"begin"} /\ "step" \in Stepping
      /\ "step" \in InSQL
  BY DEF StepDone, InSQL, Unfinished, Stepping
<1>2. /\ stack[t] # <<>> /\ Top(t) \in Frame /\ Top(t).pc = "step"
      /\ FrameOK(Top(t)) /\ PlaceOK(Top(t)) /\ statements = Len(stack[t])
      /\ Top(t).index \in 1 .. MaxQueries + 1
  BY <1>1, Working
<1>3. PICK c \in Batches : /\ c = Top(t).batch /\ c # 0 /\ c \in 1 .. batches
                           /\ outcome[c] = "none" /\ rolled[c] = "unset"
                           /\ BatchOK(c) /\ queries[c] \in 0 .. MaxQueries
  BY <1>1, Working
<1>4. PICK n \in 1 .. MaxQueries : n = Top(t).index /\ n <= queries[c]
  BY <1>1, <1>2, <1>3, Bounds DEF FrameOK
<1>5. PICK f : f = [Top(t) EXCEPT !.pc = "query", !.index = @ + 1, !.rows = 0]
  OBVIOUS
<1>6. /\ f \in Frame /\ f.batch = c /\ f.index = n + 1 /\ f.pc = "query"
      /\ stack' = [stack EXCEPT ![t] = <<f>> \o Tail(@)]
  <2>1. n + 1 \in 1 .. MaxQueries + 1 /\ 0 \in 0 .. MaxRows
    BY Bounds
  <2> QED BY <2>1, <1>2, <1>3, <1>4, <1>5 DEF Frame, Places, StepDone
<1>7. /\ Write(<<c, n>>) /\ UNCHANGED <<database, lock, raws>> /\ RestKept(c)
      /\ UNCHANGED <<transaction, opener, torn, batches, queries, outcome, rolled>>
      /\ statements' = Len(stack[t]) - 1
  BY <1>2, <1>3, <1>4 DEF StepDone, Write, ghosts, RestKept
<1>8. OthersOK(c)
  BY <1>7, WriteKeepsOthers
<1>9. c \notin torn => /\ opener = c /\ Absent(durable, c) /\ transaction
                       /\ \A k \in 1 .. queries[c] : <<c, k>> \in pending <=> k < n
  BY <1>1, <1>2, <1>3, <1>4 DEF PlaceOK, DatabaseInv, TransactionInv
<1>10. c \notin torn => /\ durable' = durable /\ pending' = pending \cup {<<c, n>>}
                        /\ \A k \in 1 .. queries[c] : <<c, k>> \in pending' <=> k < n + 1
  <2> SUFFICES ASSUME c \notin torn
               PROVE  /\ durable' = durable /\ pending' = pending \cup {<<c, n>>}
                      /\ \A k \in 1 .. queries[c] : <<c, k>> \in pending' <=> k < n + 1
    OBVIOUS
  <2>1. durable' = durable /\ pending' = pending \cup {<<c, n>>}
    BY <1>7, <1>9 DEF Write
  <2>2. \A k \in 1 .. queries[c] : k < n + 1 <=> k < n \/ k = n
    BY <1>3
  <2> QED BY <2>1, <2>2, <1>9
<1>11. BatchOK(c)'
  BY <1>3, <1>7, <1>9, <1>10 DEF BatchOK, Absent
<1>12. FrameOK(f)'
  BY <1>3, <1>4, <1>6, <1>7 DEF FrameOK, Stepping
<1>13. PlaceOK(f)'
  BY <1>6, <1>7, <1>9, <1>10 DEF PlaceOK, Absent
<1>14. EffectInv'
  <2>1. pending' \cup durable' \subseteq pending \cup durable \cup {<<c, n>>}
    BY <1>7 DEF Write
  <2>2. <<c, n>> \in (1 .. batches) \X (1 .. MaxQueries)
    BY <1>3, <1>4
  <2> QED BY <2>1, <2>2, <1>7 DEF DatabaseInv, EffectInv
<1>15. ~transaction' => pending' = {} /\ opener' = 0
  BY <1>7 DEF Write, DatabaseInv, TransactionInv
<1> QED
  BY <1>1, <1>2, <1>3, <1>6, <1>7, <1>8, <1>11, <1>12, <1>13, <1>14, <1>15, GoesOn
     DEF DatabaseInv, CallInv, TypeInv, TransactionInv, Unfinished, InSQL, Stepping

\* Every way for a batch to end but a COMMIT that succeeds: a query, the COMMIT or the ROLLBACK
\* fails.  r is what becomes of *successfully_rollback.
LEMMA FailsKeeps ==
  ASSUME DatabaseInv, NEW t \in Threads, NEW p \in {"query", "step", "rollback"}, At(t, p),
         NEW q \in {"rollback", "unlock"}, NEW r \in {"unset", "false"},
         Error(Top(t).batch), Continue(t, q, "SHIT"),
         p = "query" => q = "unlock" /\ Top(t).index > queries[Top(t).batch] /\ r = "unset",
         p = "step" => q = "rollback" /\ r = "unset",
         p = "rollback" => q = "unlock" /\ r = "false",
         rolled' = [rolled EXCEPT ![Top(t).batch] = r],
         UNCHANGED <<database, lock, batches, queries, outcome, raws>>,
         statements' = Len(stack[t]) - 1
  PROVE  DatabaseInv'
<1>1. p \in Unfinished \cup {"begin"} /\ p \in Unfinished
  BY DEF Unfinished, InSQL
<1>2. /\ stack[t] # <<>> /\ Top(t) \in Frame /\ Top(t).pc = p
      /\ FrameOK(Top(t)) /\ PlaceOK(Top(t)) /\ Top(t).index \in 1 .. MaxQueries + 1
  BY <1>1, Working
<1>3. PICK c \in Batches : /\ c = Top(t).batch /\ c # 0 /\ c \in 1 .. batches
                           /\ outcome[c] = "none" /\ rolled[c] = "unset"
                           /\ BatchOK(c) /\ queries[c] \in 0 .. MaxQueries
  BY <1>1, Working
<1>4. PICK f : f = [Top(t) EXCEPT !.pc = q, !.result = "SHIT"]
  OBVIOUS
<1>5. /\ f \in Frame /\ f.batch = c /\ f.index = Top(t).index /\ f.pc = q /\ f.result = "SHIT"
      /\ stack' = [stack EXCEPT ![t] = <<f>> \o Tail(@)]
  BY <1>2, <1>3, <1>4 DEF Frame, Places, Results, Continue
<1>6. /\ \A d \in Batches \ {c} : rolled'[d] = rolled[d]
      /\ rolled'[c] = r /\ rolled' \in [Batches -> {"unset", "true", "false"}]
      /\ RestKept(c)
  BY <1>3 DEF DatabaseInv, CallInv, TypeInv, RestKept
<1>7. /\ OthersOK(c) /\ EffectInv'
      /\ durable' = durable
      /\ \/ pending' = pending /\ opener' = opener
         \/ pending' = {} /\ opener' = 0
      /\ transaction' \in BOOLEAN /\ opener' \in {0, opener}
      /\ torn' \in SUBSET (1 .. batches) /\ torn \subseteq torn'
      /\ opener' \notin torn' /\ (~transaction' => pending' = {} /\ opener' = 0)
  BY <1>3, <1>6, ErrorFacts
<1>8. c \notin torn' => c \notin torn /\ Absent(durable, c) /\ Absent(durable, c)'
  BY <1>1, <1>2, <1>3, <1>7 DEF PlaceOK, Absent, Unfinished, InSQL
<1>9. c \notin torn' /\ opener' # c => Absent(pending, c)'
  BY <1>3, <1>7, <1>8 DEF BatchOK, Absent
<1>10. c \notin torn' /\ opener' = c /\ p = "query" => Complete(pending, c)'
  <2> SUFFICES ASSUME c \notin torn', opener' = c, p = "query" PROVE Complete(pending, c)'
    OBVIOUS
  <2>1. pending' = pending /\ \A k \in 1 .. queries[c] : <<c, k>> \in pending <=> k < Top(t).index
    BY <1>2, <1>3, <1>7, <1>8 DEF PlaceOK, InSQL
  <2>2. \A k \in 1 .. queries[c] : k < Top(t).index
    BY <1>2, <1>3
  <2> QED BY <2>1, <2>2 DEF Complete
<1>11. BatchOK(c)'
  BY <1>3, <1>6, <1>8, <1>9 DEF BatchOK
<1>12. FrameOK(f)'
  BY <1>2, <1>3, <1>5, <1>6 DEF FrameOK, Stepping
<1>13. PlaceOK(f)'
  BY <1>5, <1>6, <1>8, <1>10 DEF PlaceOK, LeftOpen, InSQL
<1>14. f.pc \notin Stepping /\ f.pc \in Unfinished \cup {"unlock"} /\ Top(t).pc # "lock"
       /\ Top(t).pc \in Unfinished
  BY <1>1, <1>2, <1>5 DEF Unfinished, Stepping
<1> QED
  BY <1>2, <1>3, <1>5, <1>6, <1>7, <1>11, <1>12, <1>13, <1>14, GoesOn

\* A query fails.
LEMMA StepFailsKeeps ==
  ASSUME DatabaseInv, NEW t \in Threads, StepFails(t)
  PROVE  DatabaseInv'
<1>1. At(t, "step") /\ "step" \in Unfinished \cup {"begin"} /\ "step" \in Stepping
  BY DEF StepFails, Unfinished, InSQL, Stepping
<1>2. /\ statements = Len(stack[t]) /\ rolled[Top(t).batch] = "unset" /\ Top(t).batch \in Batches
  BY <1>1, Working
<1>3. /\ statements' = Len(stack[t]) - 1
      /\ UNCHANGED <<database, lock, batches, queries, outcome, rolled, raws>>
      /\ Error(Top(t).batch) /\ Continue(t, "rollback", "SHIT")
  BY <1>2 DEF StepFails, ghosts
<1>4. rolled' = [rolled EXCEPT ![Top(t).batch] = "unset"]
  BY <1>2, <1>3 DEF DatabaseInv, CallInv, TypeInv
<1> QED BY <1>1, <1>3, <1>4, FailsKeeps

\* The COMMIT fails.
LEMMA CommitFailsKeeps ==
  ASSUME DatabaseInv, NEW t \in Threads, CommitFails(t)
  PROVE  DatabaseInv'
<1>1. At(t, "query") /\ "query" \in Unfinished \cup {"begin"} /\ "query" \notin Stepping
  BY DEF CommitFails, AllDone, Unfinished, InSQL, Stepping
<1>2. /\ statements = Len(stack[t]) - 1 /\ rolled[Top(t).batch] = "unset"
      /\ Top(t).batch \in Batches
  BY <1>1, Working
<1>3. /\ statements' = Len(stack[t]) - 1
      /\ UNCHANGED <<database, lock, batches, queries, outcome, rolled, raws>>
      /\ Error(Top(t).batch) /\ Continue(t, "unlock", "SHIT")
      /\ Top(t).index > queries[Top(t).batch]
  BY <1>2 DEF CommitFails, AllDone, ghosts
<1>4. rolled' = [rolled EXCEPT ![Top(t).batch] = "unset"]
  BY <1>2, <1>3 DEF DatabaseInv, CallInv, TypeInv
<1> QED BY <1>1, <1>3, <1>4, FailsKeeps

\* The COMMIT succeeds: what is not torn is all there.
LEMMA CommitSucceedsKeeps ==
  ASSUME DatabaseInv, NEW t \in Threads, CommitSucceeds(t)
  PROVE  DatabaseInv'
<1>1. At(t, "query") /\ "query" \in Unfinished \cup {"begin"} /\ "query" \notin Stepping
  BY DEF CommitSucceeds, AllDone, Unfinished, InSQL, Stepping
<1>2. /\ stack[t] # <<>> /\ Top(t) \in Frame /\ Top(t).pc = "query"
      /\ FrameOK(Top(t)) /\ PlaceOK(Top(t)) /\ Top(t).index \in 1 .. MaxQueries + 1
      /\ statements = Len(stack[t]) - 1
  BY <1>1, Working
<1>3. PICK c \in Batches : /\ c = Top(t).batch /\ c # 0 /\ c \in 1 .. batches
                           /\ outcome[c] = "none" /\ rolled[c] = "unset"
                           /\ BatchOK(c) /\ queries[c] \in 0 .. MaxQueries
  BY <1>1, Working
<1>4. /\ Commit(c) /\ Continue(t, "unlock", "NOICE") /\ Top(t).index > queries[c]
      /\ UNCHANGED <<database, lock, statements, batches, queries, outcome, rolled, raws>>
      /\ RestKept(c)
  BY <1>3 DEF CommitSucceeds, AllDone, ghosts, RestKept
<1>5. PICK f : f = [Top(t) EXCEPT !.pc = "unlock", !.result = "NOICE"]
  OBVIOUS
<1>6. /\ f \in Frame /\ f.batch = c /\ f.index = Top(t).index /\ f.pc = "unlock"
      /\ f.result = "NOICE" /\ stack' = [stack EXCEPT ![t] = <<f>> \o Tail(@)]
  BY <1>2, <1>3, <1>4, <1>5 DEF Frame, Places, Results, Continue
<1>7. /\ OthersOK(c) /\ EffectInv'
      /\ transaction' \in BOOLEAN /\ opener' \in {0, opener}
      /\ torn' \in SUBSET (1 .. batches) /\ torn \subseteq torn'
      /\ opener' \notin torn' /\ (~transaction' => pending' = {} /\ opener' = 0)
  BY <1>3, <1>4, ErrorFacts
<1>8. pending' = {} /\ durable' = durable \cup pending /\ opener' = 0
  BY <1>4 DEF Commit
<1>9. c \notin torn' => Complete(durable, c)'
  <2> SUFFICES ASSUME c \notin torn' PROVE Complete(durable, c)'
    OBVIOUS
  <2>1. \A k \in 1 .. queries[c] : <<c, k>> \in pending <=> k < Top(t).index
    BY <1>2, <1>3, <1>7 DEF PlaceOK, InSQL
  <2>2. \A k \in 1 .. queries[c] : k < Top(t).index
    BY <1>2, <1>3, <1>4
  <2> QED BY <2>1, <2>2, <1>4, <1>8 DEF Complete
<1>10. Absent(pending, c)'
  BY <1>8 DEF Absent
<1>11. BatchOK(c)' /\ FrameOK(f)' /\ PlaceOK(f)'
  <2>1. BatchOK(c)'
    BY <1>3, <1>4, <1>8, <1>9, <1>10 DEF BatchOK
  <2>2. FrameOK(f)'
    BY <1>2, <1>3, <1>4, <1>6 DEF FrameOK, Stepping
  <2>3. PlaceOK(f)'
    BY <1>3, <1>6, <1>8, <1>9 DEF PlaceOK, InSQL
  <2> QED BY <2>1, <2>2, <2>3
<1>12. f.pc \notin Stepping /\ f.pc \notin Unfinished /\ statements' = Len(stack[t]) - 1
  BY <1>2, <1>4, <1>6 DEF Stepping, Unfinished, InSQL
<1>13. rolled' \in [Batches -> {"unset", "true", "false"}]
  BY <1>4 DEF DatabaseInv, CallInv, TypeInv
<1> QED
  BY <1>2, <1>3, <1>4, <1>6, <1>7, <1>11, <1>12, <1>13, GoesOn

\* The ROLLBACK, whatever it returns.
LEMMA RollbackKeeps ==
  ASSUME DatabaseInv, NEW t \in Threads, Rollback(t)
  PROVE  DatabaseInv'
<1>1. At(t, "rollback") /\ "rollback" \in Unfinished \cup {"begin"} /\ "rollback" \notin Stepping
  BY DEF Rollback, Unfinished, InSQL, Stepping
<1>2. /\ stack[t] # <<>> /\ Top(t) \in Frame /\ Top(t).pc = "rollback"
      /\ FrameOK(Top(t)) /\ PlaceOK(Top(t)) /\ Top(t).index \in 1 .. MaxQueries + 1
      /\ statements = Len(stack[t]) - 1 /\ Top(t).result = "SHIT"
  BY <1>1, Working DEF FrameOK
<1>3. PICK c \in Batches : /\ c = Top(t).batch /\ c # 0 /\ c \in 1 .. batches
                           /\ outcome[c] = "none" /\ rolled[c] = "unset"
                           /\ BatchOK(c) /\ queries[c] \in 0 .. MaxQueries
  BY <1>1, Working
<1>4. /\ UNCHANGED <<database, lock, statements, batches, queries, outcome, raws>>
      /\ Continue(t, "unlock", "SHIT") /\ statements' = Len(stack[t]) - 1
  BY <1>2 DEF Rollback
<1>5. CASE Error(c) /\ rolled' = [rolled EXCEPT ![c] = "false"]
  BY <1>1, <1>3, <1>4, <1>5, FailsKeeps
<1>6. CASE transaction /\ Discard(c) /\ rolled' = [rolled EXCEPT ![c] = "true"]
  <2>1. PICK f : f = [Top(t) EXCEPT !.pc = "unlock", !.result = "SHIT"]
    OBVIOUS
  <2>2. /\ f \in Frame /\ f.batch = c /\ f.index = Top(t).index /\ f.pc = "unlock"
        /\ f.result = "SHIT" /\ stack' = [stack EXCEPT ![t] = <<f>> \o Tail(@)]
    BY <2>1, <1>2, <1>3, <1>4 DEF Frame, Places, Results, Continue
  <2>3. /\ \A d \in Batches \ {c} : rolled'[d] = rolled[d]
        /\ rolled'[c] = "true" /\ rolled' \in [Batches -> {"unset", "true", "false"}]
        /\ RestKept(c)
    BY <1>3, <1>4, <1>6 DEF DatabaseInv, CallInv, TypeInv, RestKept
  <2>4. /\ OthersOK(c) /\ EffectInv'
        /\ transaction' \in BOOLEAN /\ opener' \in {0, opener}
        /\ torn' \in SUBSET (1 .. batches) /\ torn \subseteq torn'
        /\ opener' \notin torn' /\ (~transaction' => pending' = {} /\ opener' = 0)
    BY <1>3, <1>4, <1>6, <2>3, ErrorFacts DEF Error
  <2>5. pending' = {} /\ durable' = durable /\ opener' = 0
    BY <1>6 DEF Discard
  <2>6. c \notin torn' => Absent(durable, c)'
    BY <1>2, <1>3, <1>4, <2>4, <2>5 DEF PlaceOK, Absent
  <2>7. Absent(pending, c)'
    BY <2>5 DEF Absent
  <2>8. BatchOK(c)' /\ FrameOK(f)' /\ PlaceOK(f)'
    <3>1. BatchOK(c)'
      BY <1>3, <1>4, <2>3, <2>5, <2>6, <2>7 DEF BatchOK
    <3>2. FrameOK(f)'
      BY <1>2, <1>3, <1>4, <2>2 DEF FrameOK, Stepping
    <3>3. PlaceOK(f)'
      BY <1>3, <2>2, <2>5 DEF PlaceOK, InSQL
    <3> QED BY <3>1, <3>2, <3>3
  <2>9. f.pc \notin Stepping /\ f.pc \notin Unfinished
    BY <2>2 DEF Stepping, Unfinished, InSQL
  <2> QED
    BY <1>2, <1>3, <1>4, <2>2, <2>3, <2>4, <2>8, <2>9, GoesOn
<1> QED BY <1>2, <1>3, <1>5, <1>6 DEF Rollback

\* A frame of the stacks behind a step is one from before, unless t put it there.
LEMMA FramesKept ==
  ASSUME FrameInv,
         UNCHANGED <<sqlite, queries>>,
         \A g \in Frame : Active(g)' =>
           \/ FrameOK(g)' /\ PlaceOK(g)'
           \/ Active(g) /\ /\ g.batch <= batches'
                           /\ outcome'[g.batch] = outcome[g.batch]
                           /\ rolled'[g.batch] = rolled[g.batch]
  PROVE  FrameInv'
<1> SUFFICES ASSUME NEW g \in Frame, Active(g), FrameOK(g), PlaceOK(g),
                    g.batch <= batches', outcome'[g.batch] = outcome[g.batch],
                    rolled'[g.batch] = rolled[g.batch]
             PROVE  FrameOK(g)' /\ PlaceOK(g)'
  BY DEF FrameInv
<1>1. UNCHANGED <<transaction, pending, durable, opener, torn, queries>>
  BY DEF sqlite
<1> QED BY <1>1 DEF FrameOK, PlaceOK, LeftOpen, Absent, Complete

\* The recursive mutex, when it is free or the thread's own.
LEMMA LockKeeps ==
  ASSUME DatabaseInv, NEW t \in Threads, Lock(t)
  PROVE  DatabaseInv'
<1>1. /\ stack[t] # <<>> /\ Top(t) = stack[t][1] /\ Top(t) \in Frame /\ Top(t).pc = "lock"
      /\ Active(Top(t)) /\ FrameOK(Top(t)) /\ PlaceOK(Top(t))
  BY TopFacts DEF Lock, At
<1>2. PICK f : f = [Top(t) EXCEPT !.pc = "begin", !.result = "NOICE"]
  OBVIOUS
<1>3. /\ f \in Frame /\ f.batch = Top(t).batch /\ f.pc = "begin" /\ f.index = Top(t).index
      /\ stack' = [stack EXCEPT ![t] = <<f>> \o Tail(@)]
  BY <1>1, <1>2 DEF Frame, Places, Results, Lock, Continue
<1>4. /\ UNCHANGED <<database, sqlite, statements, batches, queries, outcome, rolled, raws>>
      /\ UNCHANGED <<transaction, pending, durable, opener, torn>>
      /\ lock.by \in {NULL, t} /\ lock' = [by |-> t, depth |-> lock.depth + 1]
  BY DEF Lock, sqlite, ghosts
<1>5. /\ stack' \in [Threads -> Seq(Frame)]
      /\ \A u \in Threads : Len(stack'[u]) = Len(stack[u])
      /\ stack'[t][1] = f
      /\ \A u \in Threads : \A i \in 1 .. Len(stack[u]) :
           u # t \/ i # 1 => stack'[u][i] = stack[u][i]
  BY <1>1, <1>3, TopReplaced DEF DatabaseInv, CallInv
<1>6. \A u \in Threads : /\ Len(stack[u]) \in Nat
                         /\ stack[u] = <<>> <=> Len(stack[u]) = 0
                         /\ stack'[u] = <<>> <=> Len(stack[u]) = 0
                         /\ stack[u] # <<>> => 1 \in 1 .. Len(stack[u])
  BY <1>5, StackFacts, EmptySeq DEF DatabaseInv, CallInv
<1>7. TypeInv'
  BY <1>4, <1>5 DEF DatabaseInv, CallInv, TypeInv
<1>8. ASSUME NEW u \in Threads, NEW i \in 1 .. Len(stack[u])
      PROVE  /\ stack'[u][i].batch = stack[u][i].batch
             /\ stack'[u][i].pc \in Unfinished <=> stack[u][i].pc \in Unfinished
             /\ i > 1 => stack'[u][i] = stack[u][i]
  <2>1. CASE u = t /\ i = 1
    BY <2>1, <1>1, <1>3, <1>5 DEF Unfinished, InSQL
  <2>2. CASE u # t \/ i # 1
    BY <2>2, <1>5
  <2> QED BY <2>1, <2>2
<1>9. ShapeInv' /\ DistinctInv' /\ NestInv'
  <2>1. ShapeInv'
    BY <1>5, <1>8 DEF DatabaseInv, CallInv, ShapeInv
  <2>2. DistinctInv'
    BY <1>5, <1>8 DEF DatabaseInv, CallInv, DistinctInv
  <2>3. NestInv'
    BY <1>4, <1>5, <1>8 DEF DatabaseInv, NestInv
  <2> QED BY <2>1, <2>2, <2>3
<1>10. Held(t) = Len(stack[t]) - 1 /\ Held(t)' = Len(stack[t])
  BY <1>1, <1>3, <1>5, <1>6 DEF Held
<1>11. lock.depth = Held(t) /\ \A u \in Threads \ {t} : Held(u) = 0
  BY <1>4, <1>10, Bounds DEF DatabaseInv, CallInv, LockInv
<1>12. LockInv'
  <2>1. \A u \in Threads \ {t} : Held(u)' = Held(u)
    BY <1>5, <1>6 DEF Held
  <2>2. lock'.by = t /\ lock'.depth = Held(t)' /\ lock'.depth # 0
    BY <1>1, <1>4, <1>6, <1>10, <1>11
  <2> QED BY <2>1, <2>2, <1>11, Bounds DEF LockInv
<1>13. StatementInv'
  <2>1. statements = Len(stack[t]) - 1
    <3>1. CASE lock.by = NULL
      BY <3>1, <1>6, <1>10, <1>11 DEF DatabaseInv, CallInv, LockInv, StatementInv
    <3>2. CASE lock.by = t
      BY <3>2, <1>1 DEF DatabaseInv, StatementInv, Stepping
    <3> QED BY <3>1, <3>2, <1>4
  <2> QED BY <2>1, <1>3, <1>4, <1>5, Bounds DEF StatementInv, Stepping
<1>14. ASSUME NEW g \in Frame
       PROVE  /\ Active(g)' => g = f \/ Active(g)
              /\ Active(g) /\ g.pc # "lock" => Active(g)'
  <2>1. ASSUME Active(g)' PROVE g = f \/ Active(g)
    <3>1. PICK u \in Threads : \E i \in 1 .. Len(stack[u]) : stack'[u][i] = g
      BY <2>1, <1>5 DEF Active
    <3>2. PICK i \in 1 .. Len(stack[u]) : stack'[u][i] = g
      BY <3>1
    <3> QED BY <3>2, <1>5 DEF Active
  <2>2. ASSUME Active(g), g.pc # "lock" PROVE Active(g)'
    <3>1. PICK u \in Threads : \E i \in 1 .. Len(stack[u]) : stack[u][i] = g
      BY <2>2 DEF Active
    <3>2. PICK i \in 1 .. Len(stack[u]) : stack[u][i] = g
      BY <3>1
    <3> QED BY <2>2, <3>2, <1>1, <1>5 DEF Active
  <2> QED BY <2>1, <2>2
<1>15. FrameOK(f)' /\ PlaceOK(f)'
  BY <1>1, <1>3, <1>4 DEF FrameOK, PlaceOK, Stepping, InSQL, Absent
<1>16. FrameInv'
  <2>1. \A g \in Frame : Active(g) => g.batch <= batches'
    BY <1>4 DEF DatabaseInv, FrameInv, FrameOK
  <2> QED BY <2>1, <1>4, <1>14, <1>15, FramesKept DEF DatabaseInv
<1>17. BatchInv'
  BY <1>4 DEF DatabaseInv, BatchInv, BatchOK, LeftOpen, Absent, Complete
<1>18. TransactionInv'
  BY <1>4, <1>14 DEF DatabaseInv, TransactionInv, Begun, Unfinished, InSQL
<1>19. FutureInv' /\ EffectInv'
  BY <1>4 DEF DatabaseInv, CallInv, FutureInv, EffectInv
<1> QED
  BY <1>7, <1>9, <1>12, <1>13, <1>16, <1>17, <1>18, <1>19 DEF DatabaseInv, CallInv

\* The batch returns: what its last frame says of it is now recorded.
LEMMA UnlockKeeps ==
  ASSUME DatabaseInv, NEW t \in Threads, Unlock(t)
  PROVE  DatabaseInv'
<1>1. /\ stack[t] # <<>> /\ Top(t) = stack[t][1] /\ Top(t) \in Frame /\ Top(t).pc = "unlock"
      /\ Active(Top(t)) /\ FrameOK(Top(t)) /\ PlaceOK(Top(t)) /\ BatchOK(Top(t).batch)
  BY TopFacts DEF Unlock, At
<1>2. PICK c \in Batches : c = Top(t).batch /\ c <= batches /\ outcome[c] = "none"
  BY <1>1 DEF Frame, FrameOK
<1>3. PICK r \in Results : r = Top(t).result
  BY <1>1 DEF Frame
<1>4. /\ UNCHANGED <<database, sqlite, statements, batches, queries, rolled, raws>>
      /\ UNCHANGED <<transaction, pending, durable, opener, torn>>
      /\ lock' = [by |-> IF lock.depth = 1 THEN NULL ELSE t, depth |-> lock.depth - 1]
      /\ outcome' = [outcome EXCEPT ![c] = r]
      /\ stack' = [stack EXCEPT ![t] = Tail(@)]
  BY <1>2, <1>3 DEF Unlock, sqlite
<1>5. /\ stack' \in [Threads -> Seq(Frame)]
      /\ Len(stack[t]) \in Nat \ {0} /\ Len(stack'[t]) = Len(stack[t]) - 1
      /\ \A i \in 1 .. Len(stack'[t]) : stack'[t][i] = stack[t][i + 1]
      /\ \A u \in Threads \ {t} : stack'[u] = stack[u]
  BY <1>1, <1>4, Popped DEF DatabaseInv, CallInv
<1>6. /\ lock.by = t /\ lock.depth = Len(stack[t])
      /\ \A u \in Threads \ {t} : \A i \in 1 .. Len(stack[u]) :
           i = 1 /\ Len(stack[u]) = 1 /\ stack[u][i].pc = "lock"
  BY <1>1, OthersWait DEF DatabaseInv, CallInv
<1>7. /\ outcome'[c] = r /\ \A d \in Batches \ {c} : outcome'[d] = outcome[d]
      /\ outcome' \in [Batches -> Results \cup {"none"}]
  BY <1>4 DEF DatabaseInv, CallInv, TypeInv
<1>8. TypeInv'
  <2>1. lock' \in [by : Threads \cup {NULL}, depth : Nat]
    BY <1>4, <1>5, <1>6
  <2> QED BY <2>1, <1>4, <1>5, <1>7 DEF DatabaseInv, CallInv, TypeInv
\* Where a frame that stays was.
<1>9. ASSUME NEW u \in Threads, NEW i \in 1 .. Len(stack'[u])
      PROVE  LET j == IF u = t THEN i + 1 ELSE i
             IN j \in 1 .. Len(stack[u]) /\ stack'[u][i] = stack[u][j] /\ ~(u = t /\ j = 1)
  <2>1. CASE u = t
    BY <2>1, <1>5
  <2>2. CASE u # t
    BY <2>2, <1>5
  <2> QED BY <2>1, <2>2
<1>10. ShapeInv'
  <2> SUFFICES ASSUME NEW u \in Threads, NEW i \in 1 .. Len(stack'[u]), i > 1
               PROVE  stack'[u][i].pc = "row"
    BY DEF ShapeInv
  <2>1. PICK j \in 1 .. Len(stack[u]) : j = (IF u = t THEN i + 1 ELSE i)
                                       /\ stack'[u][i] = stack[u][j]
    BY <1>9
  <2>2. j > 1
    BY <2>1
  <2> QED BY <2>1, <2>2 DEF DatabaseInv, CallInv, ShapeInv
<1>11. NestInv'
  <2> SUFFICES ASSUME NEW u \in Threads,
                      NEW i \in 1 .. Len(stack'[u]), NEW k \in 1 .. Len(stack'[u]),
                      k < i, stack'[u][i].batch \notin torn'
               PROVE  stack'[u][k].pc \notin Unfinished
    BY DEF NestInv
  <2>1. PICK j \in 1 .. Len(stack[u]) : j = (IF u = t THEN i + 1 ELSE i)
                                       /\ stack'[u][i] = stack[u][j]
    BY <1>9
  <2>2. PICK l \in 1 .. Len(stack[u]) : l = (IF u = t THEN k + 1 ELSE k)
                                       /\ stack'[u][k] = stack[u][l]
    BY <1>9
  <2> QED BY <2>1, <2>2, <1>4 DEF DatabaseInv, NestInv
<1>12. DistinctInv'
  <2> SUFFICES ASSUME NEW u \in Threads, NEW v \in Threads,
                      NEW i \in 1 .. Len(stack'[u]), NEW k \in 1 .. Len(stack'[v]),
                      stack'[u][i].batch = stack'[v][k].batch
               PROVE  u = v /\ i = k
    BY DEF DistinctInv
  <2>1. PICK j \in 1 .. Len(stack[u]) : j = (IF u = t THEN i + 1 ELSE i)
                                       /\ stack'[u][i] = stack[u][j]
    BY <1>9
  <2>2. PICK l \in 1 .. Len(stack[v]) : l = (IF v = t THEN k + 1 ELSE k)
                                       /\ stack'[v][k] = stack[v][l]
    BY <1>9
  <2>3. u = v /\ j = l
    BY <2>1, <2>2 DEF DatabaseInv, CallInv, DistinctInv
  <2> QED BY <2>1, <2>2, <2>3
\* Behind the frame that is gone is the row of the batch around it.
<1>13. Len(stack'[t]) > 0 => 1 \in 1 .. Len(stack'[t]) /\ stack'[t][1].pc = "row"
  <2> SUFFICES ASSUME Len(stack'[t]) > 0
               PROVE  1 \in 1 .. Len(stack'[t]) /\ stack'[t][1].pc = "row"
    OBVIOUS
  <2>1. 1 \in 1 .. Len(stack'[t]) /\ 2 \in 1 .. Len(stack[t])
    BY <1>5
  <2>2. stack'[t][1] = stack[t][2]
    BY <2>1, <1>5
  <2> QED BY <2>1, <2>2 DEF DatabaseInv, CallInv, ShapeInv
<1>14. stack'[t] = <<>> <=> Len(stack'[t]) = 0
  BY <1>5, EmptySeq
<1>15. LockInv'
  <2>1. Held(t)' = Len(stack[t]) - 1
    BY <1>5, <1>13, <1>14 DEF Held
  <2>2. \A u \in Threads \ {t} : Held(u)' = 0
    <3>1. \A u \in Threads \ {t} : Held(u) = 0
      BY <1>6 DEF DatabaseInv, CallInv, LockInv
    <3> QED BY <3>1, <1>5 DEF Held
  <2>3. /\ lock'.depth = Len(stack[t]) - 1
        /\ lock'.by = IF Len(stack[t]) = 1 THEN NULL ELSE t
    BY <1>4, <1>6
  <2> QED BY <2>1, <2>2, <2>3, <1>5, Bounds DEF LockInv
<1>16. StatementInv'
  <2>1. statements = Len(stack[t]) - 1
    BY <1>1, <1>6 DEF DatabaseInv, StatementInv, Stepping
  <2>2. CASE Len(stack[t]) = 1
    BY <2>1, <2>2, <1>4, <1>6, Bounds DEF StatementInv
  <2>3. CASE Len(stack[t]) # 1
    <3>1. Len(stack'[t]) > 0 /\ lock'.by = t /\ statements' = Len(stack'[t])
      BY <2>1, <2>3, <1>4, <1>5, <1>6
    <3> QED BY <3>1, <1>13, Bounds DEF StatementInv, Stepping
  <2> QED BY <2>2, <2>3
<1>17. ASSUME NEW g \in Frame
       PROVE  /\ Active(g)' => Active(g) /\ g.batch # c
              /\ Active(g) => Active(g)' \/ g = Top(t)
  <2>1. ASSUME Active(g)' PROVE Active(g) /\ g.batch # c
    <3>1. PICK u \in Threads : \E i \in 1 .. Len(stack'[u]) : stack'[u][i] = g
      BY <2>1 DEF Active
    <3>2. PICK i \in 1 .. Len(stack'[u]) : stack'[u][i] = g
      BY <3>1
    <3>3. PICK j \in 1 .. Len(stack[u]) : stack[u][j] = g /\ ~(u = t /\ j = 1)
      BY <3>2, <1>9
    <3>4. 1 \in 1 .. Len(stack[t])
      BY <1>5
    <3>5. g.batch # stack[t][1].batch
      BY <3>3, <3>4 DEF DatabaseInv, CallInv, DistinctInv
    <3> QED BY <3>3, <3>5, <1>1, <1>2 DEF Active
  <2>2. ASSUME Active(g), g # Top(t) PROVE Active(g)'
    <3>1. PICK u \in Threads : \E i \in 1 .. Len(stack[u]) : stack[u][i] = g
      BY <2>2 DEF Active
    <3>2. PICK i \in 1 .. Len(stack[u]) : stack[u][i] = g
      BY <3>1
    <3>3. CASE u = t
      <4>1. i # 1
        BY <2>2, <3>2, <3>3, <1>1
      <4>2. i - 1 \in 1 .. Len(stack'[t]) /\ (i - 1) + 1 = i
        BY <3>3, <4>1, <1>5
      <4> QED BY <3>2, <3>3, <4>2, <1>5 DEF Active
    <3>4. CASE u # t
      BY <3>2, <3>4, <1>5 DEF Active
    <3> QED BY <3>3, <3>4
  <2> QED BY <2>1, <2>2
<1>18. FrameInv'
  <2>1. \A g \in Frame : Active(g)' => /\ Active(g) /\ g.batch <= batches'
                                      /\ outcome'[g.batch] = outcome[g.batch]
                                      /\ rolled'[g.batch] = rolled[g.batch]
    BY <1>4, <1>7, <1>17 DEF DatabaseInv, FrameInv, FrameOK, Frame
  <2> QED BY <2>1, <1>4, FramesKept DEF DatabaseInv
<1>19. BatchInv'
  <2> SUFFICES ASSUME NEW d \in Batches PROVE BatchOK(d)'
    BY DEF BatchInv
  <2>1. BatchOK(d)
    BY DEF DatabaseInv, BatchInv
  <2>2. CASE d = c
    BY <2>1, <2>2, <1>1, <1>2, <1>3, <1>4, <1>7
       DEF BatchOK, PlaceOK, LeftOpen, Absent, Complete, Results
  <2>3. CASE d # c
    BY <2>1, <2>3, <1>4, <1>7 DEF BatchOK, LeftOpen, Absent, Complete
  <2> QED BY <2>2, <2>3
<1>20. TransactionInv'
  <2> SUFFICES ASSUME opener # 0 PROVE Begun(opener)' \/ outcome'[opener] = "SHIT"
    BY <1>4 DEF DatabaseInv, TransactionInv
  <2>1. CASE opener = c
    <3>1. c \notin torn
      BY <2>1 DEF DatabaseInv, TransactionInv
    <3>2. r # "NOICE"
      BY <2>1, <3>1, <1>1, <1>2, <1>3 DEF PlaceOK
    <3> QED BY <2>1, <3>2, <1>7 DEF Results
  <2>2. CASE opener # c
    <3>1. opener \in Batches
      BY Bounds DEF DatabaseInv, CallInv, TypeInv, Batches
    <3>2. CASE Begun(opener)
      <4>1. PICK g \in Frame : /\ Active(g) /\ g.batch = opener
                               /\ g.pc \in Unfinished \cup {"unlock"}
        BY <3>2 DEF Begun
      <4>2. Active(g)'
        BY <2>2, <4>1, <1>2, <1>17
      <4> QED BY <4>1, <4>2, <1>4 DEF Begun
    <3>3. CASE outcome[opener] = "SHIT"
      BY <2>2, <3>1, <3>3, <1>7
    <3> QED BY <3>2, <3>3 DEF DatabaseInv, TransactionInv
  <2> QED BY <2>1, <2>2
<1>21. FutureInv' /\ EffectInv'
  BY <1>2, <1>4, <1>7 DEF DatabaseInv, CallInv, TypeInv, FutureInv, EffectInv, Batches
<1> QED
  BY <1>8, <1>10, <1>11, <1>12, <1>15, <1>16, <1>18, <1>19, <1>20, <1>21
     DEF DatabaseInv, CallInv

\* A new batch, from outside or from the callback of a row.
LEMMA CallExecuteKeeps ==
  ASSUME DatabaseInv, NEW t \in Threads, NEW n \in 0 .. MaxQueries, CallExecute(t, n)
  PROVE  DatabaseInv'
<1>1. PICK c : c = batches + 1
  OBVIOUS
<1>2. c \in Batches /\ batches \in 0 .. MaxBatches /\ batches' = c /\ batches' \in 0 .. MaxBatches
  BY <1>1, Bounds DEF CallExecute, DatabaseInv, CallInv, TypeInv, Batches
<1>3. PICK f : f = [batch |-> c, index |-> 1, rows |-> 0, pc |-> "lock", result |-> "NOICE"]
  OBVIOUS
<1>4. f \in Frame
  <2>1. 1 \in 1 .. MaxQueries + 1 /\ 0 \in 0 .. MaxRows
    BY Bounds
  <2> QED BY <2>1, <1>2, <1>3 DEF Frame, Places, Results
<1>5. /\ UNCHANGED <<database, lock, transaction, pending, durable, opener, torn, statements,
                     outcome, rolled, raws>>
      /\ queries' = [queries EXCEPT ![c] = n]
      /\ stack' = [stack EXCEPT ![t] = <<f>> \o @]
  BY <1>1, <1>3 DEF CallExecute, sqlite
<1>6. /\ stack' \in [Threads -> Seq(Frame)]
      /\ Len(stack'[t]) = Len(stack[t]) + 1
      /\ stack'[t][1] = f
      /\ \A i \in 1 .. Len(stack[t]) : stack'[t][i + 1] = stack[t][i]
      /\ \A u \in Threads \ {t} : stack'[u] = stack[u]
  BY <1>4, <1>5, Pushed DEF DatabaseInv, CallInv
<1>7. \A u \in Threads : /\ Len(stack[u]) \in Nat
                         /\ stack'[u] = <<>> <=> Len(stack'[u]) = 0
                         /\ stack[u] = <<>> <=> Len(stack[u]) = 0
  BY <1>6, StackFacts, EmptySeq DEF DatabaseInv, CallInv
<1>8. stack[t] = <<>> \/ (1 \in 1 .. Len(stack[t]) /\ stack[t][1].pc = "row")
  <2>1. stack[t] = <<>> \/ At(t, "row")
    BY DEF CallExecute, MayCall
  <2> QED BY <2>1, StackFacts DEF At, Top, DatabaseInv, CallInv
\* A frame that was there, and what it is of.
<1>9. ASSUME NEW u \in Threads, NEW i \in 1 .. Len(stack'[u]), ~(u = t /\ i = 1)
      PROVE  LET j == IF u = t THEN i - 1 ELSE i
             IN /\ j \in 1 .. Len(stack[u]) /\ stack'[u][i] = stack[u][j]
                /\ stack[u][j].batch # c /\ stack[u][j] \in Frame
  <2>1. PICK j \in 1 .. Len(stack[u]) : /\ j = (IF u = t THEN i - 1 ELSE i)
                                       /\ stack'[u][i] = stack[u][j]
    <3>1. CASE u = t
      <4>1. i - 1 \in 1 .. Len(stack[t]) /\ (i - 1) + 1 = i
        BY <3>1, <1>6, <1>7, <1>9
      <4> QED BY <3>1, <4>1, <1>6
    <3>2. CASE u # t
      BY <3>2, <1>6
    <3> QED BY <3>1, <3>2
  <2>2. stack[u][j] \in Frame /\ Active(stack[u][j])
    BY StackFacts DEF DatabaseInv, CallInv, Active
  <2>3. stack[u][j].batch # c
    BY <2>2, <1>1, <1>2 DEF DatabaseInv, FrameInv, FrameOK, Frame
  <2> QED BY <2>1, <2>2, <2>3
<1>10. TypeInv'
  <2>1. 1 .. batches \subseteq 1 .. batches' /\ 0 .. batches \subseteq 0 .. batches'
    BY <1>1, <1>2
  <2>2. opener' \in 0 .. batches' /\ torn' \in SUBSET (1 .. batches')
    BY <2>1, <1>5 DEF DatabaseInv, CallInv, TypeInv
  <2> QED BY <2>2, <1>2, <1>5, <1>6 DEF DatabaseInv, CallInv, TypeInv
<1>11. ShapeInv'
  <2> SUFFICES ASSUME NEW u \in Threads, NEW i \in 1 .. Len(stack'[u]), i > 1
               PROVE  stack'[u][i].pc = "row"
    BY DEF ShapeInv
  <2>1. PICK j \in 1 .. Len(stack[u]) : /\ j = (IF u = t THEN i - 1 ELSE i)
                                       /\ stack'[u][i] = stack[u][j]
    BY <1>9
  <2>2. CASE j = 1
    BY <2>1, <2>2, <1>7, <1>8
  <2>3. CASE j # 1
    BY <2>1, <2>3 DEF DatabaseInv, CallInv, ShapeInv
  <2> QED BY <2>2, <2>3
<1>12. NestInv'
  <2> SUFFICES ASSUME NEW u \in Threads,
                      NEW i \in 1 .. Len(stack'[u]), NEW k \in 1 .. Len(stack'[u]),
                      k < i, stack'[u][i].batch \notin torn'
               PROVE  stack'[u][k].pc \notin Unfinished
    BY DEF NestInv
  <2>1. PICK j \in 1 .. Len(stack[u]) : /\ j = (IF u = t THEN i - 1 ELSE i)
                                       /\ stack'[u][i] = stack[u][j]
    BY <1>9
  <2>2. CASE u = t /\ k = 1
    BY <2>2, <1>3, <1>6 DEF Unfinished, InSQL
  <2>3. CASE ~(u = t /\ k = 1)
    <3>1. PICK l \in 1 .. Len(stack[u]) : /\ l = (IF u = t THEN k - 1 ELSE k)
                                         /\ stack'[u][k] = stack[u][l]
      BY <2>3, <1>9
    <3> QED BY <2>1, <3>1, <1>5 DEF DatabaseInv, NestInv
  <2> QED BY <2>2, <2>3
<1>13. LockInv'
  <2>1. Held(t)' = Held(t)
    BY <1>3, <1>6, <1>7, <1>8 DEF Held
  <2>2. \A u \in Threads \ {t} : Held(u)' = Held(u)
    BY <1>6 DEF Held
  <2> QED BY <2>1, <2>2, <1>5 DEF DatabaseInv, CallInv, LockInv
<1>14. StatementInv'
  <2>1. lock.by = t => stack[t] # <<>>
    BY Bounds DEF DatabaseInv, CallInv, LockInv, Held
  <2>2. lock.by = t => statements = Len(stack'[t]) - 1
    BY <2>1, <1>6, <1>7, <1>8 DEF DatabaseInv, StatementInv, Stepping
  <2> QED BY <2>2, <1>3, <1>5, <1>6 DEF DatabaseInv, StatementInv, Stepping
<1>15. DistinctInv'
  <2> SUFFICES ASSUME NEW u \in Threads, NEW v \in Threads,
                      NEW i \in 1 .. Len(stack'[u]), NEW k \in 1 .. Len(stack'[v]),
                      stack'[u][i].batch = stack'[v][k].batch
               PROVE  u = v /\ i = k
    BY DEF DistinctInv
  <2>1. CASE u = t /\ i = 1
    BY <2>1, <1>3, <1>6, <1>9
  <2>2. CASE v = t /\ k = 1
    BY <2>2, <1>3, <1>6, <1>9, SMTT(30)
  <2>3. CASE ~(u = t /\ i = 1) /\ ~(v = t /\ k = 1)
    <3>1. PICK j \in 1 .. Len(stack[u]) :
               /\ j = (IF u = t THEN i - 1 ELSE i)
               /\ stack'[u][i] = stack[u][j]
      BY <2>3, <1>9
    <3>2. PICK l \in 1 .. Len(stack[v]) :
               /\ l = (IF v = t THEN k - 1 ELSE k)
               /\ stack'[v][k] = stack[v][l]
      BY <2>3, <1>9
    <3>3. u = v /\ j = l
      BY <3>1, <3>2, SMTT(30) DEF DatabaseInv, CallInv, DistinctInv
    <3> QED BY <3>1, <3>2, <3>3
  <2> QED BY <2>1, <2>2, <2>3
\* Nothing was written yet for a batch that was not called for.
<1>16. /\ outcome[c] = "none" /\ rolled[c] = "unset" /\ opener # c /\ c \notin torn
       /\ \A k : <<c, k>> \notin pending \cup durable
  <2>1. outcome[c] = "none" /\ rolled[c] = "unset"
    BY <1>1, <1>2 DEF DatabaseInv, CallInv, FutureInv
  <2>2. opener # c /\ c \notin torn
    BY <1>1, <1>2 DEF DatabaseInv, CallInv, TypeInv
  <2>3. \A k : <<c, k>> \notin pending \cup durable
    BY <1>1, <1>2 DEF DatabaseInv, EffectInv
  <2> QED BY <2>1, <2>2, <2>3
<1>17. queries'[c] = n /\ \A d \in Batches \ {c} : queries'[d] = queries[d]
  BY <1>2, <1>5 DEF DatabaseInv, CallInv, TypeInv
<1>18. ASSUME NEW g \in Frame
       PROVE  /\ Active(g)' => g = f \/ (Active(g) /\ g.batch # c)
              /\ Active(g) => Active(g)'
  <2>1. ASSUME Active(g)' PROVE g = f \/ (Active(g) /\ g.batch # c)
    <3>1. PICK u \in Threads : \E i \in 1 .. Len(stack'[u]) : stack'[u][i] = g
      BY <2>1 DEF Active
    <3>2. PICK i \in 1 .. Len(stack'[u]) : stack'[u][i] = g
      BY <3>1
    <3>3. CASE u = t /\ i = 1
      BY <3>2, <3>3, <1>6
    <3>4. CASE ~(u = t /\ i = 1)
      BY <3>2, <3>4, <1>9 DEF Active
    <3> QED BY <3>3, <3>4
  <2>2. ASSUME Active(g) PROVE Active(g)'
    <3>1. PICK u \in Threads : \E i \in 1 .. Len(stack[u]) : stack[u][i] = g
      BY <2>2 DEF Active
    <3>2. PICK i \in 1 .. Len(stack[u]) : stack[u][i] = g
      BY <3>1
    <3>3. CASE u = t
      <4>1. i + 1 \in 1 .. Len(stack'[t]) /\ stack'[t][i + 1] = g
        BY <3>2, <3>3, <1>6, <1>7
      <4> QED BY <4>1 DEF Active
    <3>4. CASE u # t
      BY <3>2, <3>4, <1>6 DEF Active
    <3> QED BY <3>3, <3>4
  <2> QED BY <2>1, <2>2
<1>19. FrameInv'
  <2> SUFFICES ASSUME NEW g \in Frame, Active(g)' PROVE FrameOK(g)' /\ PlaceOK(g)'
    BY DEF FrameInv
  <2>1. CASE g = f
    BY <2>1, <1>2, <1>3, <1>5, <1>16, <1>17 DEF FrameOK, PlaceOK, Stepping, InSQL, Absent
  <2>2. CASE Active(g) /\ g.batch # c
    <3>1. PICK d \in Batches \ {c} : d = g.batch
      BY <2>2 DEF Frame
    <3>2. FrameOK(g) /\ PlaceOK(g) /\ d <= batches
      BY <2>2, <3>1 DEF DatabaseInv, FrameInv, FrameOK
    <3>3. d <= batches'
      BY <3>2, <1>1, <1>2 DEF Batches
    <3> QED BY <3>1, <3>2, <3>3, <1>5, <1>17 DEF FrameOK, PlaceOK, LeftOpen, Absent, Complete
  <2> QED BY <2>1, <2>2, <1>18
<1>20. BatchInv'
  <2> SUFFICES ASSUME NEW d \in Batches PROVE BatchOK(d)'
    BY DEF BatchInv
  <2>1. BatchOK(d)
    BY DEF DatabaseInv, BatchInv
  <2>2. CASE d = c
    BY <2>2, <1>5, <1>16 DEF BatchOK, Absent
  <2>3. CASE d # c
    BY <2>1, <2>3, <1>5, <1>17 DEF BatchOK, LeftOpen, Absent, Complete
  <2> QED BY <2>2, <2>3
<1>21. TransactionInv'
  BY <1>5, <1>18 DEF DatabaseInv, TransactionInv, Begun
<1>22. FutureInv'
  <2> SUFFICES ASSUME NEW d \in Batches, d > batches'
               PROVE  outcome'[d] = "none" /\ rolled'[d] = "unset" /\ queries'[d] = 0
    BY DEF FutureInv
  <2>1. d # c /\ d > batches
    BY <1>1, <1>2 DEF Batches
  <2> QED BY <2>1, <1>5, <1>17 DEF DatabaseInv, CallInv, FutureInv
<1>23. EffectInv'
  <2>1. 1 .. batches \subseteq 1 .. batches'
    BY <1>1, <1>2
  <2> QED BY <2>1, <1>5 DEF DatabaseInv, EffectInv
<1> QED
  BY <1>10, <1>11, <1>12, <1>13, <1>14, <1>15, <1>19, <1>20, <1>21, <1>22, <1>23
     DEF DatabaseInv, CallInv

-----------------------------------------------------------------------------
(***************************************************************************)
(* Raw commands, and the connection itself.                                *)
(***************************************************************************)
\* A step on SQLite by none of the calls that the threads are in.
LEMMA QuietKeeps ==
  ASSUME DatabaseInv, UNCHANGED <<lock, statements, stack, ghosts>>,
         database' \in {"open", NULL}, raws' \in 0 .. MaxRaws,
         OthersOK(0), transaction' \in BOOLEAN, opener' \in {0, opener},
         torn' \in SUBSET (1 .. batches), torn \subseteq torn', opener' \notin torn',
         ~transaction' => pending' = {} /\ opener' = 0,
         EffectInv'
  PROVE  DatabaseInv'
<1>1. UNCHANGED <<lock, statements, stack, batches, queries, outcome, rolled>>
  BY DEF ghosts
<1>2. 0 \notin Batches /\ 0 \in 0 .. batches
  BY Bounds DEF Batches, DatabaseInv, CallInv, TypeInv
<1>3. TypeInv'
  BY <1>1, <1>2 DEF DatabaseInv, CallInv, TypeInv
<1>4. ShapeInv' /\ DistinctInv' /\ FutureInv' /\ NestInv' /\ StatementInv'
  <2>1. ShapeInv'
    BY <1>1 DEF DatabaseInv, CallInv, ShapeInv
  <2>2. DistinctInv'
    BY <1>1 DEF DatabaseInv, CallInv, DistinctInv
  <2>3. FutureInv'
    BY <1>1 DEF DatabaseInv, CallInv, FutureInv
  <2>4. NestInv'
    BY <1>1 DEF DatabaseInv, NestInv
  <2>5. StatementInv'
    BY <1>1 DEF DatabaseInv, StatementInv
  <2> QED BY <2>1, <2>2, <2>3, <2>4, <2>5
<1>5. LockInv'
  BY <1>1 DEF DatabaseInv, CallInv, LockInv, Held
<1>6. \A g \in Frame : Active(g)' <=> Active(g)
  BY <1>1 DEF Active
<1>7. FrameInv'
  <2> SUFFICES ASSUME NEW g \in Frame, Active(g) PROVE FrameOK(g)' /\ PlaceOK(g)'
    BY <1>6 DEF FrameInv
  <2>1. FrameOK(g) /\ g.batch # 0
    BY <1>2 DEF DatabaseInv, FrameInv, Frame
  <2> QED BY <2>1, <1>1 DEF FrameOK, OthersOK
<1>8. BatchInv'
  BY <1>2 DEF OthersOK, BatchInv
<1>9. TransactionInv'
  BY <1>1, <1>6 DEF DatabaseInv, TransactionInv, Begun
<1> QED
  BY <1>3, <1>4, <1>5, <1>7, <1>8, <1>9 DEF DatabaseInv, CallInv

\* A raw command, which takes no mutex: it writes, begins or ends a transaction.
LEMMA RawKeeps ==
  ASSUME DatabaseInv, NEW t \in Threads, f_database_run_raw_command(t)
  PROVE  DatabaseInv'
<1>1. Raw(t)
  BY DEF f_database_run_raw_command, RawWrite, RawBegin, RawCommit, RawDiscard
<1>2. /\ UNCHANGED <<database, lock, statements, stack, ghosts>>
      /\ raws' = raws + 1 /\ raws' \in 0 .. MaxRaws /\ raws \in Nat /\ RestKept(0)
  BY <1>1, Bounds DEF Raw, DatabaseInv, CallInv, TypeInv, RestKept, ghosts
<1>3. database' \in {"open", NULL} /\ batches' = batches /\ 0 \in Batches \cup {0}
  BY <1>2 DEF DatabaseInv, CallInv, TypeInv, RestKept
<1>4. 1 .. raws \subseteq 1 .. raws'
  BY <1>2
<1>5. CASE Commit(0) \/ Discard(0)
  <2>1. /\ OthersOK(0)
        /\ transaction' \in BOOLEAN /\ opener' \in {0, opener}
        /\ torn' \in SUBSET (1 .. batches) /\ torn \subseteq torn'
        /\ opener' \notin torn' /\ (~transaction' => pending' = {} /\ opener' = 0)
        /\ pending' \cup durable' \subseteq pending \cup durable
    BY <1>2, <1>3, <1>5, ErrorFacts DEF Error
  <2>2. EffectInv'
    BY <2>1, <1>3, <1>4 DEF DatabaseInv, EffectInv
  <2> QED BY <2>1, <2>2, <1>2, <1>3, QuietKeeps
<1>6. CASE Write(<<0, raws + 1>>)
  <2>1. OthersOK(0)
    BY <1>2, <1>6, WriteKeepsOthers
  <2>2. /\ UNCHANGED <<transaction, opener, torn>>
        /\ pending' \cup durable' \subseteq pending \cup durable \cup {<<0, raws + 1>>}
        /\ ~transaction => pending' = pending
    BY <1>6 DEF Write
  <2>3. EffectInv'
    <3>1. <<0, raws + 1>> \in {0} \X (1 .. raws')
      BY <1>2
    <3> QED BY <3>1, <2>2, <1>3, <1>4 DEF DatabaseInv, EffectInv
  <2> QED
    BY <2>1, <2>2, <2>3, <1>2, <1>3, QuietKeeps
       DEF DatabaseInv, CallInv, TypeInv, TransactionInv
<1>7. CASE ~transaction /\ transaction' = TRUE /\ UNCHANGED <<pending, durable, opener, torn>>
  <2>1. opener' = 0 /\ opener = 0
    BY <1>7 DEF DatabaseInv, TransactionInv
  <2>2. OthersOK(0)
    BY <2>1, <1>2, <1>7, OpenKeepsOthers
  <2>3. EffectInv'
    BY <1>3, <1>4, <1>7 DEF DatabaseInv, EffectInv
  <2> QED
    BY <2>1, <2>2, <2>3, <1>2, <1>3, <1>7, QuietKeeps
       DEF DatabaseInv, CallInv, TypeInv, TransactionInv
<1> QED
  BY <1>5, <1>6, <1>7
     DEF f_database_run_raw_command, RawWrite, RawBegin, RawCommit, RawDiscard

\* The connection is closed, by the only thread left, and what was left open goes with it.
LEMMA FreeKeeps ==
  ASSUME DatabaseInv, f_database_free
  PROVE  DatabaseInv'
<1>1. /\ Discard(0) /\ database' = NULL /\ UNCHANGED <<lock, statements, stack, ghosts, raws>>
      /\ RestKept(0)
  BY DEF f_database_free, RestKept, ghosts
<1>2. /\ OthersOK(0)
      /\ transaction' \in BOOLEAN /\ opener' \in {0, opener}
      /\ torn' \in SUBSET (1 .. batches) /\ torn \subseteq torn'
      /\ opener' \notin torn' /\ (~transaction' => pending' = {} /\ opener' = 0)
      /\ EffectInv'
  BY <1>1, ErrorFacts DEF Error
<1>3. raws' \in 0 .. MaxRaws
  BY <1>1 DEF DatabaseInv, CallInv, TypeInv
<1> QED BY <1>1, <1>2, <1>3, QuietKeeps

\* The connection is opened.
LEMMA InitializeKeeps ==
  ASSUME DatabaseInv, f_database_initialize
  PROVE  DatabaseInv'
<1>1. /\ UNCHANGED <<statements, stack, batches, queries, outcome, rolled, raws>>
      /\ UNCHANGED <<transaction, pending, durable, opener, torn>>
      /\ database' = "open" /\ lock' = [by |-> NULL, depth |-> 0]
  BY DEF f_database_initialize, sqlite, ghosts
<1>2. \A u \in Threads : Held(u) = 0 /\ Held(u)' = 0
  BY <1>1 DEF Held, f_database_initialize, Alone
<1>3. lock.by = NULL /\ statements = 0
  <2>1. lock.by = NULL
    BY <1>2 DEF DatabaseInv, CallInv, LockInv, TypeInv
  <2> QED BY <2>1 DEF DatabaseInv, StatementInv
<1>4. LockInv' /\ StatementInv'
  BY <1>1, <1>2, <1>3, Bounds DEF LockInv, StatementInv
<1>5. TypeInv' /\ ShapeInv' /\ DistinctInv' /\ FutureInv' /\ NestInv' /\ EffectInv'
  BY <1>1
     DEF DatabaseInv, CallInv, TypeInv, ShapeInv, DistinctInv, FutureInv, NestInv, EffectInv
<1>6. \A g \in Frame : Active(g)' <=> Active(g)
  BY <1>1 DEF Active
<1>7. FrameInv'
  BY <1>1, <1>6
     DEF DatabaseInv, FrameInv, FrameOK, PlaceOK, LeftOpen, Absent, Complete
<1>8. BatchInv' /\ TransactionInv'
  BY <1>1, <1>6
     DEF DatabaseInv, BatchInv, BatchOK, LeftOpen, Absent, Complete, TransactionInv, Begun
<1> QED BY <1>4, <1>5, <1>7, <1>8 DEF DatabaseInv, CallInv

\* Before the first call there is nothing to account for.
LEMMA InitHolds == Init => DatabaseInv
<1> SUFFICES ASSUME Init PROVE DatabaseInv
  OBVIOUS
<1>1. <<>> \in Seq(Frame) /\ Len(<<>>) = 0
  OBVIOUS
<1>2. \A t \in Threads : stack[t] = <<>> /\ Len(stack[t]) = 0
  BY <1>1 DEF Init
<1>3. TypeInv
  <2>1. stack \in [Threads -> Seq(Frame)]
    BY <1>1 DEF Init
  <2>2. 0 \in 0 .. MaxBatches /\ 0 \in 0 .. MaxRaws /\ 0 \in 0 .. MaxQueries /\ 0 \in Nat
        /\ 0 \in 0 .. 0
    BY Bounds
  <2>3. queries \in [Batches -> 0 .. MaxQueries]
    BY <2>2 DEF Init
  <2> QED BY <2>1, <2>2, <2>3 DEF Init, TypeInv
<1>4. ShapeInv /\ DistinctInv /\ NestInv
  BY <1>2 DEF ShapeInv, DistinctInv, NestInv
<1>5. FrameInv
  BY <1>2 DEF FrameInv, Active
<1>6. LockInv /\ StatementInv
  BY <1>2, Bounds DEF Init, LockInv, Held, StatementInv
<1>7. BatchInv /\ FutureInv
  <2>1. 0 \notin Batches
    BY Bounds DEF Batches
  <2>2. \A c \in Batches : outcome[c] = "none" /\ rolled[c] = "unset" /\ queries[c] = 0
    BY DEF Init
  <2>3. pending = {} /\ durable = {}
    BY DEF Init
  <2> QED BY <2>1, <2>2, <2>3 DEF Init, BatchInv, FutureInv, BatchOK, Absent, Complete
<1>8. EffectInv /\ TransactionInv
  BY DEF Init, EffectInv, TransactionInv
<1> QED BY <1>3, <1>4, <1>5, <1>6, <1>7, <1>8 DEF DatabaseInv, CallInv

\* A stuttering step.
LEMMA UnchangedKeeps == DatabaseInv /\ UNCHANGED vars => DatabaseInv'
<1> SUFFICES ASSUME DatabaseInv, UNCHANGED vars PROVE DatabaseInv'
  OBVIOUS
<1>1. /\ UNCHANGED <<database, lock, statements, stack, ghosts, raws, sqlite>>
      /\ UNCHANGED <<transaction, pending, durable, opener, torn, batches>> /\ RestKept(0)
  BY DEF vars, sqlite, ghosts, RestKept
<1>2. OthersOK(0)
  BY <1>1, SameKeepsOthers
<1>3. EffectInv'
  BY <1>1 DEF DatabaseInv, EffectInv
<1> QED
  BY <1>1, <1>2, <1>3, QuietKeeps DEF DatabaseInv, CallInv, TypeInv, TransactionInv

\* Every step, by the operation it is of.
LEMMA NextKeeps == DatabaseInv /\ [Next]_vars => DatabaseInv'
<1> SUFFICES ASSUME DatabaseInv, [Next]_vars PROVE DatabaseInv'
  OBVIOUS
<1>1. CASE f_database_initialize
  BY <1>1, InitializeKeeps
<1>2. CASE f_database_free
  BY <1>2, FreeKeeps
<1>3. ASSUME NEW t \in Threads, NEW n \in 0 .. MaxQueries, CallExecute(t, n) PROVE DatabaseInv'
  BY <1>3, CallExecuteKeeps
<1>4. ASSUME NEW t \in Threads, f_database_query_execute_list(t) PROVE DatabaseInv'
  <2>1. CASE Lock(t) BY <2>1, LockKeeps
  <2>2. CASE Begin(t) BY <2>2, BeginKeeps
  <2>3. CASE p_database_query_execute_index(t)
    BY <2>3, PrepareKeeps, StepRowKeeps, StepDoneKeeps, StepFailsKeeps
    DEF p_database_query_execute_index
  <2>4. CASE CommitSucceeds(t) BY <2>4, CommitSucceedsKeeps
  <2>5. CASE CommitFails(t) BY <2>5, CommitFailsKeeps
  <2>6. CASE Rollback(t) BY <2>6, RollbackKeeps
  <2>7. CASE Unlock(t) BY <2>7, UnlockKeeps
  <2> QED BY <1>4, <2>1, <2>2, <2>3, <2>4, <2>5, <2>6, <2>7 DEF f_database_query_execute_list
<1>5. ASSUME NEW t \in Threads, f_database_run_raw_command(t) PROVE DatabaseInv'
  BY <1>5, RawKeeps
<1>6. CASE UNCHANGED vars
  BY <1>6, UnchangedKeeps
<1> QED
  BY <1>1, <1>2, <1>3, <1>4, <1>5, <1>6 DEF Next

-----------------------------------------------------------------------------
\* The account of every frame and every batch holds in every reachable state, whichever commands
\* fail, the ROLLBACK included, and whatever raw commands are sent in between.
THEOREM BatchesAccounted == Spec => []DatabaseInv
<1> QED BY InitHolds, NextKeeps, PTL DEF Spec

\* Of a batch whose transaction no other command ended, all is committed or nothing
\* (database.c:213-256), and a call from one of its rows never runs a query.
THEOREM AtomicBatches == Spec => []BatchesAreAtomic
<1>1. DatabaseInv => BatchesAreAtomic
  <2> SUFFICES ASSUME DatabaseInv PROVE BatchesAreAtomic
    OBVIOUS
  <2>1. ASSUME NEW c \in Batches \ torn PROVE durable \cap Effects(c) \in {{}, Effects(c)}
    <3>1. Absent(durable, c) \/ Complete(durable, c)
      BY DEF DatabaseInv, BatchInv, BatchOK
    <3> QED BY <3>1 DEF Absent, Complete, Effects
  <2>2. ASSUME NEW t \in Threads, NEW i \in DOMAIN stack[t], NEW j \in DOMAIN stack[t],
               i < j, stack[t][j].batch \notin torn
        PROVE  stack[t][i].pc \notin {"query", "step", "row", "rollback"}
    <3>1. i \in 1 .. Len(stack[t]) /\ j \in 1 .. Len(stack[t])
      BY StackFacts DEF DatabaseInv, CallInv
    <3>2. stack[t][i].pc \notin Unfinished
      BY <2>2, <3>1 DEF DatabaseInv, NestInv
    <3> QED BY <3>2 DEF Unfinished, InSQL
  <2> QED BY <2>1, <2>2 DEF BatchesAreAtomic
<1> QED BY BatchesAccounted, <1>1, PTL

\* What a call returned is what became of its batch (database.c:218-226): committed with NOICE,
\* gone with *successfully_rollback true, and with false not committed, though it may be pending
\* in the transaction that its failed ROLLBACK left open.
THEOREM TrueOutcomes == Spec => []OutcomesAreTrue
<1>1. DatabaseInv => OutcomesAreTrue
  <2> SUFFICES ASSUME DatabaseInv, NEW c \in Batches \ torn
               PROVE  /\ outcome[c] = "NOICE" => Effects(c) \subseteq durable
                      /\ rolled[c] = "true" => Effects(c) \cap (pending \cup durable) = {}
                      /\ rolled[c] = "false" =>
                           /\ Effects(c) \cap durable = {}
                           /\ Effects(c) \cap pending # {} => transaction /\ opener = c
    BY DEF OutcomesAreTrue
  <2>1. BatchOK(c)
    BY DEF DatabaseInv, BatchInv
  <2>2. Effects(c) \cap pending # {} => transaction
    BY DEF DatabaseInv, TransactionInv
  <2> QED BY <2>1, <2>2 DEF BatchOK, Absent, Complete, Effects
<1> QED BY BatchesAccounted, <1>1, PTL

\* While nobody has the mutex no statement waits for its sqlite3_finalize, and the transaction of
\* a batch is open only behind its ROLLBACK that failed (database.c:222, 247), or behind its
\* COMMIT that failed with all of it pending (database.c:220, 245).
THEOREM NothingStaysOpen == Spec => []NothingIsLeftOpen
<1>1. DatabaseInv => NothingIsLeftOpen
  <2> SUFFICES ASSUME DatabaseInv PROVE NothingIsLeftOpen
    OBVIOUS
  <2>1. ASSUME lock.by = NULL
        PROVE  /\ statements = 0
               /\ transaction /\ opener # 0 =>
                    /\ outcome[opener] = "SHIT"
                    /\ \/ rolled[opener] = "false"
                       \/ rolled[opener] = "unset" /\ Effects(opener) \subseteq pending
    <3>1. ASSUME NEW t \in Threads, NEW i \in 1 .. Len(stack[t]) PROVE stack[t][i].pc = "lock"
      <4>1. stack[t] # <<>>
        BY StackFacts DEF DatabaseInv, CallInv
      <4>2. stack[t][1].pc = "lock"
        BY <2>1, <4>1, OthersWait, Bounds DEF DatabaseInv, CallInv
      <4>3. Len(stack[t]) = 1
        <5>1. Held(t) = 0
          BY <2>1, Bounds DEF DatabaseInv, CallInv, LockInv
        <5> QED BY <4>1, <4>2, <5>1, StackFacts DEF DatabaseInv, CallInv, Held
      <4> QED BY <4>2, <4>3
    <3>2. ~Begun(opener)
      BY <3>1 DEF Begun, Active, Unfinished, InSQL
    <3>3. opener # 0 => outcome[opener] = "SHIT" /\ BatchOK(opener) /\ opener \notin torn
      <4>1. opener # 0 => opener \in Batches
        BY Bounds DEF DatabaseInv, CallInv, TypeInv, Batches
      <4> QED BY <4>1, <3>2 DEF DatabaseInv, TransactionInv, BatchInv
    <3>4. opener # 0 => LeftOpen(opener)
      BY <3>3 DEF BatchOK
    <3> QED BY <2>1, <3>3, <3>4 DEF DatabaseInv, StatementInv, LeftOpen, Complete, Effects
  <2>2. pending \cup durable \subseteq AllEffects
    <3>1. 1 .. raws \subseteq 1 .. MaxRaws /\ 1 .. batches \subseteq Batches
      BY Bounds DEF DatabaseInv, CallInv, TypeInv, Batches
    <3> QED BY <3>1 DEF DatabaseInv, EffectInv, AllEffects
  <2>3. (lock.by = NULL) <=> (lock.depth = 0)
    BY DEF DatabaseInv, CallInv, LockInv
  <2>4. \A t \in Threads : \A i \in DOMAIN stack[t] : stack[t][i] \in Frame
    BY StackFacts DEF DatabaseInv, CallInv
  <2>5. opener \in Batches \cup {0} /\ torn \subseteq Batches
    BY Bounds DEF DatabaseInv, CallInv, TypeInv, Batches
  <2>6. TypeOK
    BY <2>2, <2>3, <2>4, <2>5 DEF TypeOK, DatabaseInv, CallInv, TypeInv, Frame
  <2> QED BY <2>1, <2>6 DEF NothingIsLeftOpen
<1> QED BY BatchesAccounted, <1>1, PTL
=============================================================================
