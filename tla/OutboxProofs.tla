---------------------------- MODULE OutboxProofs ----------------------------
(***************************************************************************)
(* Proofs about the outbox, for any number of rows and workers, any batch  *)
(* and any number of attempts: claims are exclusive, a settled row stays   *)
(* settled, SENT means delivered, and retries are bounded.                 *)
(*                                                                         *)
(* The heart is HolderInv: a row that was never taken back from a living   *)
(* worker has at most one holder, and its status is SENDING for as long as *)
(* it is held, or FAILED while a permanent failure is being written up.    *)
(* It needs to know what a worker has in hand at each of its steps         *)
(* (WorkInv).  The bound on retries is a budget: every claim buys one call *)
(* of a provider, and whoever may still make it has not spent it.          *)
(***************************************************************************)
EXTENDS OutboxProperties, FiniteSetTheorems, TLAPS

\* What a worker has in its hands at each step.
WorkInv ==
  \A w \in Worker :
    /\ step[w] \in {"idle", "insertRun", "reclaim", "claim", "finish"}
         => hand[w] = {} /\ item[w] = NoNotice
    /\ step[w] = "claimOne" => hand[w] = {} /\ item[w] \in Notice
    /\ step[w] = "deliver" => item[w] = NoNotice
    /\ step[w] \in {"send", "settle", "audit"} => item[w] \in Notice \ hand[w]
    /\ step[w] = "audit" => outcome[w] = "PERMANENT"

\* w is writing up the failure of row n.
Refusing(w, n) ==
  /\ item[w] = n /\ status[n] = "FAILED"
  /\ step[w] = "audit" \/ (step[w] = "settle" /\ outcome[w] = "THROWN")

\* A row that w holds and that was never taken back is w's alone.
Exclusive(w, n) ==
  /\ status[n] = "SENDING" \/ Refusing(w, n)
  /\ \A v \in Worker \ {w} : n \notin Held(v)

HolderInv == \A w \in Worker : \A n \in Held(w) \ overrun : Exclusive(w, n)

\* A worker that is about to settle a row as delivered has delivered it.
DeliveredInv ==
  \A w \in Worker : step[w] = "settle" /\ outcome[w] = "DELIVERED" => mails[item[w]] > 0

\* The claim of the request that inserted a row is the only one that does not
\* look at the attempts, and it happens once.
FirstClaimInv ==
  /\ \A n \in Notice : attempts[n] <= MaxAttempts + 1
  /\ \A n \in Notice : status[n] = "NONE" => attempts[n] = 0
  /\ \A w \in Worker : step[w] = "claimOne" =>
       /\ status[item[w]] # "NONE" /\ attempts[item[w]] <= MaxAttempts
       /\ \A v \in Worker \ {w} : step[v] = "claimOne" => item[v] # item[w]

\* The workers that may still hand row n to a provider.
Senders(n) == { w \in Worker : n \in hand[w] \/ (step[w] = "send" /\ item[w] = n) }

\* Every claim of a row is spent by at most one call of a provider.
BudgetInv == \A n \in Notice : mails[n] + Cardinality(Senders(n)) <= attempts[n]

Inv == TypeOK /\ WorkInv /\ HolderInv
-----------------------------------------------------------------------------
(* Each conjunct is preserved by every step.                               *)

\* Every step keeps the types.
LEMMA TypeStep ==
  ASSUME TypeOK, WorkInv, [Next]_vars
  PROVE  TypeOK'
<1> USE OutboxAssumption
<1>1. ASSUME NEW n \in Notice, NEW allowed \in BOOLEAN, Enqueue(n, allowed)
      PROVE  TypeOK'
  BY <1>1 DEF Enqueue, Insert, TypeOK, WorkInv, Task, Step, Outcome, Status, rows, run,
      work
<1>2. ASSUME NEW w \in Worker, NEW n \in Notice, EnqueueNow(w, n)
      PROVE  TypeOK'
  BY <1>2 DEF EnqueueNow, Insert, TakeUp, GoTo, TypeOK, WorkInv, Task, Step, Outcome,
      Status, rows, run, work
<1>3. ASSUME NEW w \in Worker, BeginRun(w)
      PROVE  TypeOK'
  BY <1>3 DEF BeginRun, GoTo, TypeOK, WorkInv, Task, Step, Outcome, Status, rows, run,
      work
<1>4. ASSUME NEW w \in Worker, ClaimOne(w)
      PROVE  TypeOK'
  BY <1>4 DEF ClaimOne, Claim, PutDown, Due, GoTo, TypeOK, WorkInv, Task, Step,
      Outcome, Status, rows, run, work
<1>5. ASSUME NEW w \in Worker, NothingToClaim(w)
      PROVE  TypeOK'
  BY <1>5 DEF NothingToClaim, Leave, PutDown, Mishap, GoTo, TypeOK, WorkInv, Task,
      Step, Outcome, Status, rows, run, work
<1>6. ASSUME NEW w \in Worker, InsertRun(w)
      PROVE  TypeOK'
  BY <1>6 DEF InsertRun, Leave, PutDown, GoTo, TypeOK, WorkInv, Task, Step, Outcome,
      Status, rows, run, work
<1>7. ASSUME NEW w \in Worker, Reclaim(w)
      PROVE  TypeOK'
  BY <1>7 DEF Reclaim, Abandoned, GoTo, TypeOK, WorkInv, Task, Step, Outcome, Status,
      rows, run, work
<1>8. ASSUME NEW w \in Worker, ClaimForDelivery(w)
      PROVE  TypeOK'
  BY <1>8 DEF ClaimForDelivery, Claim, PutDown, Claimable, Due, GoTo, TypeOK, WorkInv,
      Task, Step, Outcome, Status, rows, run, work
<1>9. ASSUME NEW w \in Worker, FinishRun(w)
      PROVE  TypeOK'
  <2>1. /\ UNCHANGED <<rows, mails, overrun>> /\ Leave(w)
        /\ runner' \in {runner, NoWorker} /\ runLapsed' \in {runLapsed, FALSE}
        /\ mishaps' = mishaps \/ Mishap
    BY <1>9 DEF FinishRun, run
  <2>2. mishaps' \in 0..MaxMishaps
    BY <2>1 DEF TypeOK, Mishap
  <2> QED
    BY <2>1, <2>2 DEF Leave, PutDown, GoTo, TypeOK, Task, Step, Outcome, rows
<1>10. ASSUME NEW w \in Worker, Deliver(w)
      PROVE  TypeOK'
  BY <1>10 DEF Deliver, TakeUp, Mishap, GoTo, TypeOK, WorkInv, Task, Step, Outcome,
      Status, rows, run, work
<1>11. ASSUME NEW w \in Worker, Send(w)
      PROVE  TypeOK'
  BY <1>11 DEF Send, GoTo, TypeOK, WorkInv, Task, Step, Outcome, Status, rows, run, work
<1>12. ASSUME NEW w \in Worker, Settle(w)
      PROVE  TypeOK'
  BY <1>12 DEF Settle, SettleAs, MarkSent, MarkAs, MarkTransient, NextRow, Leave,
      PutDown, GoTo, TypeOK, WorkInv, Task, Step, Outcome, Status, rows, run, work
<1>13. ASSUME NEW w \in Worker, Audit(w)
      PROVE  TypeOK'
  BY <1>13 DEF Audit, NextRow, Leave, PutDown, GoTo, TypeOK, WorkInv, Task, Step,
      Outcome, Status, rows, run, work
<1>14. ASSUME NEW w \in Worker, RunThrows(w)
      PROVE  TypeOK'
  BY <1>14 DEF RunThrows, Mishap, GoTo, TypeOK, WorkInv, Task, Step, Outcome, Status,
      rows, run, work
<1>15. ASSUME NEW w \in Worker, SettleThrows(w)
      PROVE  TypeOK'
  BY <1>15 DEF SettleThrows, Mishap, Leave, PutDown, GoTo, TypeOK, WorkInv, Task, Step,
      Outcome, Status, rows, run, work
<1>16. ASSUME NEW w \in Worker, Crash(w)
      PROVE  TypeOK'
  BY <1>16 DEF Crash, Mishap, Leave, PutDown, GoTo, TypeOK, WorkInv, Task, Step,
      Outcome, Status, rows, run, work
<1>17. ASSUME NEW n \in Notice, RowLeaseEnds(n)
      PROVE  TypeOK'
  BY <1>17 DEF RowLeaseEnds, TypeOK, WorkInv, Task, Step, Outcome, Status, rows, run, work
<1>18. ASSUME NEW n \in Notice, BackoffEnds(n)
      PROVE  TypeOK'
  BY <1>18 DEF BackoffEnds, TypeOK, WorkInv, Task, Step, Outcome, Status, rows, run, work
<1>19. CASE RunLeaseEnds
  BY <1>19 DEF RunLeaseEnds, TypeOK, WorkInv, Task, Step, Outcome, Status, rows, run, work
<1>20. CASE UNCHANGED vars
  BY <1>20 DEF vars, rows, run, work, TypeOK, WorkInv, Task, Step, Outcome,
      Status
<1> QED
  BY <1>1, <1>2, <1>3, <1>4, <1>5, <1>6, <1>7, <1>8, <1>9, <1>10, <1>11, <1>12,
     <1>13, <1>14, <1>15, <1>16, <1>17, <1>18, <1>19, <1>20
  DEF Next, Proceed

\* Every step leaves a worker with what its next step expects in its hands.
LEMMA WorkStep ==
  ASSUME TypeOK, WorkInv, [Next]_vars
  PROVE  WorkInv'
<1> USE OutboxAssumption
<1>1. ASSUME NEW n \in Notice, NEW allowed \in BOOLEAN, Enqueue(n, allowed)
      PROVE  WorkInv'
  BY <1>1 DEF Enqueue, Insert, TypeOK, WorkInv, rows, run, work
<1>2. ASSUME NEW w \in Worker, NEW n \in Notice, EnqueueNow(w, n)
      PROVE  WorkInv'
  BY <1>2 DEF EnqueueNow, Insert, TakeUp, GoTo, TypeOK, WorkInv, rows, run, work
<1>3. ASSUME NEW w \in Worker, BeginRun(w)
      PROVE  WorkInv'
  BY <1>3 DEF BeginRun, GoTo, TypeOK, WorkInv, rows, run, work
<1>4. ASSUME NEW w \in Worker, ClaimOne(w)
      PROVE  WorkInv'
  BY <1>4 DEF ClaimOne, Claim, PutDown, Due, GoTo, TypeOK, WorkInv, rows, run, work
<1>5. ASSUME NEW w \in Worker, NothingToClaim(w)
      PROVE  WorkInv'
  BY <1>5 DEF NothingToClaim, Leave, PutDown, Mishap, GoTo, TypeOK, WorkInv, rows, run,
      work
<1>6. ASSUME NEW w \in Worker, InsertRun(w)
      PROVE  WorkInv'
  BY <1>6 DEF InsertRun, Leave, PutDown, GoTo, TypeOK, WorkInv, rows, run, work
<1>7. ASSUME NEW w \in Worker, Reclaim(w)
      PROVE  WorkInv'
  BY <1>7 DEF Reclaim, Abandoned, GoTo, TypeOK, WorkInv, rows, run, work
<1>8. ASSUME NEW w \in Worker, ClaimForDelivery(w)
      PROVE  WorkInv'
  BY <1>8 DEF ClaimForDelivery, Claim, PutDown, Claimable, Due, GoTo, TypeOK, WorkInv,
      rows, run, work
<1>9. ASSUME NEW w \in Worker, FinishRun(w)
      PROVE  WorkInv'
  BY <1>9 DEF FinishRun, Leave, PutDown, Mishap, GoTo, TypeOK, WorkInv, rows, run, work
<1>10. ASSUME NEW w \in Worker, Deliver(w)
      PROVE  WorkInv'
  BY <1>10 DEF Deliver, TakeUp, Mishap, GoTo, TypeOK, WorkInv, rows, run, work
<1>11. ASSUME NEW w \in Worker, Send(w)
      PROVE  WorkInv'
  BY <1>11 DEF Send, GoTo, TypeOK, WorkInv, rows, run, work
<1>12. ASSUME NEW w \in Worker, Settle(w)
      PROVE  WorkInv'
  BY <1>12 DEF Settle, SettleAs, MarkSent, MarkAs, MarkTransient, NextRow, Leave,
      PutDown, GoTo, TypeOK, WorkInv, rows, run, work
<1>13. ASSUME NEW w \in Worker, Audit(w)
      PROVE  WorkInv'
  BY <1>13 DEF Audit, NextRow, Leave, PutDown, GoTo, TypeOK, WorkInv, rows, run, work
<1>14. ASSUME NEW w \in Worker, RunThrows(w)
      PROVE  WorkInv'
  BY <1>14 DEF RunThrows, Mishap, GoTo, TypeOK, WorkInv, rows, run, work
<1>15. ASSUME NEW w \in Worker, SettleThrows(w)
      PROVE  WorkInv'
  BY <1>15 DEF SettleThrows, Mishap, Leave, PutDown, GoTo, TypeOK, WorkInv, rows, run,
      work
<1>16. ASSUME NEW w \in Worker, Crash(w)
      PROVE  WorkInv'
  BY <1>16 DEF Crash, Mishap, Leave, PutDown, GoTo, TypeOK, WorkInv, rows, run, work
<1>17. ASSUME NEW n \in Notice, RowLeaseEnds(n)
      PROVE  WorkInv'
  BY <1>17 DEF RowLeaseEnds, TypeOK, WorkInv, rows, run, work
<1>18. ASSUME NEW n \in Notice, BackoffEnds(n)
      PROVE  WorkInv'
  BY <1>18 DEF BackoffEnds, TypeOK, WorkInv, rows, run, work
<1>19. CASE RunLeaseEnds
  BY <1>19 DEF RunLeaseEnds, TypeOK, WorkInv, rows, run, work
<1>20. CASE UNCHANGED vars
  BY <1>20 DEF vars, rows, run, work, TypeOK, WorkInv
<1> QED
  BY <1>1, <1>2, <1>3, <1>4, <1>5, <1>6, <1>7, <1>8, <1>9, <1>10, <1>11, <1>12,
     <1>13, <1>14, <1>15, <1>16, <1>17, <1>18, <1>19, <1>20
  DEF Next, Proceed

\* No step gives a row a second holder, or takes SENDING from a row that is held.
LEMMA HolderStep ==
  ASSUME Inv, [Next]_vars
  PROVE  HolderInv'
<1> USE OutboxAssumption DEF Inv
<1>1. ASSUME NEW n \in Notice, NEW allowed \in BOOLEAN, Enqueue(n, allowed)
      PROVE  HolderInv'
  BY <1>1 DEF Enqueue, Insert, HolderInv, Exclusive, Refusing, Held, WorkInv, TypeOK,
      rows, run, work
<1>2. ASSUME NEW w \in Worker, NEW n \in Notice, EnqueueNow(w, n)
      PROVE  HolderInv'
  BY <1>2 DEF EnqueueNow, Insert, TakeUp, GoTo, HolderInv, Exclusive, Refusing, Held,
      WorkInv, TypeOK, rows, run, work
<1>3. ASSUME NEW w \in Worker, BeginRun(w)
      PROVE  HolderInv'
  BY <1>3 DEF BeginRun, GoTo, HolderInv, Exclusive, Refusing, Held, WorkInv, TypeOK,
      rows, run, work
<1>4. ASSUME NEW w \in Worker, ClaimOne(w)
      PROVE  HolderInv'
  BY <1>4 DEF ClaimOne, Claim, PutDown, Due, GoTo, HolderInv, Exclusive, Refusing,
      Held, WorkInv, TypeOK, rows, run, work
<1>5. ASSUME NEW w \in Worker, NothingToClaim(w)
      PROVE  HolderInv'
  BY <1>5 DEF NothingToClaim, Leave, PutDown, Mishap, GoTo, HolderInv, Exclusive,
      Refusing, Held, WorkInv, TypeOK, rows, run, work
<1>6. ASSUME NEW w \in Worker, InsertRun(w)
      PROVE  HolderInv'
  BY <1>6 DEF InsertRun, Leave, PutDown, GoTo, HolderInv, Exclusive, Refusing, Held,
      WorkInv, TypeOK, rows, run, work
<1>7. ASSUME NEW w \in Worker, Reclaim(w)
      PROVE  HolderInv'
  BY <1>7 DEF Reclaim, Abandoned, GoTo, HolderInv, Exclusive, Refusing, Held, WorkInv,
      TypeOK, rows, run, work
<1>8. ASSUME NEW w \in Worker, ClaimForDelivery(w)
      PROVE  HolderInv'
  BY <1>8 DEF ClaimForDelivery, Claim, PutDown, Claimable, Due, GoTo, HolderInv,
      Exclusive, Refusing, Held, WorkInv, TypeOK, rows, run, work
<1>9. ASSUME NEW w \in Worker, FinishRun(w)
      PROVE  HolderInv'
  BY <1>9 DEF FinishRun, Leave, PutDown, Mishap, GoTo, HolderInv, Exclusive, Refusing,
      Held, WorkInv, TypeOK, rows, run, work
<1>10. ASSUME NEW w \in Worker, Deliver(w)
      PROVE  HolderInv'
  BY <1>10 DEF Deliver, TakeUp, Mishap, GoTo, HolderInv, Exclusive, Refusing, Held,
      WorkInv, TypeOK, rows, run, work
<1>11. ASSUME NEW w \in Worker, Send(w)
      PROVE  HolderInv'
  BY <1>11 DEF Send, GoTo, HolderInv, Exclusive, Refusing, Held, WorkInv, TypeOK, rows,
      run, work
<1>12. ASSUME NEW w \in Worker, Settle(w)
      PROVE  HolderInv'
  <2>1. \A u \in Worker : Held(u)' \subseteq Held(u)
    BY <1>12 DEF Settle, NextRow, Leave, PutDown, GoTo, Held, TypeOK
  <2>2. \A n \in Notice : n # item[w] => status'[n] = status[n]
    BY <1>12 DEF Settle, SettleAs, MarkSent, MarkAs, MarkTransient, TypeOK
  <2>3. \A u \in Worker \ {w} :
          step'[u] = step[u] /\ item'[u] = item[u] /\ outcome'[u] = outcome[u]
    BY <1>12 DEF Settle, NextRow, Leave, PutDown, GoTo, TypeOK
  <2>4. item[w] \in Notice /\ item[w] \in Held(w)
    BY <1>12 DEF Settle, Held, WorkInv
  <2>5. SUFFICES ASSUME NEW v \in Worker, NEW n \in Held(v)', n \notin overrun
                 PROVE  Exclusive(v, n)'
    BY <1>12 DEF Settle, HolderInv
  <2>6. n \in Notice /\ Exclusive(v, n)
    BY <2>1, <2>5 DEF HolderInv, Held, TypeOK
  <2>7. \A u \in Worker \ {v} : n \notin Held(u)'
    BY <2>1, <2>6 DEF Exclusive
  <2>8. CASE n # item[w]
    <3>1. status'[n] = status[n]
      BY <2>2, <2>6, <2>8
    <3>2. Refusing(v, n) => Refusing(v, n)'
      BY <2>3, <2>8, <3>1 DEF Refusing
    <3> QED
      BY <2>6, <2>7, <3>1, <3>2 DEF Exclusive
  <2>9. CASE n = item[w]
    <3>1. v = w
      BY <2>4, <2>6, <2>9 DEF Exclusive
    <3>2. outcome[w] = "PERMANENT"
      BY <1>12, <2>4, <2>5, <2>9, <3>1
      DEF Settle, NextRow, Leave, PutDown, GoTo, Held, WorkInv, TypeOK
    <3>3. status'[n] = "FAILED"
      BY <1>12, <2>9, <3>2 DEF Settle, SettleAs, MarkAs, TypeOK, WorkInv
    <3>4. item'[w] = n /\ step'[w] = "audit"
      BY <1>12, <2>9, <3>2 DEF Settle, GoTo, TypeOK
    <3> QED
      BY <2>7, <3>1, <3>3, <3>4 DEF Exclusive, Refusing
  <2> QED
    BY <2>8, <2>9
<1>13. ASSUME NEW w \in Worker, Audit(w)
      PROVE  HolderInv'
  BY <1>13 DEF Audit, NextRow, Leave, PutDown, GoTo, HolderInv, Exclusive, Refusing,
      Held, WorkInv, TypeOK, rows, run, work
<1>14. ASSUME NEW w \in Worker, RunThrows(w)
      PROVE  HolderInv'
  BY <1>14 DEF RunThrows, Mishap, GoTo, HolderInv, Exclusive, Refusing, Held, WorkInv,
      TypeOK, rows, run, work
<1>15. ASSUME NEW w \in Worker, SettleThrows(w)
      PROVE  HolderInv'
  BY <1>15 DEF SettleThrows, Mishap, Leave, PutDown, GoTo, HolderInv, Exclusive,
      Refusing, Held, WorkInv, TypeOK, rows, run, work
<1>16. ASSUME NEW w \in Worker, Crash(w)
      PROVE  HolderInv'
  BY <1>16 DEF Crash, Mishap, Leave, PutDown, GoTo, HolderInv, Exclusive, Refusing,
      Held, WorkInv, TypeOK, rows, run, work
<1>17. ASSUME NEW n \in Notice, RowLeaseEnds(n)
      PROVE  HolderInv'
  BY <1>17 DEF RowLeaseEnds, HolderInv, Exclusive, Refusing, Held, WorkInv, TypeOK,
      rows, run, work
<1>18. ASSUME NEW n \in Notice, BackoffEnds(n)
      PROVE  HolderInv'
  BY <1>18 DEF BackoffEnds, HolderInv, Exclusive, Refusing, Held, WorkInv, TypeOK,
      rows, run, work
<1>19. CASE RunLeaseEnds
  BY <1>19 DEF RunLeaseEnds, HolderInv, Exclusive, Refusing, Held, WorkInv, TypeOK,
      rows, run, work
<1>20. CASE UNCHANGED vars
  BY <1>20 DEF vars, rows, run, work, HolderInv, Exclusive, Refusing, Held,
      WorkInv, TypeOK
<1> QED
  BY <1>1, <1>2, <1>3, <1>4, <1>5, <1>6, <1>7, <1>8, <1>9, <1>10, <1>11, <1>12,
     <1>13, <1>14, <1>15, <1>16, <1>17, <1>18, <1>19, <1>20
  DEF Next, Proceed

\* A worker reaches the settling of a delivered row only from a provider.
LEMMA DeliveredStep ==
  ASSUME Inv, DeliveredInv, [Next]_vars
  PROVE  DeliveredInv'
<1> USE OutboxAssumption DEF Inv
<1>1. ASSUME NEW n \in Notice, NEW allowed \in BOOLEAN, Enqueue(n, allowed)
      PROVE  DeliveredInv'
  BY <1>1 DEF Enqueue, Insert, DeliveredInv, WorkInv, TypeOK, rows, run, work
<1>2. ASSUME NEW w \in Worker, NEW n \in Notice, EnqueueNow(w, n)
      PROVE  DeliveredInv'
  BY <1>2 DEF EnqueueNow, Insert, TakeUp, GoTo, DeliveredInv, WorkInv, TypeOK, rows,
      run, work
<1>3. ASSUME NEW w \in Worker, BeginRun(w)
      PROVE  DeliveredInv'
  BY <1>3 DEF BeginRun, GoTo, DeliveredInv, WorkInv, TypeOK, rows, run, work
<1>4. ASSUME NEW w \in Worker, ClaimOne(w)
      PROVE  DeliveredInv'
  BY <1>4 DEF ClaimOne, Claim, PutDown, Due, GoTo, DeliveredInv, WorkInv, TypeOK, rows,
      run, work
<1>5. ASSUME NEW w \in Worker, NothingToClaim(w)
      PROVE  DeliveredInv'
  BY <1>5 DEF NothingToClaim, Leave, PutDown, Mishap, GoTo, DeliveredInv, WorkInv,
      TypeOK, rows, run, work
<1>6. ASSUME NEW w \in Worker, InsertRun(w)
      PROVE  DeliveredInv'
  BY <1>6 DEF InsertRun, Leave, PutDown, GoTo, DeliveredInv, WorkInv, TypeOK, rows,
      run, work
<1>7. ASSUME NEW w \in Worker, Reclaim(w)
      PROVE  DeliveredInv'
  BY <1>7 DEF Reclaim, Abandoned, GoTo, DeliveredInv, WorkInv, TypeOK, rows, run, work
<1>8. ASSUME NEW w \in Worker, ClaimForDelivery(w)
      PROVE  DeliveredInv'
  BY <1>8 DEF ClaimForDelivery, Claim, PutDown, Claimable, Due, GoTo, DeliveredInv,
      WorkInv, TypeOK, rows, run, work
<1>9. ASSUME NEW w \in Worker, FinishRun(w)
      PROVE  DeliveredInv'
  BY <1>9 DEF FinishRun, Leave, PutDown, Mishap, GoTo, DeliveredInv, WorkInv, TypeOK,
      rows, run, work
<1>10. ASSUME NEW w \in Worker, Deliver(w)
      PROVE  DeliveredInv'
  BY <1>10 DEF Deliver, TakeUp, Mishap, GoTo, DeliveredInv, WorkInv, TypeOK, rows, run,
      work
<1>11. ASSUME NEW w \in Worker, Send(w)
      PROVE  DeliveredInv'
  BY <1>11 DEF Send, GoTo, DeliveredInv, WorkInv, TypeOK, rows, run, work
<1>12. ASSUME NEW w \in Worker, Settle(w)
      PROVE  DeliveredInv'
  BY <1>12 DEF Settle, SettleAs, MarkSent, MarkAs, MarkTransient, NextRow, Leave,
      PutDown, GoTo, DeliveredInv, WorkInv, TypeOK, rows, run, work
<1>13. ASSUME NEW w \in Worker, Audit(w)
      PROVE  DeliveredInv'
  BY <1>13 DEF Audit, NextRow, Leave, PutDown, GoTo, DeliveredInv, WorkInv, TypeOK,
      rows, run, work
<1>14. ASSUME NEW w \in Worker, RunThrows(w)
      PROVE  DeliveredInv'
  BY <1>14 DEF RunThrows, Mishap, GoTo, DeliveredInv, WorkInv, TypeOK, rows, run, work
<1>15. ASSUME NEW w \in Worker, SettleThrows(w)
      PROVE  DeliveredInv'
  BY <1>15 DEF SettleThrows, Mishap, Leave, PutDown, GoTo, DeliveredInv, WorkInv,
      TypeOK, rows, run, work
<1>16. ASSUME NEW w \in Worker, Crash(w)
      PROVE  DeliveredInv'
  BY <1>16 DEF Crash, Mishap, Leave, PutDown, GoTo, DeliveredInv, WorkInv, TypeOK,
      rows, run, work
<1>17. ASSUME NEW n \in Notice, RowLeaseEnds(n)
      PROVE  DeliveredInv'
  BY <1>17 DEF RowLeaseEnds, DeliveredInv, WorkInv, TypeOK, rows, run, work
<1>18. ASSUME NEW n \in Notice, BackoffEnds(n)
      PROVE  DeliveredInv'
  BY <1>18 DEF BackoffEnds, DeliveredInv, WorkInv, TypeOK, rows, run, work
<1>19. CASE RunLeaseEnds
  BY <1>19 DEF RunLeaseEnds, DeliveredInv, WorkInv, TypeOK, rows, run, work
<1>20. CASE UNCHANGED vars
  BY <1>20 DEF vars, rows, run, work, DeliveredInv, WorkInv, TypeOK
<1> QED
  BY <1>1, <1>2, <1>3, <1>4, <1>5, <1>6, <1>7, <1>8, <1>9, <1>10, <1>11, <1>12,
     <1>13, <1>14, <1>15, <1>16, <1>17, <1>18, <1>19, <1>20
  DEF Next, Proceed

\* Only the settling of a delivered row makes it SENT, and mails never go down.
LEMMA SentStep ==
  ASSUME Inv, DeliveredInv, SentMeansDelivered, [Next]_vars
  PROVE  SentMeansDelivered'
<1> USE OutboxAssumption DEF Inv
<1>1. ASSUME NEW n \in Notice, NEW allowed \in BOOLEAN, Enqueue(n, allowed)
      PROVE  SentMeansDelivered'
  BY <1>1 DEF Enqueue, Insert, SentMeansDelivered, DeliveredInv, WorkInv, TypeOK, rows,
      run, work
<1>2. ASSUME NEW w \in Worker, NEW n \in Notice, EnqueueNow(w, n)
      PROVE  SentMeansDelivered'
  BY <1>2 DEF EnqueueNow, Insert, TakeUp, GoTo, SentMeansDelivered, DeliveredInv,
      WorkInv, TypeOK, rows, run, work
<1>3. ASSUME NEW w \in Worker, BeginRun(w)
      PROVE  SentMeansDelivered'
  BY <1>3 DEF BeginRun, GoTo, SentMeansDelivered, DeliveredInv, WorkInv, TypeOK, rows,
      run, work
<1>4. ASSUME NEW w \in Worker, ClaimOne(w)
      PROVE  SentMeansDelivered'
  BY <1>4 DEF ClaimOne, Claim, PutDown, Due, GoTo, SentMeansDelivered, DeliveredInv,
      WorkInv, TypeOK, rows, run, work
<1>5. ASSUME NEW w \in Worker, NothingToClaim(w)
      PROVE  SentMeansDelivered'
  BY <1>5 DEF NothingToClaim, Leave, PutDown, Mishap, GoTo, SentMeansDelivered,
      DeliveredInv, WorkInv, TypeOK, rows, run, work
<1>6. ASSUME NEW w \in Worker, InsertRun(w)
      PROVE  SentMeansDelivered'
  BY <1>6 DEF InsertRun, Leave, PutDown, GoTo, SentMeansDelivered, DeliveredInv,
      WorkInv, TypeOK, rows, run, work
<1>7. ASSUME NEW w \in Worker, Reclaim(w)
      PROVE  SentMeansDelivered'
  BY <1>7 DEF Reclaim, Abandoned, GoTo, SentMeansDelivered, DeliveredInv, WorkInv,
      TypeOK, rows, run, work
<1>8. ASSUME NEW w \in Worker, ClaimForDelivery(w)
      PROVE  SentMeansDelivered'
  BY <1>8 DEF ClaimForDelivery, Claim, PutDown, Claimable, Due, GoTo,
      SentMeansDelivered, DeliveredInv, WorkInv, TypeOK, rows, run, work
<1>9. ASSUME NEW w \in Worker, FinishRun(w)
      PROVE  SentMeansDelivered'
  BY <1>9 DEF FinishRun, Leave, PutDown, Mishap, GoTo, SentMeansDelivered,
      DeliveredInv, WorkInv, TypeOK, rows, run, work
<1>10. ASSUME NEW w \in Worker, Deliver(w)
      PROVE  SentMeansDelivered'
  BY <1>10 DEF Deliver, TakeUp, Mishap, GoTo, SentMeansDelivered, DeliveredInv,
      WorkInv, TypeOK, rows, run, work
<1>11. ASSUME NEW w \in Worker, Send(w)
      PROVE  SentMeansDelivered'
  BY <1>11 DEF Send, GoTo, SentMeansDelivered, DeliveredInv, WorkInv, TypeOK, rows,
      run, work
<1>12. ASSUME NEW w \in Worker, Settle(w)
      PROVE  SentMeansDelivered'
  BY <1>12 DEF Settle, SettleAs, MarkSent, MarkAs, MarkTransient, NextRow, Leave,
      PutDown, GoTo, SentMeansDelivered, DeliveredInv, WorkInv, TypeOK, rows, run,
      work
<1>13. ASSUME NEW w \in Worker, Audit(w)
      PROVE  SentMeansDelivered'
  BY <1>13 DEF Audit, NextRow, Leave, PutDown, GoTo, SentMeansDelivered, DeliveredInv,
      WorkInv, TypeOK, rows, run, work
<1>14. ASSUME NEW w \in Worker, RunThrows(w)
      PROVE  SentMeansDelivered'
  BY <1>14 DEF RunThrows, Mishap, GoTo, SentMeansDelivered, DeliveredInv, WorkInv,
      TypeOK, rows, run, work
<1>15. ASSUME NEW w \in Worker, SettleThrows(w)
      PROVE  SentMeansDelivered'
  BY <1>15 DEF SettleThrows, Mishap, Leave, PutDown, GoTo, SentMeansDelivered,
      DeliveredInv, WorkInv, TypeOK, rows, run, work
<1>16. ASSUME NEW w \in Worker, Crash(w)
      PROVE  SentMeansDelivered'
  BY <1>16 DEF Crash, Mishap, Leave, PutDown, GoTo, SentMeansDelivered, DeliveredInv,
      WorkInv, TypeOK, rows, run, work
<1>17. ASSUME NEW n \in Notice, RowLeaseEnds(n)
      PROVE  SentMeansDelivered'
  BY <1>17 DEF RowLeaseEnds, SentMeansDelivered, DeliveredInv, WorkInv, TypeOK, rows,
      run, work
<1>18. ASSUME NEW n \in Notice, BackoffEnds(n)
      PROVE  SentMeansDelivered'
  BY <1>18 DEF BackoffEnds, SentMeansDelivered, DeliveredInv, WorkInv, TypeOK, rows,
      run, work
<1>19. CASE RunLeaseEnds
  BY <1>19 DEF RunLeaseEnds, SentMeansDelivered, DeliveredInv, WorkInv, TypeOK, rows,
      run, work
<1>20. CASE UNCHANGED vars
  BY <1>20 DEF vars, rows, run, work, SentMeansDelivered, DeliveredInv, WorkInv,
      TypeOK
<1> QED
  BY <1>1, <1>2, <1>3, <1>4, <1>5, <1>6, <1>7, <1>8, <1>9, <1>10, <1>11, <1>12,
     <1>13, <1>14, <1>15, <1>16, <1>17, <1>18, <1>19, <1>20
  DEF Next, Proceed

\* A row is inserted once, so one request at most claims it regardless of attempts.
LEMMA FirstClaimStep ==
  ASSUME Inv, FirstClaimInv, [Next]_vars
  PROVE  FirstClaimInv'
<1> USE OutboxAssumption DEF Inv
<1>1. ASSUME NEW n \in Notice, NEW allowed \in BOOLEAN, Enqueue(n, allowed)
      PROVE  FirstClaimInv'
  BY <1>1 DEF Enqueue, Insert, FirstClaimInv, WorkInv, TypeOK, rows, run, work
<1>2. ASSUME NEW w \in Worker, NEW n \in Notice, EnqueueNow(w, n)
      PROVE  FirstClaimInv'
  BY <1>2 DEF EnqueueNow, Insert, TakeUp, GoTo, FirstClaimInv, WorkInv, TypeOK, rows,
      run, work
<1>3. ASSUME NEW w \in Worker, BeginRun(w)
      PROVE  FirstClaimInv'
  BY <1>3 DEF BeginRun, GoTo, FirstClaimInv, WorkInv, TypeOK, rows, run, work
<1>4. ASSUME NEW w \in Worker, ClaimOne(w)
      PROVE  FirstClaimInv'
  BY <1>4 DEF ClaimOne, Claim, PutDown, Due, GoTo, FirstClaimInv, WorkInv, TypeOK,
      rows, run, work
<1>5. ASSUME NEW w \in Worker, NothingToClaim(w)
      PROVE  FirstClaimInv'
  BY <1>5 DEF NothingToClaim, Leave, PutDown, Mishap, GoTo, FirstClaimInv, WorkInv,
      TypeOK, rows, run, work
<1>6. ASSUME NEW w \in Worker, InsertRun(w)
      PROVE  FirstClaimInv'
  BY <1>6 DEF InsertRun, Leave, PutDown, GoTo, FirstClaimInv, WorkInv, TypeOK, rows,
      run, work
<1>7. ASSUME NEW w \in Worker, Reclaim(w)
      PROVE  FirstClaimInv'
  BY <1>7 DEF Reclaim, Abandoned, GoTo, FirstClaimInv, WorkInv, TypeOK, rows, run, work
<1>8. ASSUME NEW w \in Worker, ClaimForDelivery(w)
      PROVE  FirstClaimInv'
  BY <1>8 DEF ClaimForDelivery, Claim, PutDown, Claimable, Due, GoTo, FirstClaimInv,
      WorkInv, TypeOK, rows, run, work
<1>9. ASSUME NEW w \in Worker, FinishRun(w)
      PROVE  FirstClaimInv'
  BY <1>9 DEF FinishRun, Leave, PutDown, Mishap, GoTo, FirstClaimInv, WorkInv, TypeOK,
      rows, run, work
<1>10. ASSUME NEW w \in Worker, Deliver(w)
      PROVE  FirstClaimInv'
  BY <1>10 DEF Deliver, TakeUp, Mishap, GoTo, FirstClaimInv, WorkInv, TypeOK, rows,
      run, work
<1>11. ASSUME NEW w \in Worker, Send(w)
      PROVE  FirstClaimInv'
  BY <1>11 DEF Send, GoTo, FirstClaimInv, WorkInv, TypeOK, rows, run, work
<1>12. ASSUME NEW w \in Worker, Settle(w)
      PROVE  FirstClaimInv'
  BY <1>12 DEF Settle, SettleAs, MarkSent, MarkAs, MarkTransient, NextRow, Leave,
      PutDown, GoTo, FirstClaimInv, WorkInv, TypeOK, rows, run, work
<1>13. ASSUME NEW w \in Worker, Audit(w)
      PROVE  FirstClaimInv'
  BY <1>13 DEF Audit, NextRow, Leave, PutDown, GoTo, FirstClaimInv, WorkInv, TypeOK,
      rows, run, work
<1>14. ASSUME NEW w \in Worker, RunThrows(w)
      PROVE  FirstClaimInv'
  BY <1>14 DEF RunThrows, Mishap, GoTo, FirstClaimInv, WorkInv, TypeOK, rows, run, work
<1>15. ASSUME NEW w \in Worker, SettleThrows(w)
      PROVE  FirstClaimInv'
  BY <1>15 DEF SettleThrows, Mishap, Leave, PutDown, GoTo, FirstClaimInv, WorkInv,
      TypeOK, rows, run, work
<1>16. ASSUME NEW w \in Worker, Crash(w)
      PROVE  FirstClaimInv'
  BY <1>16 DEF Crash, Mishap, Leave, PutDown, GoTo, FirstClaimInv, WorkInv, TypeOK,
      rows, run, work
<1>17. ASSUME NEW n \in Notice, RowLeaseEnds(n)
      PROVE  FirstClaimInv'
  BY <1>17 DEF RowLeaseEnds, FirstClaimInv, WorkInv, TypeOK, rows, run, work
<1>18. ASSUME NEW n \in Notice, BackoffEnds(n)
      PROVE  FirstClaimInv'
  BY <1>18 DEF BackoffEnds, FirstClaimInv, WorkInv, TypeOK, rows, run, work
<1>19. CASE RunLeaseEnds
  BY <1>19 DEF RunLeaseEnds, FirstClaimInv, WorkInv, TypeOK, rows, run, work
<1>20. CASE UNCHANGED vars
  BY <1>20 DEF vars, rows, run, work, FirstClaimInv, WorkInv, TypeOK
<1> QED
  BY <1>1, <1>2, <1>3, <1>4, <1>5, <1>6, <1>7, <1>8, <1>9, <1>10, <1>11, <1>12,
     <1>13, <1>14, <1>15, <1>16, <1>17, <1>18, <1>19, <1>20
  DEF Next, Proceed

\* Sets of workers are finite, and taking one away or adding one counts one.
LEMMA CountWorkers ==
  /\ Cardinality({}) = 0
  /\ \A S \in SUBSET Worker :
       /\ Cardinality(S) \in Nat
       /\ \A T \in SUBSET S : Cardinality(T) <= Cardinality(S)
       /\ \A w \in S : Cardinality(S \ {w}) = Cardinality(S) - 1
       /\ \A w \in Worker : Cardinality(S \cup {w}) <= Cardinality(S) + 1
<1>1. Cardinality({}) = 0
  BY FS_EmptySet
<1>2. ASSUME NEW S \in SUBSET Worker
      PROVE  /\ Cardinality(S) \in Nat
             /\ \A T \in SUBSET S : Cardinality(T) <= Cardinality(S)
             /\ \A w \in S : Cardinality(S \ {w}) = Cardinality(S) - 1
             /\ \A w \in Worker : Cardinality(S \cup {w}) <= Cardinality(S) + 1
  <2>1. IsFiniteSet(S)
    BY OutboxAssumption, FS_Subset
  <2>2. Cardinality(S) \in Nat
    BY <2>1, FS_CardinalityType
  <2>3. \A T \in SUBSET S : Cardinality(T) <= Cardinality(S)
    BY <2>1, FS_Subset
  <2>4. \A w \in S : Cardinality(S \ {w}) = Cardinality(S) - 1
    BY <2>1, FS_RemoveElement
  <2>5. ASSUME NEW w \in Worker
        PROVE  Cardinality(S \cup {w}) <= Cardinality(S) + 1
    <3>1. Cardinality(S \cup {w}) = IF w \in S THEN Cardinality(S) ELSE Cardinality(S) + 1
      BY <2>1, FS_AddElement
    <3> QED
      BY <2>2, <3>1
  <2> QED
    BY <2>2, <2>3, <2>4, <2>5
<1> QED
  BY <1>1, <1>2

\* A worker that drops what it holds spends nothing.
LEMMA BudgetKept ==
  ASSUME TypeOK, BudgetInv, UNCHANGED <<attempts, mails>>,
         \A n \in Notice : Senders(n)' \subseteq Senders(n)
  PROVE  BudgetInv'
<1> SUFFICES ASSUME NEW n \in Notice
             PROVE  mails[n] + Cardinality(Senders(n)') <= attempts[n]
  BY DEF BudgetInv
<1>1. Senders(n) \in SUBSET Worker
  BY DEF Senders
<1>2. Senders(n)' \in SUBSET Senders(n)
  OBVIOUS
<1>3. Cardinality(Senders(n)') <= Cardinality(Senders(n))
  BY <1>1, <1>2, CountWorkers
<1>4. Cardinality(Senders(n)) \in Nat /\ Cardinality(Senders(n)') \in Nat
  BY <1>1, <1>2, CountWorkers
<1> QED
  BY <1>3, <1>4 DEF BudgetInv, TypeOK

\* A claim adds its worker to the senders and one to the attempts.
LEMMA BudgetRaised ==
  ASSUME TypeOK, WorkInv, BudgetInv, UNCHANGED mails,
         NEW w \in Worker, NEW ns \in SUBSET Notice, Claim(w, ns), GoTo(w, "deliver")
  PROVE  BudgetInv'
<1> SUFFICES ASSUME NEW n \in Notice
             PROVE  mails[n] + Cardinality(Senders(n)') <= attempts'[n]
  BY DEF BudgetInv
<1>1. Senders(n) \in SUBSET Worker
  BY DEF Senders
<1>2. CASE n \in ns
  <2>1. Senders(n)' \in SUBSET (Senders(n) \cup {w})
    BY DEF Claim, PutDown, GoTo, Senders, TypeOK
  <2>2. Senders(n) \cup {w} \in SUBSET Worker
    BY <1>1
  <2>3. Cardinality(Senders(n)') <= Cardinality(Senders(n) \cup {w})
    BY <2>1, <2>2, CountWorkers
  <2>4. Cardinality(Senders(n) \cup {w}) <= Cardinality(Senders(n)) + 1
    BY <1>1, CountWorkers
  <2>5. /\ Cardinality(Senders(n)) \in Nat /\ Cardinality(Senders(n)') \in Nat
        /\ Cardinality(Senders(n) \cup {w}) \in Nat
    BY <1>1, <2>1, <2>2, CountWorkers
  <2>6. attempts'[n] = attempts[n] + 1
    BY <1>2 DEF Claim
  <2> QED
    BY <2>3, <2>4, <2>5, <2>6 DEF BudgetInv, TypeOK
<1>3. CASE n \notin ns
  <2>1. Senders(n)' \in SUBSET Senders(n)
    BY <1>3 DEF Claim, PutDown, GoTo, Senders, TypeOK
  <2>2. Cardinality(Senders(n)') <= Cardinality(Senders(n))
    BY <1>1, <2>1, CountWorkers
  <2>3. Cardinality(Senders(n)) \in Nat /\ Cardinality(Senders(n)') \in Nat
    BY <1>1, <2>1, CountWorkers
  <2>4. attempts'[n] = attempts[n]
    BY <1>3 DEF Claim
  <2> QED
    BY <2>2, <2>3, <2>4 DEF BudgetInv, TypeOK
<1> QED
  BY <1>2, <1>3

\* A call of a provider takes its worker from the senders.
LEMMA BudgetSpent ==
  ASSUME TypeOK, WorkInv, BudgetInv, NEW w \in Worker, Send(w)
  PROVE  BudgetInv'
<1> SUFFICES ASSUME NEW n \in Notice
             PROVE  mails'[n] + Cardinality(Senders(n)') <= attempts[n]
  BY DEF BudgetInv, Send, rows
<1>1. Senders(n) \in SUBSET Worker
  BY DEF Senders
<1>2. CASE n = item[w]
  <2>1. w \in Senders(n) /\ Senders(n)' \in SUBSET (Senders(n) \ {w})
    BY <1>2 DEF Send, GoTo, Senders, TypeOK, WorkInv
  <2>2. Senders(n) \ {w} \in SUBSET Worker
    BY <1>1
  <2>3. Cardinality(Senders(n)') <= Cardinality(Senders(n) \ {w})
    BY <2>1, <2>2, CountWorkers
  <2>4. Cardinality(Senders(n) \ {w}) = Cardinality(Senders(n)) - 1
    BY <1>1, <2>1, CountWorkers
  <2>5. Cardinality(Senders(n)) \in Nat /\ Cardinality(Senders(n)') \in Nat
    BY <1>1, <2>1, <2>2, CountWorkers
  <2>6. mails'[n] <= mails[n] + 1 /\ mails'[n] \in Nat
    BY <1>2 DEF Send, TypeOK
  <2> QED
    BY <2>3, <2>4, <2>5, <2>6 DEF BudgetInv, TypeOK
<1>3. CASE n # item[w]
  <2>1. Senders(n)' \in SUBSET Senders(n) /\ mails'[n] = mails[n]
    BY <1>3 DEF Send, GoTo, Senders, TypeOK, WorkInv
  <2>2. Cardinality(Senders(n)') <= Cardinality(Senders(n))
    BY <1>1, <2>1, CountWorkers
  <2>3. Cardinality(Senders(n)) \in Nat /\ Cardinality(Senders(n)') \in Nat
    BY <1>1, <2>1, CountWorkers
  <2> QED
    BY <2>1, <2>2, <2>3 DEF BudgetInv, TypeOK
<1> QED
  BY <1>2, <1>3

\* Every step but a claim and a call of a provider leaves the budget alone or
\* gives a part of it up.
LEMMA BudgetStep ==
  ASSUME Inv, BudgetInv, [Next]_vars
  PROVE  BudgetInv'
<1> USE DEF Inv
<1>1. ASSUME NEW n \in Notice, NEW allowed \in BOOLEAN, Enqueue(n, allowed)
      PROVE  BudgetInv'
  <2>1. \A m \in Notice : Senders(m)' \subseteq Senders(m)
    BY <1>1 DEF Enqueue, Insert, Senders, TypeOK, WorkInv, rows, run, work
  <2>2. UNCHANGED <<attempts, mails>>
    BY <1>1 DEF Enqueue, rows
  <2> QED
    BY <2>1, <2>2, BudgetKept
<1>2. ASSUME NEW w \in Worker, NEW n \in Notice, EnqueueNow(w, n)
      PROVE  BudgetInv'
  <2>1. \A m \in Notice : Senders(m)' \subseteq Senders(m)
    BY <1>2 DEF EnqueueNow, Insert, TakeUp, GoTo, Senders, TypeOK, WorkInv, rows,
        run, work
  <2>2. UNCHANGED <<attempts, mails>>
    BY <1>2 DEF EnqueueNow, rows
  <2> QED
    BY <2>1, <2>2, BudgetKept
<1>3. ASSUME NEW w \in Worker, BeginRun(w)
      PROVE  BudgetInv'
  <2>1. \A m \in Notice : Senders(m)' \subseteq Senders(m)
    BY <1>3 DEF BeginRun, GoTo, Senders, TypeOK, WorkInv, rows, run, work
  <2>2. UNCHANGED <<attempts, mails>>
    BY <1>3 DEF BeginRun, rows
  <2> QED
    BY <2>1, <2>2, BudgetKept
<1>4. ASSUME NEW w \in Worker, ClaimOne(w)
      PROVE  BudgetInv'
  <2>1. item[w] \in Notice
    BY <1>4 DEF ClaimOne, Due
  <2> QED
    BY <1>4, <2>1, BudgetRaised DEF ClaimOne
<1>5. ASSUME NEW w \in Worker, NothingToClaim(w)
      PROVE  BudgetInv'
  <2>1. \A m \in Notice : Senders(m)' \subseteq Senders(m)
    BY <1>5 DEF NothingToClaim, Leave, PutDown, Mishap, GoTo, Senders, TypeOK,
        WorkInv, rows, run, work
  <2>2. UNCHANGED <<attempts, mails>>
    BY <1>5 DEF NothingToClaim, rows
  <2> QED
    BY <2>1, <2>2, BudgetKept
<1>6. ASSUME NEW w \in Worker, InsertRun(w)
      PROVE  BudgetInv'
  <2>1. \A m \in Notice : Senders(m)' \subseteq Senders(m)
    BY <1>6 DEF InsertRun, Leave, PutDown, GoTo, Senders, TypeOK, WorkInv, rows,
        run, work
  <2>2. UNCHANGED <<attempts, mails>>
    BY <1>6 DEF InsertRun, rows
  <2> QED
    BY <2>1, <2>2, BudgetKept
<1>7. ASSUME NEW w \in Worker, Reclaim(w)
      PROVE  BudgetInv'
  <2>1. \A m \in Notice : Senders(m)' \subseteq Senders(m)
    BY <1>7 DEF Reclaim, Abandoned, GoTo, Senders, TypeOK, WorkInv, rows, run, work
  <2>2. UNCHANGED <<attempts, mails>>
    BY <1>7 DEF Reclaim, rows
  <2> QED
    BY <2>1, <2>2, BudgetKept
<1>8. ASSUME NEW w \in Worker, ClaimForDelivery(w)
      PROVE  BudgetInv'
  <2>1. PICK ns \in SUBSET Notice :
          Claim(w, ns) /\ GoTo(w, IF ns = {} THEN "finish" ELSE "deliver")
    BY <1>8 DEF ClaimForDelivery, Claimable, Due
  <2>2. UNCHANGED mails
    BY <1>8 DEF ClaimForDelivery
  <2>3. CASE ns # {}
    BY <2>1, <2>2, <2>3, BudgetRaised
  <2>4. CASE ns = {}
    <3>1. \A n \in Notice : Senders(n)' \subseteq Senders(n)
      BY <2>1, <2>4 DEF Claim, PutDown, GoTo, Senders, TypeOK
    <3>2. attempts' = attempts
      BY <2>1, <2>4 DEF Claim, TypeOK
    <3> QED
      BY <2>2, <3>1, <3>2, BudgetKept
  <2> QED
    BY <2>3, <2>4
<1>9. ASSUME NEW w \in Worker, FinishRun(w)
      PROVE  BudgetInv'
  <2>1. \A m \in Notice : Senders(m)' \subseteq Senders(m)
    BY <1>9 DEF FinishRun, Leave, PutDown, Mishap, GoTo, Senders, TypeOK, WorkInv,
        rows, run, work
  <2>2. UNCHANGED <<attempts, mails>>
    BY <1>9 DEF FinishRun, rows
  <2> QED
    BY <2>1, <2>2, BudgetKept
<1>10. ASSUME NEW w \in Worker, Deliver(w)
      PROVE  BudgetInv'
  <2>1. \A m \in Notice : Senders(m)' \subseteq Senders(m)
    BY <1>10 DEF Deliver, TakeUp, Mishap, GoTo, Senders, TypeOK, WorkInv, rows, run,
        work
  <2>2. UNCHANGED <<attempts, mails>>
    BY <1>10 DEF Deliver, rows
  <2> QED
    BY <2>1, <2>2, BudgetKept
<1>11. ASSUME NEW w \in Worker, Send(w)
      PROVE  BudgetInv'
  BY <1>11, BudgetSpent
<1>12. ASSUME NEW w \in Worker, Settle(w)
      PROVE  BudgetInv'
  <2>1. \A m \in Notice : Senders(m)' \subseteq Senders(m)
    BY <1>12 DEF Settle, SettleAs, MarkSent, MarkAs, MarkTransient, NextRow, Leave,
        PutDown, GoTo, Senders, TypeOK, WorkInv, rows, run, work
  <2>2. UNCHANGED <<attempts, mails>>
    BY <1>12 DEF Settle, rows
  <2> QED
    BY <2>1, <2>2, BudgetKept
<1>13. ASSUME NEW w \in Worker, Audit(w)
      PROVE  BudgetInv'
  <2>1. \A m \in Notice : Senders(m)' \subseteq Senders(m)
    BY <1>13 DEF Audit, NextRow, Leave, PutDown, GoTo, Senders, TypeOK, WorkInv,
        rows, run, work
  <2>2. UNCHANGED <<attempts, mails>>
    BY <1>13 DEF Audit, rows
  <2> QED
    BY <2>1, <2>2, BudgetKept
<1>14. ASSUME NEW w \in Worker, RunThrows(w)
      PROVE  BudgetInv'
  <2>1. \A m \in Notice : Senders(m)' \subseteq Senders(m)
    BY <1>14 DEF RunThrows, Mishap, GoTo, Senders, TypeOK, WorkInv, rows, run, work
  <2>2. UNCHANGED <<attempts, mails>>
    BY <1>14 DEF RunThrows, rows
  <2> QED
    BY <2>1, <2>2, BudgetKept
<1>15. ASSUME NEW w \in Worker, SettleThrows(w)
      PROVE  BudgetInv'
  <2>1. \A m \in Notice : Senders(m)' \subseteq Senders(m)
    BY <1>15 DEF SettleThrows, Mishap, Leave, PutDown, GoTo, Senders, TypeOK,
        WorkInv, rows, run, work
  <2>2. UNCHANGED <<attempts, mails>>
    BY <1>15 DEF SettleThrows, rows
  <2> QED
    BY <2>1, <2>2, BudgetKept
<1>16. ASSUME NEW w \in Worker, Crash(w)
      PROVE  BudgetInv'
  <2>1. \A m \in Notice : Senders(m)' \subseteq Senders(m)
    BY <1>16 DEF Crash, Mishap, Leave, PutDown, GoTo, Senders, TypeOK, WorkInv,
        rows, run, work
  <2>2. UNCHANGED <<attempts, mails>>
    BY <1>16 DEF Crash, rows
  <2> QED
    BY <2>1, <2>2, BudgetKept
<1>17. ASSUME NEW n \in Notice, RowLeaseEnds(n)
      PROVE  BudgetInv'
  <2>1. \A m \in Notice : Senders(m)' \subseteq Senders(m)
    BY <1>17 DEF RowLeaseEnds, Senders, TypeOK, WorkInv, rows, run, work
  <2>2. UNCHANGED <<attempts, mails>>
    BY <1>17 DEF RowLeaseEnds, rows
  <2> QED
    BY <2>1, <2>2, BudgetKept
<1>18. ASSUME NEW n \in Notice, BackoffEnds(n)
      PROVE  BudgetInv'
  <2>1. \A m \in Notice : Senders(m)' \subseteq Senders(m)
    BY <1>18 DEF BackoffEnds, Senders, TypeOK, WorkInv, rows, run, work
  <2>2. UNCHANGED <<attempts, mails>>
    BY <1>18 DEF BackoffEnds, rows
  <2> QED
    BY <2>1, <2>2, BudgetKept
<1>19. CASE RunLeaseEnds
  <2>1. \A m \in Notice : Senders(m)' \subseteq Senders(m)
    BY <1>19 DEF RunLeaseEnds, Senders, TypeOK, WorkInv, rows, run, work
  <2>2. UNCHANGED <<attempts, mails>>
    BY <1>19 DEF RunLeaseEnds, rows
  <2> QED
    BY <2>1, <2>2, BudgetKept
<1>20. CASE UNCHANGED vars
  <2>1. \A m \in Notice : Senders(m)' \subseteq Senders(m)
    BY <1>20 DEF vars, work, Senders
  <2>2. UNCHANGED <<attempts, mails>>
    BY <1>20 DEF vars, rows
  <2> QED
    BY <2>1, <2>2, BudgetKept
<1> QED
  BY <1>1, <1>2, <1>3, <1>4, <1>5, <1>6, <1>7, <1>8, <1>9, <1>10, <1>11, <1>12,
     <1>13, <1>14, <1>15, <1>16, <1>17, <1>18, <1>19, <1>20
  DEF Next, Proceed
-----------------------------------------------------------------------------
(* Theorems.                                                               *)

\* The initial state has all of these invariants.
LEMMA InvInit ==
  ASSUME Init
  PROVE  Inv /\ DeliveredInv /\ FirstClaimInv /\ BudgetInv
<1> USE OutboxAssumption
<1>1. TypeOK
  <2>1. /\ status \in [Notice -> Status \cup {"NONE"}]
        /\ attempts \in [Notice -> Nat] /\ mails \in [Notice -> Nat]
    BY DEF Init
  <2>2. /\ task \in [Worker -> Task] /\ step \in [Worker -> Step]
        /\ hand \in [Worker -> SUBSET Notice]
    BY DEF Init, Task, Step
  <2>3. item \in [Worker -> Notice \cup {NoNotice}] /\ outcome \in [Worker -> Outcome]
    BY DEF Init, Outcome
  <2>4. /\ waiting \subseteq Notice /\ lapsed \subseteq Notice /\ overrun \subseteq Notice
        /\ runner \in Worker \cup {NoWorker} /\ runLapsed \in BOOLEAN
    BY DEF Init
  <2>5. mishaps \in 0..MaxMishaps
    BY DEF Init
  <2> QED
    BY <2>1, <2>2, <2>3, <2>4, <2>5 DEF TypeOK
<1>2. WorkInv /\ HolderInv
  BY DEF Init, WorkInv, HolderInv, Held
<1>3. DeliveredInv /\ FirstClaimInv
  BY DEF Init, DeliveredInv, FirstClaimInv
<1>4. \A n \in Notice : Senders(n) = {}
  BY DEF Init, Senders
<1>5. BudgetInv
  BY <1>4, CountWorkers DEF Init, BudgetInv
<1> QED
  BY <1>1, <1>2, <1>3, <1>5 DEF Inv

\* The inductive invariant holds in every reachable state.
LEMMA Invariance == Spec => []Inv
<1>1. Init => Inv
  BY InvInit
<1>2. Inv /\ [Next]_vars => Inv'
  BY TypeStep, WorkStep, HolderStep DEF Inv
<1> QED
  BY <1>1, <1>2, PTL DEF Spec

\* Every variable of the outbox keeps its type.
THEOREM TypeCorrect == Spec => []TypeOK
<1>1. Inv => TypeOK
  BY DEF Inv
<1> QED
  BY <1>1, Invariance, PTL

\* No two workers deal with one row unless the lease of the first was over
\* (claimForDelivery, claimOneForDelivery, reclaimAbandoned).
THEOREM ExclusiveClaims == Spec => []ClaimsAreExclusive
<1>1. Inv => ClaimsAreExclusive
  BY DEF Inv, HolderInv, Exclusive, ClaimsAreExclusive
<1> QED
  BY <1>1, Invariance, PTL

\* A row that was sent, or suppressed, is never touched again by a worker whose
\* lease held (markSent, markFailed, markSuppressed, enqueue).
THEOREM SettledStays == Spec => SettledForGood
<1>1. Inv /\ [Next]_vars =>
        [\A n \in Notice \ overrun :
           status[n] \in {"SENT", "SUPPRESSED"} => status'[n] = status[n]]_vars
  <2> SUFFICES ASSUME Inv, Next, NEW n \in Notice \ overrun,
                      status[n] \in {"SENT", "SUPPRESSED"}
               PROVE  status'[n] = status[n]
    OBVIOUS
  <2> USE DEF Inv
  <2>1. ASSUME NEW m \in Notice, NEW allowed \in BOOLEAN, Enqueue(m, allowed)
        PROVE  status'[n] = status[n]
    BY <2>1 DEF Enqueue, Insert, TypeOK
  <2>2. ASSUME NEW w \in Worker, NEW m \in Notice, EnqueueNow(w, m)
        PROVE  status'[n] = status[n]
    BY <2>2 DEF EnqueueNow, Insert, TypeOK
  <2>3. ASSUME NEW w \in Worker, BeginRun(w)
        PROVE  status'[n] = status[n]
    BY <2>3 DEF BeginRun, rows
  <2>4. ASSUME NEW w \in Worker, ClaimOne(w)
        PROVE  status'[n] = status[n]
    BY <2>4 DEF ClaimOne, Claim, Due
  <2>5. ASSUME NEW w \in Worker, NothingToClaim(w)
        PROVE  status'[n] = status[n]
    BY <2>5 DEF NothingToClaim, rows
  <2>6. ASSUME NEW w \in Worker, InsertRun(w)
        PROVE  status'[n] = status[n]
    BY <2>6 DEF InsertRun, rows
  <2>7. ASSUME NEW w \in Worker, Reclaim(w)
        PROVE  status'[n] = status[n]
    BY <2>7 DEF Reclaim, Abandoned, TypeOK
  <2>8. ASSUME NEW w \in Worker, ClaimForDelivery(w)
        PROVE  status'[n] = status[n]
    BY <2>8 DEF ClaimForDelivery, Claim, Claimable, Due
  <2>9. ASSUME NEW w \in Worker, FinishRun(w)
        PROVE  status'[n] = status[n]
    BY <2>9 DEF FinishRun, rows
  <2>10. ASSUME NEW w \in Worker, Deliver(w)
        PROVE  status'[n] = status[n]
    BY <2>10 DEF Deliver, rows
  <2>11. ASSUME NEW w \in Worker, Send(w)
        PROVE  status'[n] = status[n]
    BY <2>11 DEF Send, rows
  <2>12. ASSUME NEW w \in Worker, Settle(w)
        PROVE  status'[n] = status[n]
    <3>1. item[w] # n
      BY <2>12, OutboxAssumption DEF Settle, HolderInv, Exclusive, Refusing, Held, WorkInv
    <3> QED
      BY <2>12, <3>1 DEF Settle, SettleAs, MarkSent, MarkAs, MarkTransient, TypeOK
  <2>13. ASSUME NEW w \in Worker, Audit(w)
        PROVE  status'[n] = status[n]
    BY <2>13 DEF Audit, rows
  <2>14. ASSUME NEW w \in Worker, RunThrows(w)
        PROVE  status'[n] = status[n]
    BY <2>14 DEF RunThrows, rows
  <2>15. ASSUME NEW w \in Worker, SettleThrows(w)
        PROVE  status'[n] = status[n]
    BY <2>15 DEF SettleThrows, rows
  <2>16. ASSUME NEW w \in Worker, Crash(w)
        PROVE  status'[n] = status[n]
    BY <2>16 DEF Crash, rows
  <2>17. ASSUME NEW m \in Notice, RowLeaseEnds(m)
        PROVE  status'[n] = status[n]
    BY <2>17 DEF RowLeaseEnds, rows
  <2>18. ASSUME NEW m \in Notice, BackoffEnds(m)
        PROVE  status'[n] = status[n]
    BY <2>18 DEF BackoffEnds, rows
  <2>19. CASE RunLeaseEnds
    BY <2>19 DEF RunLeaseEnds, rows
  <2> QED
    BY <2>1, <2>2, <2>3, <2>4, <2>5, <2>6, <2>7, <2>8, <2>9, <2>10, <2>11, <2>12,
       <2>13, <2>14, <2>15, <2>16, <2>17, <2>18, <2>19
    DEF Next, Proceed
<1> QED
  BY <1>1, Invariance, PTL DEF Spec, SettledForGood

\* SENT means that a provider took the message (deliverOne, markSent).
THEOREM SentIsDelivered == Spec => []SentMeansDelivered
<1>1. Init => Inv /\ DeliveredInv /\ SentMeansDelivered
  BY InvInit DEF Init, SentMeansDelivered
<1>2. Inv /\ DeliveredInv /\ SentMeansDelivered /\ [Next]_vars => SentMeansDelivered'
  BY SentStep
<1>3. Inv /\ DeliveredInv /\ [Next]_vars => DeliveredInv'
  BY DeliveredStep
<1> QED
  BY <1>1, <1>2, <1>3, Invariance, PTL DEF Spec

\* No row is claimed more than MaxAttempts + 1 times or handed to a provider
\* more often than it was claimed (claimForDelivery, claimOneForDelivery).
THEOREM BoundedRetries == Spec => []RetriesAreBounded
<1>1. Init => FirstClaimInv /\ BudgetInv
  BY InvInit
<1>2. Inv /\ FirstClaimInv /\ BudgetInv /\ [Next]_vars => (FirstClaimInv /\ BudgetInv)'
  BY FirstClaimStep, BudgetStep
<1>3. Inv /\ FirstClaimInv /\ BudgetInv => RetriesAreBounded
  <2> SUFFICES ASSUME Inv, FirstClaimInv, BudgetInv, NEW n \in Notice
               PROVE  mails[n] <= attempts[n]
    BY DEF RetriesAreBounded, FirstClaimInv
  <2>1. Senders(n) \in SUBSET Worker
    BY DEF Senders
  <2>2. Cardinality(Senders(n)) \in Nat
    BY <2>1, CountWorkers
  <2> QED
    BY <2>2 DEF BudgetInv, Inv, TypeOK
<1> QED
  BY <1>1, <1>2, <1>3, Invariance, PTL DEF Spec
=============================================================================
