------------------------------- MODULE Finance -------------------------------
(***************************************************************************)
(* Service fees of one landlord, the payments that settle them and the     *)
(* waivers that forgive them (services/finance-service.ts).  Every query   *)
(* is keyed by the landlord, so landlords do not meet.  The transactions   *)
(* are READ COMMITTED and are modelled statement by statement: what a call *)
(* has written is its own until it commits, and a row it has written or    *)
(* locked makes others wait.                                               *)
(***************************************************************************)
EXTENDS Integers, FiniteSets, FiniteSetsExt

CONSTANTS Fee,        \* the fees that completed stays can accrue
          FeeMinor,   \* FeeMinor[f]: the amount, in kopecks
          Payment,    \* the calls of recordPayment
          Waiver,     \* the calls of waiveFee
          Amounts     \* what a payment can be, in kopecks

ASSUME FinanceAssumption ==
  /\ FeeMinor \in [Fee -> Nat \ {0}]
  /\ Amounts \subseteq Nat \ {0}
  /\ Payment \cap Waiver = {}
  /\ IsFiniteSet(Fee)

FinanceCall == Payment \cup Waiver

VARIABLES
  feeStatus,  \* service_fee.status, as committed
  accruedAt,  \* service_fee.accrued_at, as committed (0: not accrued)
  received,   \* the sum of the committed PAYMENT_RECEIVED entries
  forgiven,   \* forgiven[f]: the committed FEE_WAIVED entries of fee f
  call,       \* where each call is
  held,       \* held[c]: the fees whose rows call c has written or locked
  till,       \* what a payment has read: the pool that is left, the fees to go
  overlapped  \* some payment has run while another call was open (history)

financeVars == <<feeStatus, accruedAt, received, forgiven, call, held, till, overlapped>>

EmptyTill == [amount |-> 0, remaining |-> 0, todo |-> {}]

FinanceInit ==
  /\ feeStatus = [f \in Fee |-> "NONE"]
  /\ accruedAt = [f \in Fee |-> 0]
  /\ received = 0
  /\ forgiven = [f \in Fee |-> 0]
  /\ call = [c \in FinanceCall |-> "IDLE"]
  /\ held = [c \in FinanceCall |-> {}]
  /\ till = [c \in FinanceCall |-> EmptyTill]
  /\ overlapped = FALSE

FeesWith(s) == {f \in Fee : feeStatus[f] = s}
SumOfFees(S) == FoldSet(LAMBDA f, sum : sum + FeeMinor[f], 0, S)

Open(c) == call[c] \notin {"IDLE", "DONE"}
\* The row is written or locked by a transaction other than that of c.
LockedFor(c, f) == \E d \in FinanceCall \ {c} : f \in held[d]

\* What the call begins with is noted, for the properties about calls that did
\* not meet another one.
NoteOverlap(c) == overlapped' = (overlapped \/ \E d \in FinanceCall \ {c} : Open(d))
-----------------------------------------------------------------------------
\* accrueServiceFee() in the transaction that completes the stay; booking_id is
\* unique, so a fee accrues once.
AccrueFee(f) ==
  /\ feeStatus[f] = "NONE"
  /\ feeStatus' = [feeStatus EXCEPT ![f] = "PAYABLE"]
  /\ accruedAt' = [accruedAt EXCEPT ![f] = 1 + Cardinality(Fee \ FeesWith("NONE"))]
  /\ overlapped' = (overlapped \/ \E d \in FinanceCall : Open(d))
  /\ UNCHANGED <<received, forgiven, call, held, till>>

\* recordPayment(): the PAYMENT_RECEIVED entry is inserted first.
BeginPayment(c) ==
  /\ call[c] = "IDLE"
  /\ call' = [call EXCEPT ![c] = "POOL"]
  /\ \E amount \in Amounts : till' = [till EXCEPT ![c].amount = amount]
  /\ NoteOverlap(c)
  /\ UNCHANGED <<feeStatus, accruedAt, received, forgiven, held>>

\* (Mutant: the pool is the payment at hand.)
ReadPoolOfThisPayment(c) ==
  /\ call[c] = "POOL"
  /\ call' = [call EXCEPT ![c] = "LIST"]
  /\ till' = [till EXCEPT ![c].remaining = till[c].amount]
  /\ UNCHANGED <<feeStatus, accruedAt, received, forgiven, held, overlapped>>

\* One statement reads everything ever paid, this payment included, less the
\* fees that are PAID.
ReadPool(c) ==
  /\ call[c] = "POOL"
  /\ call' = [call EXCEPT ![c] = "LIST"]
  /\ till' = [till EXCEPT ![c].remaining =
                received + till[c].amount - SumOfFees(FeesWith("PAID"))]
  /\ UNCHANGED <<feeStatus, accruedAt, received, forgiven, held, overlapped>>

\* The next statement lists the PAYABLE fees, oldest first, without a lock.
ListFees(c) ==
  /\ call[c] = "LIST"
  /\ call' = [call EXCEPT ![c] = "SETTLE"]
  /\ till' = [till EXCEPT ![c].todo = FeesWith("PAYABLE")]
  /\ UNCHANGED <<feeStatus, accruedAt, received, forgiven, held, overlapped>>

Oldest(f, S) == f \in S /\ \A g \in S : accruedAt[f] <= accruedAt[g]

Covered(c, f) == Oldest(f, till[c].todo) /\ till[c].remaining >= FeeMinor[f]

\* UPDATE service_fee SET status = 'PAID' WHERE id = ...: it waits for the row
\* and then writes it, whatever its status has become.
SettleFee(c, f) ==
  /\ call[c] = "SETTLE" /\ Covered(c, f)
  /\ ~LockedFor(c, f)
  /\ till' = [till EXCEPT ![c].remaining = @ - FeeMinor[f], ![c].todo = @ \ {f}]
  /\ held' = [held EXCEPT ![c] = @ \cup {f}]
  /\ UNCHANGED <<feeStatus, accruedAt, received, forgiven, call, overlapped>>

\* A call is over: its locks are gone and its working memory with them.
Finish(c) ==
  /\ call' = [call EXCEPT ![c] = "DONE"]
  /\ held' = [held EXCEPT ![c] = {}]
  /\ till' = [till EXCEPT ![c] = EmptyTill]

WriteHeld(c, s) == feeStatus' = [f \in Fee |-> IF f \in held[c] THEN s ELSE feeStatus[f]]

\* The loop ends at the first fee that the pool does not cover.
CommitPayment(c) ==
  /\ call[c] = "SETTLE" /\ ~ \E f \in Fee : Covered(c, f)
  /\ WriteHeld(c, "PAID")
  /\ received' = received + till[c].amount
  /\ Finish(c)
  /\ UNCHANGED <<accruedAt, forgiven, overlapped>>
-----------------------------------------------------------------------------
\* (Mutant: a plain SELECT, without FOR UPDATE.)
LockFeeUnlocked(c, f) ==
  /\ call[c] = "IDLE"
  /\ feeStatus[f] = "PAYABLE"
  /\ call' = [call EXCEPT ![c] = "WAIVE"]
  /\ held' = [held EXCEPT ![c] = {f}]
  /\ NoteOverlap(c)
  /\ UNCHANGED <<feeStatus, accruedAt, received, forgiven, till>>

\* waiveFee(): SELECT ... FOR UPDATE waits for the row and reads it as
\* committed...
LockFee(c, f) ==
  /\ call[c] = "IDLE"
  /\ feeStatus[f] = "PAYABLE"
  /\ ~LockedFor(c, f)
  /\ call' = [call EXCEPT ![c] = "WAIVE"]
  /\ held' = [held EXCEPT ![c] = {f}]
  /\ NoteOverlap(c)
  /\ UNCHANGED <<feeStatus, accruedAt, received, forgiven, till>>

\* ...and a fee that is no longer PAYABLE is refused.
RefuseWaiver(c, f) ==
  /\ call[c] = "IDLE"
  /\ feeStatus[f] \in {"PAID", "WAIVED"}
  /\ ~LockedFor(c, f)
  /\ Finish(c)
  /\ UNCHANGED <<feeStatus, accruedAt, received, forgiven, overlapped>>

\* The fee becomes WAIVED and the compensating entry is inserted.
CommitWaiver(c) ==
  /\ call[c] = "WAIVE"
  /\ WriteHeld(c, "WAIVED")
  /\ forgiven' = [f \in Fee |-> IF f \in held[c] THEN forgiven[f] + 1 ELSE forgiven[f]]
  /\ Finish(c)
  /\ UNCHANGED <<accruedAt, received, overlapped>>

\* The connection is lost, or the process dies: nothing of the call remains.
LoseCall(c) ==
  /\ Open(c)
  /\ Finish(c)
  /\ UNCHANGED <<feeStatus, accruedAt, received, forgiven, overlapped>>

PaymentStep(c) ==
  \/ ReadPool(c) \/ ListFees(c) \/ CommitPayment(c)
  \/ \E f \in Fee : SettleFee(c, f)

FinanceNext ==
  \/ \E f \in Fee : AccrueFee(f)
  \/ \E c \in Payment : BeginPayment(c) \/ PaymentStep(c)
  \/ \E c \in Waiver : \/ CommitWaiver(c)
                          \/ \E f \in Fee : LockFee(c, f) \/ RefuseWaiver(c, f)
  \/ \E c \in FinanceCall : LoseCall(c)

FinanceSpec == FinanceInit /\ [][FinanceNext]_financeVars
-----------------------------------------------------------------------------
FinanceTypeOK ==
  /\ feeStatus \in [Fee -> {"NONE", "PAYABLE", "PAID", "WAIVED"}]
  /\ accruedAt \in [Fee -> Nat]
  /\ received \in Nat
  /\ forgiven \in [Fee -> Nat]
  /\ call \in [FinanceCall -> {"IDLE", "POOL", "LIST", "SETTLE", "WAIVE", "DONE"}]
  /\ held \in [FinanceCall -> SUBSET Fee]
  /\ till \in [FinanceCall -> [amount : Nat, remaining : Int, todo : SUBSET Fee]]
  /\ overlapped \in BOOLEAN

\* A fee is forgiven at most once, however many waivers of it run at a time and
\* whatever payments run beside them, and a fee that was forgiven is not owed
\* again: its row is locked and its status read under the lock (waiveFee).
ForgivenOnce ==
  \A f \in Fee :
    /\ forgiven[f] <= 1
    /\ forgiven[f] = 1 => feeStatus[f] \in {"WAIVED", "PAID"}
    /\ feeStatus[f] = "WAIVED" => forgiven[f] = 1

\* A payment that met no other call leaves no fee owed that the money received
\* so far could settle: the oldest PAYABLE fee is larger than the rest of the
\* pool, so debts paid by instalments are settled in the end.
OldestFirst ==
  [][\A c \in Payment :
       LET owed == {f \in Fee : feeStatus'[f] = "PAYABLE"}
           rest == received' - SumOfFees({f \in Fee : feeStatus'[f] = "PAID"})
       IN CommitPayment(c) /\ ~overlapped
            => \A f \in owed : Oldest(f, owed) => FeeMinor[f] > rest]_financeVars
-----------------------------------------------------------------------------
(* What the comments say and the code does not do.                         *)

\* "The pool counts PAYMENT_RECEIVED only.  A waiver already removes its own fee
\* from PAYABLE and would otherwise be counted twice" (finance-service.ts): what
\* is marked PAID was paid, and was not forgiven as well.
StatusMatchesLedger ==
  /\ SumOfFees(FeesWith("PAID")) <= received
  /\ \A f \in FeesWith("PAID") : forgiven[f] = 0
=============================================================================
