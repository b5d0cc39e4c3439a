-------------------------- MODULE OutboxProperties --------------------------
(***************************************************************************)
(* What the outbox promises.                                               *)
(***************************************************************************)
EXTENDS Outbox

\* Every variable keeps its type.
TypeOK ==
  /\ status \in [Notice -> Status \cup {"NONE"}]
  /\ attempts \in [Notice -> Nat]
  /\ waiting \subseteq Notice /\ lapsed \subseteq Notice
  /\ runner \in Worker \cup {NoWorker} /\ runLapsed \in BOOLEAN
  /\ task \in [Worker -> Task]
  /\ step \in [Worker -> Step]
  /\ hand \in [Worker -> SUBSET Notice]
  /\ item \in [Worker -> Notice \cup {NoNotice}]
  /\ outcome \in [Worker -> Outcome]
  /\ mails \in [Notice -> Nat]
  /\ overrun \subseteq Notice
  /\ mishaps \in 0..MaxMishaps

\* Two workers deal with one row only after it was taken back from the slower
\* of them while that one was still alive: the claim excludes everybody else
\* until its lease is over (claimForDelivery, claimOneForDelivery).
ClaimsAreExclusive ==
  \A v, w \in Worker : v # w => Held(v) \cap Held(w) \subseteq overrun

\* A row that was sent, or for which there was nowhere to send it, is settled
\* for good: no retry, second enqueue or other run touches it, unless a worker
\* that overran its lease comes back.
SettledForGood ==
  [][\A n \in Notice \ overrun :
       status[n] \in {"SENT", "SUPPRESSED"} => status'[n] = status[n]]_vars

\* The provider is asked at most once per claim, and the claims of a row are
\* limited: at most MaxAttempts by the runs and one by the request that
\* inserted it, however often workers die or overrun (claimForDelivery,
\* reclaimAbandoned, markFailed).
RetriesAreBounded ==
  \A n \in Notice : mails[n] <= attempts[n] /\ attempts[n] <= MaxAttempts + 1

\* SENT means that a provider took the message, under every interleaving of
\* stale workers (markSent).
SentMeansDelivered == \A n \in Notice : status[n] = "SENT" => mails[n] > 0

\* A notice on a live channel does not wait for ever: it is settled or its
\* attempts are used up, whatever dies on the way (beginRun, reclaimAbandoned,
\* claimForDelivery).
NobodyIsForgotten ==
  \A n \in Live :
    []<>(status[n] \in {"PENDING", "SENDING"} => attempts[n] >= MaxAttempts)
=============================================================================
