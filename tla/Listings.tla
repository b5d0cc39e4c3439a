------------------------------- MODULE Listings -------------------------------
(***************************************************************************)
(* One listing from its draft to its archive (services/listing-service.ts):*)
(* its status between owner and moderator, what it must have to be         *)
(* published, and its photos with their cover.  Every operation locks the  *)
(* property row in its first statement, but the time it writes into the    *)
(* audit log is that of the beginning of its transaction; the operations   *)
(* that go by that time begin in a step of their own.                      *)
(***************************************************************************)
EXTENDS Integers, FiniteSets

CONSTANTS StatusCall,  \* calls of setStatusByOwner and of moderate
          Photo,       \* photos that can be added
          MaxPhotos

ASSUME ListingsAssumption == MaxPhotos \in Nat \ {0} /\ IsFiniteSet(Photo)

ListingStatus == {"DRAFT", "PENDING_MODERATION", "PUBLISHED", "PAUSED", "REJECTED", "ARCHIVED"}

\* OWNER_TRANSITIONS and MODERATOR_TRANSITIONS.
OwnerMay(from) ==
  CASE from \in {"DRAFT", "REJECTED"} -> {"PENDING_MODERATION", "ARCHIVED"}
    [] from = "PUBLISHED" -> {"PAUSED", "ARCHIVED"}
    [] from = "PAUSED" -> {"PUBLISHED", "ARCHIVED"}
    [] from = "PENDING_MODERATION" -> {"DRAFT", "ARCHIVED"}
    [] OTHER -> {}

ModeratorMay(from) ==
  CASE from = "PENDING_MODERATION" -> {"PUBLISHED", "REJECTED"}
    [] from = "PUBLISHED" -> {"PAUSED", "REJECTED"}
    [] from = "PAUSED" -> {"PUBLISHED", "REJECTED"}
    [] OTHER -> {}

VARIABLES
  status,     \* property.status
  complete,   \* title, city, location and price are there
  order,      \* order[p]: the sort_order of photo p (-1: not there)
  cover,      \* the photos with is_cover
  ownerGone,  \* the owner's account was closed
  clock,      \* transactions with a time of their own so far
  began,      \* began[c]: the time of call c (0: not begun, -1: over)
  latest,     \* the latest audit row about the status, by its time
  decider,    \* who really decided about the status last (history)
  overtaken,  \* calls begun before another wrote the status and not over (history)
  crossed     \* the call that decided last was one of them (history)

photoVars == <<order, cover>>
statusVars == <<clock, began, latest, decider, overtaken, crossed>>
listingsVars == <<status, complete, order, cover, ownerGone, clock, began, latest, decider,
                  overtaken, crossed>>

ListingsInit ==
  /\ status = "DRAFT"
  /\ complete \in BOOLEAN
  /\ order = [p \in Photo |-> -1] /\ cover = {}
  /\ ownerGone = FALSE
  /\ clock = 0
  /\ began = [c \in StatusCall |-> 0]
  /\ latest = [time |-> 0, by |-> "OWNER"]
  /\ decider = "OWNER"
  /\ overtaken = {} /\ crossed = FALSE

Photos == {p \in Photo : order[p] >= 0}
-----------------------------------------------------------------------------
\* update(): the location and the texts of a listing that is not archived; what
\* is there is not taken away again (property_complete_unless_draft).
UpdateListing ==
  /\ status # "ARCHIVED" /\ ~ownerGone
  /\ complete' = TRUE
  /\ UNCHANGED <<status, ownerGone>> /\ UNCHANGED photoVars /\ UNCHANGED statusVars

\* (Mutant: the limit is off by one.)
AddPhotoOverLimit(p) ==
  /\ ~ownerGone
  /\ order[p] = -1
  /\ Cardinality(Photos) <= MaxPhotos
  /\ order' = [order EXCEPT ![p] = Cardinality(Photos)]
  /\ cover' = IF Photos = {} THEN cover \cup {p} ELSE cover
  /\ UNCHANGED <<status, complete, ownerGone>> /\ UNCHANGED statusVars

\* addPhoto(): the first one becomes the cover.
AddPhoto(p) ==
  /\ ~ownerGone
  /\ order[p] = -1
  /\ Cardinality(Photos) < MaxPhotos
  /\ order' = [order EXCEPT ![p] = Cardinality(Photos)]
  /\ cover' = IF Photos = {} THEN cover \cup {p} ELSE cover
  /\ UNCHANGED <<status, complete, ownerGone>> /\ UNCHANGED statusVars

SetCoverPhoto(p) ==
  /\ ~ownerGone
  /\ p \in Photos
  /\ cover' = {p}
  /\ UNCHANGED <<status, complete, order, ownerGone>> /\ UNCHANGED statusVars

\* removePhoto(): the last photo of a published listing stays; the lowest
\* sort_order takes the cover over.
RemovePhoto(p) ==
  LET rest == Photos \ {p}
  IN /\ ~ownerGone
     /\ p \in Photos
     /\ ~(Cardinality(Photos) <= 1 /\ status = "PUBLISHED")
     /\ order' = [order EXCEPT ![p] = -1]
     /\ IF p \in cover /\ rest # {}
        THEN \E q \in rest : /\ \A r \in rest : order[q] <= order[r]
                             /\ cover' = (cover \ {p}) \cup {q}
        ELSE cover' = cover \ {p}
     /\ UNCHANGED <<status, complete, ownerGone>> /\ UNCHANGED statusVars
-----------------------------------------------------------------------------
\* submitForModeration(): complete and with a photo.
SubmitForModeration ==
  /\ "PENDING_MODERATION" \in OwnerMay(status) /\ ~ownerGone
  /\ complete /\ Photos # {}
  /\ status' = "PENDING_MODERATION"
  /\ UNCHANGED <<complete, ownerGone>> /\ UNCHANGED photoVars /\ UNCHANGED statusVars

\* BEGIN: now() is this moment until the transaction ends.
BeginStatus(c) ==
  /\ began[c] = 0
  /\ clock' = clock + 1
  /\ began' = [began EXCEPT ![c] = clock + 1]
  /\ UNCHANGED <<status, complete, ownerGone, latest, decider, overtaken, crossed>>
  /\ UNCHANGED photoVars

\* The status is written, and an audit row with the time of the call.
SetStatus(c, next, by) ==
  /\ next # "DRAFT" => complete
  /\ status' = next
  /\ decider' = by
  /\ latest' = IF began[c] > latest.time THEN [time |-> began[c], by |-> by] ELSE latest
  /\ began' = [began EXCEPT ![c] = -1]
  /\ overtaken' = { d \in StatusCall \ {c} : began[d] > 0 }
  /\ crossed' = (c \in overtaken)
  /\ UNCHANGED <<complete, ownerGone, clock>> /\ UNCHANGED photoVars

\* assertPausedByOwnerNotModerator(), by the latest row of the audit log.
PausedByModerator == latest.by = "MODERATOR"

\* (Mutant: without assertPausedByOwnerNotModerator().)
SetStatusTrustingOwner(c, next) ==
  /\ began[c] > 0 /\ ~ownerGone
  /\ next \in OwnerMay(status) \ {"PENDING_MODERATION"}
  /\ SetStatus(c, next, "OWNER")

\* setStatusByOwner().
SetStatusByOwner(c, next) ==
  /\ began[c] > 0 /\ ~ownerGone
  /\ next \in OwnerMay(status) \ {"PENDING_MODERATION"}
  /\ ~(status = "PAUSED" /\ next = "PUBLISHED" /\ PausedByModerator)
  /\ SetStatus(c, next, "OWNER")

\* moderate().
ModerateListing(c, decision) ==
  /\ began[c] > 0
  /\ decision \in ModeratorMay(status)
  /\ SetStatus(c, decision, "MODERATOR")

\* A transition that is not allowed, or a row that the constraint refuses.
RefuseStatus(c) ==
  /\ began[c] > 0
  /\ began' = [began EXCEPT ![c] = -1]
  /\ overtaken' = overtaken \ {c}
  /\ UNCHANGED <<status, complete, ownerGone, clock, latest, decider, crossed>>
  /\ UNCHANGED photoVars

\* closeAccount() pauses what is published, without a row about the listing.
OwnerLeaves ==
  /\ ~ownerGone
  /\ ownerGone' = TRUE
  /\ IF status = "PUBLISHED" THEN status' = "PAUSED" /\ decider' = "CLOSURE"
                             ELSE UNCHANGED <<status, decider>>
  /\ UNCHANGED <<complete, clock, began, latest, overtaken, crossed>> /\ UNCHANGED photoVars

ListingsNext ==
  \/ UpdateListing \/ SubmitForModeration \/ OwnerLeaves
  \/ \E p \in Photo : AddPhoto(p) \/ SetCoverPhoto(p) \/ RemovePhoto(p)
  \/ \E c \in StatusCall :
       \/ BeginStatus(c) \/ RefuseStatus(c)
       \/ \E s \in ListingStatus : SetStatusByOwner(c, s) \/ ModerateListing(c, s)

ListingsSpec == ListingsInit /\ [][ListingsNext]_listingsVars
-----------------------------------------------------------------------------
ListingsTypeOK ==
  /\ status \in ListingStatus
  /\ complete \in BOOLEAN /\ ownerGone \in BOOLEAN
  /\ order \in [Photo -> -1 .. (MaxPhotos - 1)] /\ cover \subseteq Photo
  /\ clock \in Nat
  /\ began \in [StatusCall -> Int]
  /\ latest \in [time : Nat, by : {"OWNER", "MODERATOR"}]
  /\ decider \in {"OWNER", "MODERATOR", "CLOSURE"}
  /\ overtaken \subseteq StatusCall /\ crossed \in BOOLEAN

\* What a moderator paused comes back only through a moderator, the owner's calls that
\* began before the pause and write after it included.  The audit log tells who paused
\* it by the beginnings of the calls; a pause whose own call was overtaken by another
\* may lie behind it there (assertPausedByOwnerNotModerator).
PauseOutranksOwner ==
  [][status = "PAUSED" /\ status' = "PUBLISHED" /\ decider = "MODERATOR" /\ ~crossed
       => decider' = "MODERATOR"]_listingsVars
=============================================================================
