-------------------------------- MODULE Telegram --------------------------------
(***************************************************************************)
(* The Telegram chats of the accounts (services/notification-service.ts:   *)
(* linking and unlinking; migration 0026) and the closure of an account    *)
(* (services/retention-service.ts closeAccount).  Linking and closing are  *)
(* READ COMMITTED transactions of several statements; each statement is a  *)
(* step, waits for the rows it needs and may be the victim of a deadlock,  *)
(* a lost connection or a restart.  Both purposes of a code, TELEGRAM_LINK *)
(* and PHONE_OTP, are consumed alike.  The preferences and the listings of *)
(* a closed account are left out.                                          *)
(***************************************************************************)
CONSTANTS Account,
          Token,     \* one-time codes of the deep links
          TokenOf,   \* TokenOf[t]: the account t is minted for
          Chat,      \* Telegram chats
          NoChat

ASSUME TelegramAssumption ==
  /\ TokenOf \in [Token -> Account]
  /\ NoChat \notin Chat

VARIABLES
  closed,   \* accounts with deleted_at
  closing,  \* closing[u]: where the closure of u is
  code,     \* code[t]: what is committed of the auth_token row
  late,     \* tokens minted after their account was closed
  link,     \* link[t]: the transaction that consumes t, and its chat
  live,     \* live[u]: the chat of telegram_connection while it is linked
  known     \* accounts that have a telegram_connection row, linked or not

telegramVars == <<closed, closing, code, late, link, live, known>>

NoLink == [at |-> "IDLE", chat |-> NoChat]

TelegramInit ==
  /\ closed = {}
  /\ closing = [u \in Account |-> "IDLE"]
  /\ code = [t \in Token |-> "NONE"]
  /\ late = {}
  /\ link = [t \in Token |-> NoLink]
  /\ live = [u \in Account |-> NoChat]
  /\ known = {}

\* app_user is locked FOR UPDATE or updated by a closure that has not committed.
Closing(u) == closing[u] \notin {"IDLE", "OVER"}
\* The connection row of u has been written by a link that has not committed.
Linking(u) == \E t \in Token : TokenOf[t] = u /\ link[t].at = "LINKED"
-----------------------------------------------------------------------------
(* Tokens and links.                                                       *)

\* The route has found the session of an open account; the INSERT comes later.
AskToken(t) ==
  /\ code[t] = "NONE" /\ TokenOf[t] \notin closed
  /\ code' = [code EXCEPT ![t] = "ASKED"]
  /\ UNCHANGED <<closed, closing, late, link, live, known>>

\* beginTelegramLink(), beginPhoneVerification(): the foreign key waits for a
\* closure, but does not mind a closed account.
MintToken(t) ==
  /\ code[t] = "ASKED" /\ ~Closing(TokenOf[t])
  /\ code' = [code EXCEPT ![t] = "LIVE"]
  /\ late' = IF TokenOf[t] \in closed THEN late \cup {t} ELSE late
  /\ UNCHANGED <<closed, closing, link, live, known>>

\* expires_at passes: the row will not be found again.
ExpireToken(t) ==
  /\ code[t] = "LIVE" /\ link[t].at = "IDLE"
  /\ code' = [code EXCEPT ![t] = "GONE"]
  /\ UNCHANGED <<closed, closing, late, link, live, known>>

\* A closure has deleted the tokens of u and not committed.
TokensDeleted(u) == closing[u] \in {"DELETED", "UNLINKED"}

\* The UPDATE of the code waits for a closure that is deleting it.
ConsumeToken(t, c) ==
  /\ code[t] = "LIVE" /\ link[t].at = "IDLE" /\ ~TokensDeleted(TokenOf[t])
  /\ link' = [link EXCEPT ![t] = [at |-> "CONSUMED", chat |-> c]]
  /\ UNCHANGED <<closed, closing, code, late, live, known>>

\* What the UPSERT of t waits for: another writer of the connection row, a
\* closure when the row is inserted and its foreign key is checked, and a
\* transaction that has taken the same chat.
UpsertMayRun(t) ==
  LET u == TokenOf[t] IN
  /\ ~Linking(u) /\ closing[u] # "UNLINKED"
  /\ u \notin known => ~Closing(u)
  /\ \A s \in Token \ {t} : ~(link[s].at = "LINKED" /\ link[s].chat = link[t].chat)
  /\ \A v \in Account \ {u} : ~(live[v] = link[t].chat /\ closing[v] = "UNLINKED")

\* The partial unique index: the chat is live on another account.
ChatTaken(t) == \E v \in Account \ {TokenOf[t]} : live[v] = link[t].chat

LinkChat(t) ==
  /\ link[t].at = "CONSUMED" /\ UpsertMayRun(t)
  /\ link' = IF ChatTaken(t) THEN [link EXCEPT ![t] = NoLink]
             ELSE [link EXCEPT ![t].at = "LINKED"]
  /\ UNCHANGED <<closed, closing, code, late, live, known>>

CommitLink(t) ==
  /\ link[t].at = "LINKED"
  /\ code' = [code EXCEPT ![t] = "USED"]
  /\ live' = [live EXCEPT ![TokenOf[t]] = link[t].chat]
  /\ known' = known \cup {TokenOf[t]}
  /\ link' = [link EXCEPT ![t] = NoLink]
  /\ UNCHANGED <<closed, closing, late>>

\* The transaction is rolled back and its code can be used again.
LoseLink(t) ==
  /\ link[t].at # "IDLE"
  /\ link' = [link EXCEPT ![t] = NoLink]
  /\ UNCHANGED <<closed, closing, code, late, live, known>>

\* unlinkTelegram(): from the account's own session or the chat's /unlink.
Unlink(u) ==
  /\ live[u] # NoChat /\ ~Linking(u) /\ closing[u] # "UNLINKED"
  /\ live' = [live EXCEPT ![u] = NoChat]
  /\ UNCHANGED <<closed, closing, code, late, link, known>>
-----------------------------------------------------------------------------
(* closeAccount().                                                         *)

CloseAt(u, at) == closing' = [closing EXCEPT ![u] = at]

\* SELECT ... FOR UPDATE waits for a link that has inserted a connection and holds
\* the row's key by its foreign key.
LockAccount(u) ==
  /\ closing[u] = "IDLE" /\ u \notin closed
  /\ Linking(u) => u \in known
  /\ CloseAt(u, "LOCKED")
  /\ UNCHANGED <<closed, code, late, link, live, known>>

\* DELETE FROM auth_token waits for the links that are consuming one.
DeleteTokens(u) ==
  /\ closing[u] = "LOCKED"
  /\ \A t \in Token : TokenOf[t] = u => link[t].at = "IDLE"
  /\ CloseAt(u, "DELETED")
  /\ UNCHANGED <<closed, code, late, link, live, known>>

\* UPDATE telegram_connection: it sees every link committed by now.
UnlinkClosing(u) ==
  /\ closing[u] = "DELETED" /\ ~Linking(u)
  /\ CloseAt(u, "UNLINKED")
  /\ UNCHANGED <<closed, code, late, link, live, known>>

\* (Mutant: the tokens are left to expire.)
KeepTokens(u) ==
  /\ closing[u] = "UNLINKED"
  /\ closed' = closed \cup {u}
  /\ live' = [live EXCEPT ![u] = NoChat]
  /\ CloseAt(u, "OVER")
  /\ UNCHANGED <<code, late, link, known>>

CommitClosure(u) ==
  /\ closing[u] = "UNLINKED"
  /\ closed' = closed \cup {u}
  /\ code' = [t \in Token |-> IF TokenOf[t] = u /\ code[t] = "LIVE" THEN "GONE" ELSE code[t]]
  /\ live' = [live EXCEPT ![u] = NoChat]
  /\ CloseAt(u, "OVER")
  /\ UNCHANGED <<late, link, known>>

LoseClosure(u) ==
  /\ Closing(u)
  /\ CloseAt(u, "IDLE")
  /\ UNCHANGED <<closed, code, late, link, live, known>>
-----------------------------------------------------------------------------
TokenStep(t) ==
  \/ AskToken(t) \/ MintToken(t) \/ ExpireToken(t)
  \/ \E c \in Chat : ConsumeToken(t, c)
  \/ LinkChat(t) \/ CommitLink(t) \/ LoseLink(t)
AccountStep(u) ==
  \/ Unlink(u)
  \/ LockAccount(u) \/ DeleteTokens(u) \/ UnlinkClosing(u) \/ CommitClosure(u) \/ LoseClosure(u)

TelegramNext ==
  \/ \E t \in Token : TokenStep(t)
  \/ \E u \in Account : AccountStep(u)
TelegramSpec == TelegramInit /\ [][TelegramNext]_telegramVars
-----------------------------------------------------------------------------
\* Types, bounded by the constants.
TelegramTypeOK ==
  /\ closed \subseteq Account /\ known \subseteq Account
  /\ late \subseteq Token
  /\ closing \in [Account -> {"IDLE", "LOCKED", "DELETED", "UNLINKED", "OVER"}]
  /\ code \in [Token -> {"NONE", "ASKED", "LIVE", "USED", "GONE"}]
  /\ link \in [Token -> [at : {"IDLE", "CONSUMED", "LINKED"}, chat : Chat \cup {NoChat}]]
  /\ live \in [Account -> Chat \cup {NoChat}]

\* A closed account holds no live chat: whatever links, unlinks and is rolled back
\* around a closure, nothing is delivered to it and its chat can be linked to the
\* person's next account.  The one way back in is a code whose request had passed the
\* session check before the closure and inserted it afterwards (closeAccount, linkChat).
ClosedHoldsNoChat ==
  \A u \in closed : live[u] # NoChat => \E t \in late : TokenOf[t] = u
================================================================================
