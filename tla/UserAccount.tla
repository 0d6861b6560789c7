----------------------------- MODULE UserAccount ------------------------------
(***************************************************************************)
(* The row of a user and the user's wallets, under the requests that       *)
(* change them: register, login and refresh-token (UserAuthController,     *)
(* UserController, UserAuthService), currency (UserService.setCurrency)    *)
(* and the wallet routes (WalletController, WalletService.update).         *)
(*                                                                         *)
(* All of them read an entity, assign to it and save it, and every query   *)
(* is awaited.  TypeORM's save (external) is a query that loads the row    *)
(* again and, after it, one that updates the columns in which the entity   *)
(* differs from what was loaded.  An entity carries the columns and the    *)
(* relations it was read with, so a save may also write what its request   *)
(* never meant to change.                                                  *)
(***************************************************************************)
EXTENDS Naturals

CONSTANTS
  Requests,       \* slots for requests in progress (a bound)
  Wallets,        \* ids of wallets: an id is used once
  Currencies,
  StatusColumns,  \* columns that others report a status in
  Statuses,
  MaxSecond       \* a bound on the clock

Columns == {"token", "currency"} \cup StatusColumns
Tokens  == 0..MaxSecond   \* the second a token is signed in tells it apart; 0 is no token

ASSUME AccountAssumption ==
  /\ MaxSecond \in Nat \ {0}
  /\ Currencies # {} /\ Statuses # {}
  /\ StatusColumns \cap {"token", "currency"} = {}
  /\ Wallets \cap Columns = {}

VARIABLES
  registered,  \* the row of the user exists
  row,         \* its columns; "token" is the hash of the good refresh token
  wallet,      \* each wallet: "unused", "own", "loose" (of no user) or "gone"
  req,         \* each request in progress
  now,         \* the second of the clock that signs the tokens
  (* history variables *)
  held,        \* tokens that were answered to a client
  lost,        \* tokens that were stored by a request that was never answered
  twins,       \* tokens that were signed twice, in one second
  retired,     \* tokens that were stored and then replaced
  issued,      \* tokens that were signed
  late         \* what others changed between a request's read and its save

table       == <<registered, row, wallet>>
tokens      == <<held, lost, twins, retired, issued>>
accountVars == <<table, req, now, tokens, late>>

-------------------------------------------------------------------------------
Signing == {"register", "login", "refresh"}
Kinds   == Signing \cup {"currency", "patch"}
Stages  == {"idle", "create", "find", "sign", "read", "fiat", "load", "write", "answer"}

RowOf(token, currency, status) ==
  [c \in Columns |-> IF c = "token" THEN token
                     ELSE IF c = "currency" THEN currency ELSE status[c]]

Rows == {RowOf(t, f, s) : t \in Tokens, f \in Currencies, s \in [StatusColumns -> Statuses]}

BlankRow == CHOOSE r \in Rows : r["token"] = 0

Request == [kind : Kinds, stage : Stages, token : Tokens, copy : Rows,
            diff : SUBSET Columns, wallets : SUBSET Wallets]

NoRequest == [kind |-> "patch", stage |-> "idle", token |-> 0, copy |-> BlankRow,
              diff |-> {}, wallets |-> {}]

Stage(q)   == req[q].stage
Own        == {w \in Wallets : wallet[w] = "own"}
Present(w) == wallet[w] \in {"own", "loose"}

(* The columns an entity carries: currency is a relation that findOneBy     *)
(* leaves out.                                                              *)
Copied(kind) ==
  IF kind = "currency" THEN Columns
  ELSE IF kind \in Signing THEN Columns \ {"currency"} ELSE {}

(* The column a request means to change. *)
Assigned(kind) ==
  IF kind = "currency" THEN {"currency"}
  ELSE IF kind \in Signing THEN {"token"} ELSE {}

(* The changes are late for the requests that have read and not yet loaded. *)
Noted(changes) ==
  [q \in Requests |-> IF Stage(q) \in {"fiat", "load"} THEN late[q] \cup changes ELSE late[q]]

-------------------------------------------------------------------------------
AccountInit ==
  /\ registered = FALSE
  /\ row \in {r \in Rows : r["token"] = 0}
  /\ wallet = [w \in Wallets |-> "unused"]
  /\ req = [q \in Requests |-> NoRequest]
  /\ now = 1
  /\ held = {} /\ lost = {} /\ twins = {} /\ retired = {} /\ issued = {}
  /\ late = [q \in Requests |-> {}]

(* A request has passed its guards. *)
Begin(q, kind, stage, token, wallets) ==
  /\ Stage(q) = "idle"
  /\ req' = [req EXCEPT ![q] =
       [NoRequest EXCEPT !.kind = kind, !.stage = stage, !.token = token, !.wallets = wallets]]
  /\ UNCHANGED <<table, now, tokens, late>>

BeginRegister(q)    == ~registered /\ Begin(q, "register", "create", 0, {})
BeginLogin(q)       == registered /\ Begin(q, "login", "find", 0, {})
BeginRefresh(q, t)  == registered /\ t \in held /\ Begin(q, "refresh", "find", t, {})
BeginCurrency(q)    == registered /\ Begin(q, "currency", "find", 0, {})
BeginPatch(q, w)    == registered /\ Present(w) /\ Begin(q, "patch", "find", 0, {w})

(* UserService.create; a second row of the username is refused. *)
Create(q) ==
  /\ Stage(q) = "create"
  /\ registered' = TRUE
  /\ req' = [req EXCEPT ![q] = IF registered THEN NoRequest ELSE [@ EXCEPT !.stage = "sign"]]
  /\ UNCHANGED <<row, wallet, now, tokens, late>>

(* Login reads the user for the password's sake. *)
FindForLogin(q) ==
  /\ Stage(q) = "find" /\ req[q].kind = "login"
  /\ req' = [req EXCEPT ![q].stage = "sign"]
  /\ UNCHANGED <<table, now, tokens, late>>

(* Refresh compares the presented token with the stored one. *)
FindForRefresh(q) ==
  /\ Stage(q) = "find" /\ req[q].kind = "refresh"
  /\ req' = [req EXCEPT ![q] =
               IF req[q].token = row["token"]
               THEN [@ EXCEPT !.stage = "sign"] ELSE NoRequest]
  /\ UNCHANGED <<table, now, tokens, late>>

(* Mutant: a new entity is saved, with the defaults of its columns. *)
FindForCurrencyNew(q) ==
  /\ Stage(q) = "find" /\ req[q].kind = "currency"
  /\ req' = [req EXCEPT ![q] = [@ EXCEPT !.stage = "fiat", !.wallets = Own]]
  /\ UNCHANGED <<table, now, tokens, late>>

(* setCurrency reads the user with all relations, the wallets among them. *)
FindForCurrency(q) ==
  /\ Stage(q) = "find" /\ req[q].kind = "currency"
  /\ req' = [req EXCEPT ![q] = [@ EXCEPT !.stage = "fiat", !.copy = row, !.wallets = Own]]
  /\ UNCHANGED <<table, now, tokens, late>>

(* WalletService.update finds the wallet, or throws. *)
FindForPatch(q) ==
  /\ Stage(q) = "find" /\ req[q].kind = "patch"
  /\ req' = [req EXCEPT ![q] =
               IF \A w \in req[q].wallets : Present(w)
               THEN [@ EXCEPT !.stage = "load"] ELSE NoRequest]
  /\ UNCHANGED <<table, now, tokens, late>>

(* signTokens: tokens signed for the user in one second are the same text. *)
SignTokens(q) ==
  /\ Stage(q) = "sign"
  /\ req' = [req EXCEPT ![q] = [@ EXCEPT !.stage = "read", !.token = now]]
  /\ issued' = issued \cup {now}
  /\ twins' = IF now \in issued THEN twins \cup {now} ELSE twins
  /\ UNCHANGED <<table, now, held, lost, retired, late>>

(* updateById reads the user again and assigns the token. *)
ReadUser(q) ==
  /\ Stage(q) = "read"
  /\ req' = [req EXCEPT ![q] =
       [@ EXCEPT !.stage = "load", !.copy = [row EXCEPT !["token"] = req[q].token]]]
  /\ UNCHANGED <<table, now, tokens, late>>

(* setCurrency finds the currency and assigns it. *)
FindFiat(q, fiat) ==
  /\ Stage(q) = "fiat"
  /\ req' = [req EXCEPT ![q] =
       [@ EXCEPT !.stage = "load", !.copy = [req[q].copy EXCEPT !["currency"] = fiat]]]
  /\ UNCHANGED <<table, now, tokens, late>>

(* Mutant: every column of the entity is written. *)
LoadNothing(q) ==
  /\ Stage(q) = "load"
  /\ req' = [req EXCEPT ![q] = [@ EXCEPT !.stage = "write", !.diff = Copied(req[q].kind)]]
  /\ UNCHANGED <<table, now, tokens, late>>

(* The first half of save: the columns that differ from the row, and the    *)
(* wallets that are not the entity's and will lose their user; or, of a     *)
(* wallet that is not there, the row to insert.                             *)
LoadForSave(q) ==
  /\ Stage(q) = "load"
  /\ req' = [req EXCEPT ![q] = [@ EXCEPT
       !.stage = "write",
       !.diff = {c \in Copied(req[q].kind) : req[q].copy[c] # row[c]},
       !.wallets = IF req[q].kind = "currency" THEN Own \ req[q].wallets
                   ELSE {w \in req[q].wallets : ~Present(w)}]]
  /\ UNCHANGED <<table, now, tokens, late>>

(* The second half: what was found to differ is written. *)
WriteSaved(q) ==
  /\ Stage(q) = "write"
  /\ row' = [c \in Columns |-> IF c \in req[q].diff THEN req[q].copy[c] ELSE row[c]]
  /\ wallet' = [w \in Wallets |->
       IF w \in req[q].wallets /\ wallet[w] = (IF req[q].kind = "currency" THEN "own" ELSE "gone")
       THEN "loose" ELSE wallet[w]]
  /\ req' = [req EXCEPT ![q] =
       IF req[q].kind \in Signing
       THEN [NoRequest EXCEPT !.kind = req[q].kind, !.stage = "answer", !.token = req[q].token]
       ELSE NoRequest]
  /\ retired' = IF row'["token"] # row["token"] THEN retired \cup {row["token"]} ELSE retired
  /\ late' = [Noted({c \in Columns : row'[c] # row[c]} \cup {w \in Wallets : wallet'[w] # wallet[w]})
               EXCEPT ![q] = {}]
  /\ UNCHANGED <<registered, now, held, lost, twins, issued>>

(* Mutant: the answer is signed anew. *)
AnswerSignedAgain(q) ==
  /\ Stage(q) = "answer"
  /\ req' = [req EXCEPT ![q] = NoRequest]
  /\ held' = held \cup {now}
  /\ UNCHANGED <<table, now, lost, twins, retired, issued, late>>

(* The client gets its tokens. *)
Answer(q) ==
  /\ Stage(q) = "answer"
  /\ req' = [req EXCEPT ![q] = NoRequest]
  /\ held' = held \cup {req[q].token}
  /\ UNCHANGED <<table, now, lost, twins, retired, issued, late>>

(* A query fails, the password or the currency is not good, the answer is   *)
(* lost; the end of the process is this for every request.                  *)
Fails(q) ==
  /\ Stage(q) # "idle"
  /\ req' = [req EXCEPT ![q] = NoRequest]
  /\ lost' = IF Stage(q) = "answer" THEN lost \cup {req[q].token} ELSE lost
  /\ late' = [late EXCEPT ![q] = {}]
  /\ UNCHANGED <<table, now, held, twins, retired, issued>>

(* POST wallet inserts a wallet of the user. *)
AddWallet(w) ==
  /\ registered
  /\ wallet[w] = "unused"
  /\ wallet' = [wallet EXCEPT ![w] = "own"]
  /\ late' = Noted({w})
  /\ UNCHANGED <<registered, row, req, now, tokens>>

(* DELETE wallet. *)
DeleteWallet(w) ==
  /\ Present(w)
  /\ wallet' = [wallet EXCEPT ![w] = "gone"]
  /\ late' = Noted({w})
  /\ UNCHANGED <<registered, row, req, now, tokens>>

(* A status of the user is reported: one column is updated. *)
ReportStatus(c, s) ==
  /\ registered
  /\ row' = [row EXCEPT ![c] = s]
  /\ late' = Noted({c})
  /\ UNCHANGED <<registered, wallet, req, now, tokens>>

Tick ==
  /\ now < MaxSecond
  /\ now' = now + 1
  /\ UNCHANGED <<table, req, tokens, late>>

-------------------------------------------------------------------------------
BeginRequest(q) ==
  \/ BeginRegister(q) \/ BeginLogin(q) \/ BeginCurrency(q)
  \/ \E t \in Tokens : BeginRefresh(q, t)
  \/ \E w \in Wallets : BeginPatch(q, w)

RequestStep(q) ==
  \/ Create(q)
  \/ FindForLogin(q) \/ FindForRefresh(q) \/ FindForCurrency(q) \/ FindForPatch(q)
  \/ SignTokens(q) \/ ReadUser(q)
  \/ \E fiat \in Currencies : FindFiat(q, fiat)
  \/ LoadForSave(q) \/ WriteSaved(q) \/ Answer(q) \/ Fails(q)

RequestNext ==
  \/ \E q \in Requests : BeginRequest(q) \/ RequestStep(q)
  \/ \E w \in Wallets : AddWallet(w) \/ DeleteWallet(w)
  \/ Tick

AccountNext ==
  \/ RequestNext
  \/ \E c \in StatusColumns, s \in Statuses : ReportStatus(c, s)

AccountSpec == AccountInit /\ [][AccountNext]_accountVars
-------------------------------------------------------------------------------
AccountTypeOK ==
  /\ registered \in BOOLEAN
  /\ row \in Rows
  /\ wallet \in [Wallets -> {"unused", "own", "loose", "gone"}]
  /\ req \in [Requests -> Request]
  /\ now \in Tokens \ {0}
  /\ held \subseteq Tokens /\ lost \subseteq Tokens /\ twins \subseteq Tokens
  /\ retired \subseteq Tokens /\ issued \subseteq Tokens
  /\ late \in [Requests -> SUBSET (Columns \cup Wallets)]

Saves(q) == Stage(q) = "write" /\ Stage(q)' \in {"answer", "idle"}

(* A save takes back only what changed between its own request's last read  *)
(* of the row and its save: a status reported, a token stored or a wallet   *)
(* added or deleted before that read, or after the save has begun, stays.   *)
(* This is what updateById's second read of the user is for.                *)
SavesUndoOnlyLateChanges ==
  [][\A q \in Requests :
       Saves(q) =>
         /\ \A c \in Columns \ Assigned(req[q].kind) : row'[c] # row[c] => c \in late[q]
         /\ \A w \in Wallets : wallet'[w] # wallet[w] => w \in late[q]]_accountVars

(* A refresh token that was replaced is never good again, unless it was     *)
(* signed twice in one second, or a currency was being saved by a request   *)
(* that had read the user before the token was replaced.                    *)
RetiredTokensStayDead ==
  [][row'["token"] # row["token"] /\ row'["token"] \in retired =>
       \/ row'["token"] \in twins
       \/ \E q \in Requests :
            Saves(q) /\ req[q].kind = "currency" /\ "token" \in late[q]]_accountVars

(* The good token is known: some client was answered with it, or is about   *)
(* to be, or the answer was lost and only a login helps.                    *)
Answering == {req[q].token : q \in {p \in Requests : Stage(p) = "answer"}}

Known == {0} \cup held \cup lost \cup Answering

StoredTokenIsKnown == row["token"] \in Known

-------------------------------------------------------------------------------
(* The strengthening that makes the safety properties above inductive. *)
InFlight(q)  == req[q].kind \in Signing /\ Stage(q) \in {"read", "load", "write"}
HoldsCopy(q) == req[q].kind = "currency" /\ Stage(q) \in {"fiat", "load", "write"}

StageFits(q) ==
  /\ Stage(q) \in {"create", "sign", "read", "answer"} => req[q].kind \in Signing
  /\ Stage(q) = "fiat" => req[q].kind = "currency"
  /\ req[q].kind \in Signing => req[q].wallets = {}
  /\ Stage(q) \notin {"fiat", "load", "write"} => late[q] = {}
  /\ InFlight(q) /\ Stage(q) # "read" => req[q].copy["token"] = req[q].token

(* What nobody has changed since it was read is as it was read. *)
CopyUpToDate(q) ==
  Stage(q) \in {"fiat", "load"} =>
    \A c \in Copied(req[q].kind) \ Assigned(req[q].kind) :
      c \in late[q] \/ req[q].copy[c] = row[c]

WalletsUpToDate(q) ==
  /\ req[q].kind = "currency" /\ Stage(q) \in {"fiat", "load"} =>
       \A w \in Wallets : w \in late[q] \/ (w \in req[q].wallets <=> wallet[w] = "own")
  /\ req[q].kind = "patch" /\ Stage(q) = "load" =>
       \A w \in req[q].wallets : w \in late[q] \/ Present(w)

DiffIsLate(q) ==
  Stage(q) = "write" =>
    /\ req[q].diff \subseteq Copied(req[q].kind) \cap (Assigned(req[q].kind) \cup late[q])
    /\ req[q].wallets \subseteq late[q]

LateInv == \A q \in Requests :
             StageFits(q) /\ CopyUpToDate(q) /\ WalletsUpToDate(q) /\ DiffIsLate(q)

(* A token signed once, and not stored yet, is nowhere else. *)
NotStored(q) ==
  /\ req[q].token \notin retired
  /\ req[q].token # row["token"]
  /\ \A p \in Requests \ {q} :
       /\ InFlight(p) => req[p].token # req[q].token
       /\ HoldsCopy(p) => req[p].copy["token"] # req[q].token

TokenInv ==
  /\ row["token"] \in issued \cup {0}
  /\ retired \subseteq issued \cup {0}
  /\ 0 \notin issued
  /\ \A q \in Requests :
       /\ InFlight(q) => req[q].token \in issued /\ (req[q].token \in twins \/ NotStored(q))
       /\ HoldsCopy(q) => req[q].copy["token"] \in issued \cup {0}

KnownInv ==
  /\ row["token"] \in Known
  /\ \A q \in Requests : HoldsCopy(q) => req[q].copy["token"] \in Known

AccountIInv == AccountTypeOK /\ LateInv /\ TokenInv /\ KnownInv
===============================================================================
