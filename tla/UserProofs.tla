------------------------------ MODULE UserProofs ------------------------------
(***************************************************************************)
(* Proofs about a user: first UserAccount, for any number of requests,     *)
(* wallets, currencies and statuses; then UserStatuses, which extends it,  *)
(* for any number of init requests and jobs too.                           *)
(***************************************************************************)
EXTENDS UserStatuses, TLAPS

(* A row is a function of the columns, each with values of its own. *)
LEMMA RowsMembers ==
  ASSUME NEW r \in Rows
  PROVE  /\ r = [c \in Columns |-> r[c]]
         /\ r["token"] \in Tokens
         /\ r["currency"] \in Currencies
         /\ \A c \in StatusColumns : r[c] \in Statuses
<1>1. PICK t \in Tokens, f \in Currencies, s \in [StatusColumns -> Statuses] : r = RowOf(t, f, s)
  BY DEF Rows
<1>. QED
  BY <1>1, AccountAssumption DEF RowOf, Columns

LEMMA RowsBuilt ==
  ASSUME NEW r, r = [c \in Columns |-> r[c]],
         r["token"] \in Tokens, r["currency"] \in Currencies,
         \A c \in StatusColumns : r[c] \in Statuses
  PROVE  r \in Rows
<1> DEFINE s == [c \in StatusColumns |-> r[c]]
<1>1. s \in [StatusColumns -> Statuses]
  OBVIOUS
<1>2. r = RowOf(r["token"], r["currency"], s)
  BY AccountAssumption DEF RowOf, Columns
<1>. QED
  BY <1>1, <1>2 DEF Rows

LEMMA BlankRowIsRow == BlankRow \in Rows
<1>1. PICK f \in Currencies, x \in Statuses : TRUE
  BY AccountAssumption
<1> DEFINE s == [c \in StatusColumns |-> x]
           r == RowOf(0, f, s)
<1>2. 0 \in Tokens
  BY AccountAssumption DEF Tokens
<1>3. r \in Rows
  BY <1>1, <1>2 DEF Rows
<1>4. r["token"] = 0
  BY AccountAssumption DEF RowOf, Columns
<1>. QED
  BY <1>3, <1>4 DEF BlankRow

LEMMA NoRequestType == NoRequest \in Request
<1>1. 0 \in Tokens
  BY AccountAssumption DEF Tokens
<1>. QED
  BY <1>1, BlankRowIsRow DEF NoRequest, Request, Kinds, Signing, Stages

(* What a row becomes when one column is assigned. *)
LEMMA RowAssigned ==
  ASSUME NEW r \in Rows, NEW c \in Columns, NEW v,
         c = "token" => v \in Tokens,
         c = "currency" => v \in Currencies,
         c \in StatusColumns => v \in Statuses
  PROVE  /\ [r EXCEPT ![c] = v] \in Rows
         /\ [r EXCEPT ![c] = v][c] = v
         /\ \A d \in Columns \ {c} : [r EXCEPT ![c] = v][d] = r[d]
<1> DEFINE x == [r EXCEPT ![c] = v]
<1>1. r = [d \in Columns |-> r[d]]
  BY RowsMembers
<1>2. x = [d \in Columns |-> IF d = c THEN v ELSE r[d]]
  BY <1>1
<1>3. /\ x["token"] \in Tokens /\ x["currency"] \in Currencies
      /\ \A d \in StatusColumns : x[d] \in Statuses
  BY <1>2, RowsMembers, AccountAssumption DEF Columns
<1>4. x = [d \in Columns |-> x[d]]
  BY <1>2
<1>5. x \in Rows
  BY <1>3, <1>4, RowsBuilt
<1>. QED
  BY <1>2, <1>5

(* What a save makes of a row. *)
LEMMA RowSaved ==
  ASSUME NEW r \in Rows, NEW copy \in Rows, NEW diff
  PROVE  [c \in Columns |-> IF c \in diff THEN copy[c] ELSE r[c]] \in Rows
<1> DEFINE x == [c \in Columns |-> IF c \in diff THEN copy[c] ELSE r[c]]
<1>1. /\ x["token"] \in Tokens /\ x["currency"] \in Currencies
      /\ \A d \in StatusColumns : x[d] \in Statuses
  BY RowsMembers, AccountAssumption DEF Columns
<1>2. x = [d \in Columns |-> x[d]]
  OBVIOUS
<1>. QED
  BY <1>1, <1>2, RowsBuilt

(* The fields of a request. *)
LEMMA RequestFields ==
  ASSUME AccountTypeOK, NEW q \in Requests
  PROVE  /\ req[q] \in Request
         /\ req[q].kind \in Kinds /\ req[q].stage \in Stages /\ req[q].token \in Tokens
         /\ req[q].copy \in Rows
         /\ req[q].diff \subseteq Columns /\ req[q].wallets \subseteq Wallets
  BY DEF AccountTypeOK, Request

-------------------------------------------------------------------------------
LEMMA TypeInit == AccountInit => AccountTypeOK
<1> SUFFICES ASSUME AccountInit
             PROVE  AccountTypeOK
  OBVIOUS
<1>1. now \in Tokens \ {0}
  BY AccountAssumption DEF AccountInit, Tokens
<1>. QED
  BY <1>1, NoRequestType DEF AccountInit, AccountTypeOK

(* Each action of a request: the new request, the others, and the types. *)
LEMMA BeginFacts ==
  ASSUME AccountTypeOK, NEW q \in Requests, NEW kind \in Kinds, NEW stage \in Stages,
         NEW token \in Tokens, NEW w \in SUBSET Wallets, Begin(q, kind, stage, token, w)
  PROVE  /\ AccountTypeOK'
         /\ \A p \in Requests \ {q} : req'[p] = req[p]
         /\ req'[q].kind = kind /\ req'[q].stage = stage /\ req'[q].token = token
         /\ req'[q].wallets = w
<1> DEFINE x == [NoRequest EXCEPT !.kind = kind, !.stage = stage, !.token = token, !.wallets = w]
<1>1. x \in Request /\ x.kind = kind /\ x.stage = stage /\ x.token = token /\ x.wallets = w
  BY NoRequestType DEF Request
<1>2. req' = [req EXCEPT ![q] = x]
  BY DEF Begin
<1>. QED
  BY <1>1, <1>2 DEF Begin, AccountTypeOK, table, tokens

LEMMA Replaced ==
  ASSUME AccountTypeOK, NEW q \in Requests, NEW x \in Request, req' = [req EXCEPT ![q] = x]
  PROVE  /\ req' \in [Requests -> Request]
         /\ req'[q] = x
         /\ \A p \in Requests \ {q} : req'[p] = req[p]
  BY DEF AccountTypeOK

LEMMA CreateFacts ==
  ASSUME AccountTypeOK, NEW q \in Requests, Create(q)
  PROVE  /\ AccountTypeOK'
         /\ \A p \in Requests \ {q} : req'[p] = req[p]
         /\ req'[q] \in {NoRequest, [req[q] EXCEPT !.stage = "sign"]}
<1> DEFINE x == IF registered THEN NoRequest ELSE [req[q] EXCEPT !.stage = "sign"]
<1>1. x \in Request
  BY NoRequestType, RequestFields DEF Request, Stages
<1>2. req' = [req EXCEPT ![q] = x]
  BY DEF Create
<1>. QED
  BY <1>1, <1>2 DEF Create, AccountTypeOK, tokens

LEMMA FindForLoginFacts ==
  ASSUME AccountTypeOK, NEW q \in Requests, FindForLogin(q)
  PROVE  /\ AccountTypeOK'
         /\ req' = [req EXCEPT ![q] = [req[q] EXCEPT !.stage = "sign"]]
<1>1. req' = [req EXCEPT ![q] = [req[q] EXCEPT !.stage = "sign"]]
  BY DEF FindForLogin
<1>2. [req[q] EXCEPT !.stage = "sign"] \in Request
  BY RequestFields DEF Request, Stages
<1>. QED
  BY <1>1, <1>2 DEF FindForLogin, AccountTypeOK, table, tokens

LEMMA FindForRefreshFacts ==
  ASSUME AccountTypeOK, NEW q \in Requests, FindForRefresh(q)
  PROVE  /\ AccountTypeOK'
         /\ \/ req' = [req EXCEPT ![q] = NoRequest]
            \/ req' = [req EXCEPT ![q] = [req[q] EXCEPT !.stage = "sign"]]
<1>1. [req[q] EXCEPT !.stage = "sign"] \in Request
  BY RequestFields DEF Request, Stages
<1>. QED
  BY <1>1, NoRequestType DEF FindForRefresh, AccountTypeOK, table, tokens

LEMMA FindForCurrencyFacts ==
  ASSUME AccountTypeOK, NEW q \in Requests, FindForCurrency(q)
  PROVE  /\ AccountTypeOK'
         /\ \A p \in Requests \ {q} : req'[p] = req[p]
         /\ req'[q].kind = "currency" /\ req'[q].stage = "fiat"
         /\ req'[q].copy = row /\ req'[q].wallets = Own
<1> DEFINE x == [req[q] EXCEPT !.stage = "fiat", !.copy = row, !.wallets = Own]
<1>1. /\ x \in Request
      /\ x.kind = req[q].kind /\ x.stage = "fiat" /\ x.copy = row /\ x.wallets = Own
  <2>1. row \in Rows /\ Own \subseteq Wallets
    BY DEF AccountTypeOK, Own
  <2>. QED
    BY <2>1, RequestFields DEF Request, Stages
<1>2. req' = [req EXCEPT ![q] = x]
  BY DEF FindForCurrency
<1>. HIDE DEF x
<1>3. AccountTypeOK'
  BY <1>1, <1>2, Replaced DEF FindForCurrency, AccountTypeOK, table, tokens
<1>. QED
  BY <1>1, <1>2, <1>3, Replaced DEF FindForCurrency

LEMMA FindForPatchFacts ==
  ASSUME AccountTypeOK, NEW q \in Requests, FindForPatch(q)
  PROVE  /\ AccountTypeOK'
         /\ \/ req' = [req EXCEPT ![q] = NoRequest]
            \/ /\ req' = [req EXCEPT ![q] = [req[q] EXCEPT !.stage = "load"]]
               /\ \A w \in req[q].wallets : Present(w)
<1>1. [req[q] EXCEPT !.stage = "load"] \in Request
  BY RequestFields DEF Request, Stages
<1>. QED
  BY <1>1, NoRequestType DEF FindForPatch, AccountTypeOK, table, tokens

LEMMA SignTokensFacts ==
  ASSUME AccountTypeOK, NEW q \in Requests, SignTokens(q)
  PROVE  /\ AccountTypeOK'
         /\ \A p \in Requests \ {q} : req'[p] = req[p]
         /\ req'[q].kind = req[q].kind /\ req'[q].stage = "read"
         /\ req'[q].token = now /\ req'[q].wallets = req[q].wallets
<1> DEFINE x == [req[q] EXCEPT !.stage = "read", !.token = now]
<1>1. /\ x \in Request
      /\ x.kind = req[q].kind /\ x.stage = "read" /\ x.token = now
      /\ x.wallets = req[q].wallets
  BY RequestFields DEF Request, Stages, AccountTypeOK
<1>2. req' = [req EXCEPT ![q] = x]
  BY DEF SignTokens
<1>. HIDE DEF x
<1>3. AccountTypeOK'
  BY <1>1, <1>2, Replaced DEF SignTokens, AccountTypeOK, table
<1>. QED
  BY <1>1, <1>2, <1>3, Replaced

LEMMA ReadUserFacts ==
  ASSUME AccountTypeOK, NEW q \in Requests, ReadUser(q)
  PROVE  /\ AccountTypeOK'
         /\ \A p \in Requests \ {q} : req'[p] = req[p]
         /\ req'[q].kind = req[q].kind /\ req'[q].stage = "load"
         /\ req'[q].token = req[q].token /\ req'[q].wallets = req[q].wallets
         /\ req'[q].copy["token"] = req[q].token
         /\ \A c \in Columns \ {"token"} : req'[q].copy[c] = row[c]
<1> DEFINE r == [row EXCEPT !["token"] = req[q].token]
           x == [req[q] EXCEPT !.stage = "load", !.copy = r]
<1>1. /\ r \in Rows /\ r["token"] = req[q].token
      /\ \A c \in Columns \ {"token"} : r[c] = row[c]
  <2>1. row \in Rows /\ "token" \in Columns /\ "token" \notin StatusColumns
    BY AccountAssumption DEF AccountTypeOK, Columns
  <2>. QED
    BY <2>1, RowAssigned, RequestFields
<1>2. req' = [req EXCEPT ![q] = x]
  BY DEF ReadUser
<1>3. /\ x \in Request
      /\ x.kind = req[q].kind /\ x.stage = "load" /\ x.token = req[q].token
      /\ x.wallets = req[q].wallets /\ x.copy = r
  <2>. HIDE DEF r
  <2>. QED
    BY <1>1, RequestFields DEF Request, Stages
<1>. HIDE DEF x, r
<1>4. AccountTypeOK'
  BY <1>2, <1>3, Replaced DEF ReadUser, AccountTypeOK, table, tokens
<1>. QED
  BY <1>1, <1>2, <1>3, <1>4, Replaced

LEMMA FindFiatFacts ==
  ASSUME AccountTypeOK, NEW q \in Requests, NEW fiat \in Currencies, FindFiat(q, fiat)
  PROVE  /\ AccountTypeOK'
         /\ \A p \in Requests \ {q} : req'[p] = req[p]
         /\ req'[q].kind = req[q].kind /\ req'[q].stage = "load"
         /\ req'[q].token = req[q].token /\ req'[q].wallets = req[q].wallets
         /\ \A c \in Columns \ {"currency"} : req'[q].copy[c] = req[q].copy[c]
<1> DEFINE r == [req[q].copy EXCEPT !["currency"] = fiat]
           x == [req[q] EXCEPT !.stage = "load", !.copy = r]
<1>1. r \in Rows /\ \A c \in Columns \ {"currency"} : r[c] = req[q].copy[c]
  <2>1. req[q].copy \in Rows /\ "currency" \in Columns /\ "currency" \notin StatusColumns
    BY AccountAssumption, RequestFields DEF Columns
  <2>. QED
    BY <2>1, RowAssigned
<1>2. req' = [req EXCEPT ![q] = x]
  BY DEF FindFiat
<1>3. /\ x \in Request
      /\ x.kind = req[q].kind /\ x.stage = "load" /\ x.token = req[q].token
      /\ x.wallets = req[q].wallets /\ x.copy = r
  <2>. HIDE DEF r
  <2>. QED
    BY <1>1, RequestFields DEF Request, Stages
<1>. HIDE DEF x, r
<1>4. AccountTypeOK'
  BY <1>2, <1>3, Replaced DEF FindFiat, AccountTypeOK, table, tokens
<1>. QED
  BY <1>1, <1>2, <1>3, <1>4, Replaced

LEMMA LoadForSaveFacts ==
  ASSUME AccountTypeOK, NEW q \in Requests, LoadForSave(q)
  PROVE  /\ AccountTypeOK'
         /\ \A p \in Requests \ {q} : req'[p] = req[p]
         /\ req'[q].kind = req[q].kind /\ req'[q].stage = "write"
         /\ req'[q].token = req[q].token /\ req'[q].copy = req[q].copy
         /\ req'[q].diff = {c \in Copied(req[q].kind) : req[q].copy[c] # row[c]}
         /\ req'[q].wallets = IF req[q].kind = "currency" THEN Own \ req[q].wallets
                              ELSE {w \in req[q].wallets : ~Present(w)}
<1> DEFINE d == {c \in Copied(req[q].kind) : req[q].copy[c] # row[c]}
           v == IF req[q].kind = "currency" THEN Own \ req[q].wallets
                ELSE {w \in req[q].wallets : ~Present(w)}
           x == [req[q] EXCEPT !.stage = "write", !.diff = d, !.wallets = v]
<1>1. d \subseteq Columns /\ v \subseteq Wallets
  BY RequestFields DEF Copied, Own
<1>2. req' = [req EXCEPT ![q] = x]
  BY DEF LoadForSave
<1>3. /\ x \in Request
      /\ x.kind = req[q].kind /\ x.stage = "write" /\ x.token = req[q].token
      /\ x.copy = req[q].copy /\ x.diff = d /\ x.wallets = v
  <2>. HIDE DEF d, v
  <2>. QED
    BY <1>1, RequestFields DEF Request, Stages
<1>. HIDE DEF x
<1>4. AccountTypeOK'
  BY <1>2, <1>3, Replaced DEF LoadForSave, AccountTypeOK, table, tokens
<1>5. req'[q] = x /\ \A p \in Requests \ {q} : req'[p] = req[p]
  BY <1>2, <1>3, Replaced
<1>. QED
  BY <1>3, <1>4, <1>5

LEMMA WriteSavedFacts ==
  ASSUME AccountTypeOK, NEW q \in Requests, WriteSaved(q)
  PROVE  /\ AccountTypeOK'
         /\ \A p \in Requests \ {q} : req'[p] = req[p]
         /\ req[q].kind \in Signing =>
              /\ req'[q].kind = req[q].kind /\ req'[q].stage = "answer"
              /\ req'[q].token = req[q].token /\ req'[q].wallets = {}
         /\ req[q].kind \notin Signing => req'[q] = NoRequest
         /\ \A c \in Columns : row'[c] = IF c \in req[q].diff THEN req[q].copy[c] ELSE row[c]
<1> DEFINE y == [NoRequest EXCEPT !.kind = req[q].kind, !.stage = "answer", !.token = req[q].token]
           x == IF req[q].kind \in Signing THEN y ELSE NoRequest
<1>1. /\ y \in Request
      /\ y.kind = req[q].kind /\ y.stage = "answer" /\ y.token = req[q].token
      /\ y.wallets = {}
  <2>1. NoRequest.wallets = {}
    BY DEF NoRequest
  <2>. QED
    BY <2>1, RequestFields, NoRequestType DEF Request, Stages
<1>2. req' = [req EXCEPT ![q] = x]
  BY DEF WriteSaved
<1>. HIDE DEF y
<1>3. x \in Request
  BY <1>1, NoRequestType
<1>4. row' \in Rows
  BY RowSaved, RequestFields DEF WriteSaved, AccountTypeOK
<1>5. wallet' \in [Wallets -> {"unused", "own", "loose", "gone"}]
  BY DEF WriteSaved, AccountTypeOK
<1>6. retired' \subseteq Tokens
  BY RowsMembers DEF WriteSaved, AccountTypeOK
<1>7. late' \in [Requests -> SUBSET (Columns \cup Wallets)]
  BY DEF WriteSaved, Noted, AccountTypeOK
<1>8. req' \in [Requests -> Request] /\ req'[q] = x /\ \A p \in Requests \ {q} : req'[p] = req[p]
  BY <1>2, <1>3, Replaced
<1>9. AccountTypeOK'
  BY <1>4, <1>5, <1>6, <1>7, <1>8 DEF WriteSaved, AccountTypeOK
<1>10. \A c \in Columns : row'[c] = IF c \in req[q].diff THEN req[q].copy[c] ELSE row[c]
  BY DEF WriteSaved
<1>. QED
  BY <1>1, <1>8, <1>9, <1>10

LEMMA AnswerFacts ==
  ASSUME AccountTypeOK, NEW q \in Requests, Answer(q)
  PROVE  /\ AccountTypeOK'
         /\ req' = [req EXCEPT ![q] = NoRequest]
<1>1. req' = [req EXCEPT ![q] = NoRequest]
  BY DEF Answer
<1>. QED
  BY <1>1, NoRequestType, Replaced, RequestFields DEF Answer, AccountTypeOK, table

LEMMA FailsFacts ==
  ASSUME AccountTypeOK, NEW q \in Requests, Fails(q)
  PROVE  /\ AccountTypeOK'
         /\ req' = [req EXCEPT ![q] = NoRequest]
<1>1. req' = [req EXCEPT ![q] = NoRequest]
  BY DEF Fails
<1>2. late' \in [Requests -> SUBSET (Columns \cup Wallets)] /\ lost' \subseteq Tokens
  BY RequestFields DEF Fails, AccountTypeOK
<1>. QED
  BY <1>1, <1>2, NoRequestType, Replaced DEF Fails, AccountTypeOK, table

(* The steps that are nobody's request. *)
LEMMA OthersFacts ==
  ASSUME AccountTypeOK,
         \/ \E w \in Wallets : AddWallet(w) \/ DeleteWallet(w)
         \/ \E c \in StatusColumns, s \in Statuses : ReportStatus(c, s)
         \/ Tick
  PROVE  AccountTypeOK' /\ req' = req
<1>1. ASSUME NEW w \in Wallets, AddWallet(w) \/ DeleteWallet(w)
      PROVE  AccountTypeOK' /\ req' = req
  BY <1>1 DEF AddWallet, DeleteWallet, Noted, AccountTypeOK, tokens
<1>2. ASSUME NEW c \in StatusColumns, NEW s \in Statuses, ReportStatus(c, s)
      PROVE  AccountTypeOK' /\ req' = req
  <2>1. c \in Columns /\ c # "token" /\ c # "currency"
    BY AccountAssumption DEF Columns
  <2>2. row' \in Rows
    BY <1>2, <2>1, RowAssigned DEF ReportStatus, AccountTypeOK
  <2>3. late' \in [Requests -> SUBSET (Columns \cup Wallets)]
    BY <1>2, <2>1 DEF ReportStatus, Noted, AccountTypeOK
  <2>. QED
    BY <1>2, <2>2, <2>3 DEF ReportStatus, AccountTypeOK, tokens
<1>3. ASSUME Tick
      PROVE  AccountTypeOK' /\ req' = req
  BY <1>3, AccountAssumption DEF Tick, AccountTypeOK, Tokens, table, tokens
<1>. QED
  BY <1>1, <1>2, <1>3

LEMMA BeginRequestFacts ==
  ASSUME AccountTypeOK, NEW q \in Requests, BeginRequest(q)
  PROVE  /\ AccountTypeOK'
         /\ \A p \in Requests \ {q} : req'[p] = req[p]
         /\ Stage(q) = "idle" /\ req'[q].stage \in {"create", "find"}
         /\ req'[q].stage = "create" => req'[q].kind \in Signing
         /\ req'[q].kind \in Signing => req'[q].wallets = {}
         /\ UNCHANGED <<table, now, tokens, late>>
<1>2. "register" \in Kinds /\ "login" \in Kinds /\ "refresh" \in Kinds
      /\ "currency" \in Kinds /\ "patch" \in Kinds /\ "patch" \notin Signing
      /\ "register" \in Signing /\ "create" \in Stages /\ "find" \in Stages /\ 0 \in Tokens
      /\ {} \in SUBSET Wallets
  BY AccountAssumption DEF Kinds, Signing, Stages, Tokens
<1>3. CASE BeginRegister(q)
  <2>1. Begin(q, "register", "create", 0, {})
    BY <1>3 DEF BeginRegister
  <2>2. Stage(q) = "idle" /\ UNCHANGED <<table, now, tokens, late>>
    BY <2>1 DEF Begin
  <2>. QED
    BY <1>2, <2>1, <2>2, BeginFacts
<1>4. CASE BeginLogin(q)
  <2>1. Begin(q, "login", "find", 0, {})
    BY <1>4 DEF BeginLogin
  <2>2. Stage(q) = "idle" /\ UNCHANGED <<table, now, tokens, late>>
    BY <2>1 DEF Begin
  <2>. QED
    BY <1>2, <2>1, <2>2, BeginFacts
<1>5. CASE BeginCurrency(q)
  <2>1. Begin(q, "currency", "find", 0, {})
    BY <1>5 DEF BeginCurrency
  <2>2. Stage(q) = "idle" /\ UNCHANGED <<table, now, tokens, late>>
    BY <2>1 DEF Begin
  <2>. QED
    BY <1>2, <2>1, <2>2, BeginFacts
<1>6. ASSUME NEW t \in Tokens, BeginRefresh(q, t)
      PROVE  Begin(q, "refresh", "find", t, {})
  BY <1>6 DEF BeginRefresh
<1>7. CASE \E t \in Tokens : BeginRefresh(q, t)
  <2>1. PICK t \in Tokens : Begin(q, "refresh", "find", t, {})
    BY <1>6, <1>7
  <2>2. Stage(q) = "idle" /\ UNCHANGED <<table, now, tokens, late>>
    BY <2>1 DEF Begin
  <2>. QED
    BY <1>2, <2>1, <2>2, BeginFacts
<1>8. CASE \E w \in Wallets : BeginPatch(q, w)
  <2>1. PICK w \in Wallets : Begin(q, "patch", "find", 0, {w})
    BY <1>8 DEF BeginPatch
  <2>2. Stage(q) = "idle" /\ UNCHANGED <<table, now, tokens, late>>
    BY <2>1 DEF Begin
  <2>3. {w} \in SUBSET Wallets
    OBVIOUS
  <2>. QED
    BY <1>2, <2>1, <2>2, <2>3, BeginFacts
<1>. QED
  BY <1>3, <1>4, <1>5, <1>7, <1>8 DEF BeginRequest

LEMMA TypeNext ==
  ASSUME AccountTypeOK, [AccountNext]_accountVars
  PROVE  AccountTypeOK'
<1>1. ASSUME NEW q \in Requests, BeginRequest(q) \/ RequestStep(q)
      PROVE  AccountTypeOK'
  BY <1>1, BeginRequestFacts, CreateFacts, FindForLoginFacts, FindForRefreshFacts,
     FindForCurrencyFacts, FindForPatchFacts, SignTokensFacts, ReadUserFacts, FindFiatFacts,
     LoadForSaveFacts, WriteSavedFacts, AnswerFacts, FailsFacts DEF RequestStep
<1>2. CASE UNCHANGED accountVars
  BY <1>2 DEF accountVars, table, tokens, AccountTypeOK
<1>. QED
  BY <1>1, <1>2, OthersFacts DEF AccountNext, RequestNext

(* The type invariant. *)
THEOREM AccountTypeCorrect == AccountSpec => []AccountTypeOK
BY TypeInit, TypeNext, PTL DEF AccountSpec

-------------------------------------------------------------------------------
(* What each request knows of the row and of the wallets. *)
LateOK(q) == StageFits(q) /\ CopyUpToDate(q) /\ WalletsUpToDate(q) /\ DiffIsLate(q)

LEMMA LateSplit == LateInv <=> \A q \in Requests : LateOK(q)
  BY DEF LateInv, LateOK

(* It stays true while others change nothing of it... *)
LEMMA LateFrame ==
  ASSUME NEW q \in Requests, LateOK(q), req'[q] = req[q], late'[q] = late[q],
         UNCHANGED <<row, wallet>>
  PROVE  LateOK(q)'
  BY DEF LateOK, StageFits, CopyUpToDate, WalletsUpToDate, DiffIsLate, Stage, InFlight, Present

(* ...and while what they change is noted as late. *)
LEMMA LateNoted ==
  ASSUME AccountTypeOK, NEW q \in Requests, LateOK(q), req'[q] = req[q],
         NEW changes, late'[q] = Noted(changes)[q],
         \A c \in Columns : row'[c] # row[c] => c \in changes,
         \A w \in Wallets : wallet'[w] # wallet[w] => w \in changes
  PROVE  LateOK(q)'
<1>1. late'[q] = IF Stage(q) \in {"fiat", "load"} THEN late[q] \cup changes ELSE late[q]
  BY DEF Noted
<1>2. StageFits(q)'
  BY <1>1 DEF LateOK, StageFits, Stage, InFlight
<1>3. CopyUpToDate(q)'
  <2>1. Copied(req[q].kind) \subseteq Columns
    BY DEF Copied
  <2>. QED
    BY <1>1, <2>1 DEF LateOK, CopyUpToDate, Stage
<1>4. WalletsUpToDate(q)'
  <2>1. req[q].wallets \subseteq Wallets
    BY RequestFields
  <2>2. ASSUME req[q].kind = "currency", Stage(q) \in {"fiat", "load"}, NEW w \in Wallets
        PROVE  w \in late'[q] \/ (w \in req[q].wallets <=> wallet'[w] = "own")
    BY <1>1, <2>2 DEF LateOK, WalletsUpToDate
  <2>3. ASSUME req[q].kind = "patch", Stage(q) = "load", NEW w \in req[q].wallets
        PROVE  w \in late'[q] \/ Present(w)'
    <3>1. w \in late[q] \/ Present(w)
      BY <2>3 DEF LateOK, WalletsUpToDate
    <3>2. w \in Wallets
      BY <2>1
    <3>. QED
      BY <1>1, <2>3, <3>1, <3>2 DEF Present
  <2>. QED
    BY <2>2, <2>3 DEF WalletsUpToDate, Stage
<1>5. DiffIsLate(q)'
  BY <1>1 DEF LateOK, DiffIsLate, Stage
<1>. QED
  BY <1>2, <1>3, <1>4, <1>5 DEF LateOK

(* A request that has nothing to save yet, or no more. *)
LEMMA LateQuiet ==
  ASSUME NEW q \in Requests, req'[q].stage \notin {"read", "fiat", "load", "write"},
         req'[q].stage \in {"create", "sign", "answer"} => req'[q].kind \in Signing,
         req'[q].kind \in Signing => req'[q].wallets = {},
         late'[q] = {}
  PROVE  LateOK(q)'
  BY DEF LateOK, StageFits, CopyUpToDate, WalletsUpToDate, DiffIsLate, Stage, InFlight

LEMMA NoRequestFields ==
  NoRequest.stage = "idle" /\ NoRequest.kind \notin Signing
  BY DEF NoRequest, Signing

LEMMA LateInit == AccountInit => LateInv
<1> SUFFICES ASSUME AccountInit, NEW q \in Requests
             PROVE  LateOK(q)
  BY LateSplit
<1>1. req[q] = NoRequest /\ late[q] = {}
  BY DEF AccountInit
<1>. QED
  BY <1>1, NoRequestFields
  DEF LateOK, StageFits, CopyUpToDate, WalletsUpToDate, DiffIsLate, Stage, InFlight

(* The request that takes a step. *)
LEMMA LateStep ==
  ASSUME AccountTypeOK, NEW q \in Requests, LateOK(q), BeginRequest(q) \/ RequestStep(q)
  PROVE  LateOK(q)'
<1> USE DEF table, tokens
<1>f. req[q] \in Request
  BY RequestFields
<1>0. /\ Stage(q) \notin {"fiat", "load", "write"} => late[q] = {}
      /\ req[q].kind \in Signing => req[q].wallets = {}
      /\ Stage(q) \in {"create", "sign", "read", "answer"} => req[q].kind \in Signing
      /\ Stage(q) = "fiat" => req[q].kind = "currency"
      /\ "currency" \notin Signing /\ "patch" \notin Signing
      /\ "login" \in Signing /\ "refresh" \in Signing
  BY DEF LateOK, StageFits, Signing
<1>1. CASE BeginRequest(q)
  <2>1. late'[q] = {}
    BY <1>0, <1>1, BeginRequestFacts
  <2>. QED
    BY <1>1, <2>1, LateQuiet, BeginRequestFacts
<1>q. ASSUME req'[q] = NoRequest, late'[q] = {}
      PROVE  LateOK(q)'
  BY <1>q, LateQuiet, NoRequestFields
<1>s. ASSUME req'[q] = [req[q] EXCEPT !.stage = "sign"], late'[q] = {}, req[q].kind \in Signing
      PROVE  LateOK(q)'
  <2>1. req'[q].stage = "sign" /\ req'[q].kind = req[q].kind /\ req'[q].wallets = req[q].wallets
    BY <1>f, <1>s DEF Request
  <2>. QED
    BY <1>0, <1>s, <2>1, LateQuiet
<1>2. CASE Create(q)
  BY <1>0, <1>2, <1>q, <1>s, CreateFacts DEF Create
<1>3. CASE FindForLogin(q)
  <2>1. req'[q] = [req[q] EXCEPT !.stage = "sign"]
    BY <1>3, FindForLoginFacts DEF AccountTypeOK
  <2>. QED
    BY <1>0, <1>3, <1>s, <2>1 DEF FindForLogin
<1>4. CASE FindForRefresh(q)
  <2>1. req'[q] \in {NoRequest, [req[q] EXCEPT !.stage = "sign"]}
    BY <1>4, FindForRefreshFacts DEF AccountTypeOK
  <2>. QED
    BY <1>0, <1>4, <1>q, <1>s, <2>1 DEF FindForRefresh
<1>5. CASE FindForCurrency(q)
  <2>1. /\ req'[q].kind = "currency" /\ req'[q].stage = "fiat"
        /\ req'[q].copy = row /\ req'[q].wallets = Own
        /\ UNCHANGED <<row, wallet>> /\ late'[q] = {}
    BY <1>0, <1>5, FindForCurrencyFacts DEF FindForCurrency
  <2>. QED
    BY <1>0, <2>1 DEF LateOK, StageFits, CopyUpToDate, WalletsUpToDate, DiffIsLate, Stage,
                      InFlight, Own
<1>6. CASE FindForPatch(q)
  <2>1. req[q].kind = "patch" /\ UNCHANGED <<row, wallet>> /\ late'[q] = {}
    BY <1>0, <1>6 DEF FindForPatch
  <2>2. CASE req' = [req EXCEPT ![q] = NoRequest]
    BY <1>q, <2>1, <2>2 DEF AccountTypeOK
  <2>3. CASE /\ req' = [req EXCEPT ![q] = [req[q] EXCEPT !.stage = "load"]]
             /\ \A w \in req[q].wallets : Present(w)
    <3>1. req'[q].stage = "load" /\ req'[q].kind = "patch" /\ req'[q].wallets = req[q].wallets
      BY <1>f, <2>1, <2>3 DEF AccountTypeOK, Request
    <3>2. Copied(req'[q].kind) = {}
      BY <1>0, <3>1 DEF Copied
    <3>. QED
      BY <1>0, <2>1, <2>3, <3>1, <3>2
      DEF LateOK, StageFits, CopyUpToDate, WalletsUpToDate, DiffIsLate, Stage, InFlight, Present
  <2>. QED
    BY <1>6, <2>2, <2>3, FindForPatchFacts
<1>7. CASE SignTokens(q)
  <2>1. /\ req'[q].kind = req[q].kind /\ req'[q].stage = "read"
        /\ req'[q].wallets = req[q].wallets /\ late'[q] = {} /\ req[q].kind \in Signing
    BY <1>0, <1>7, SignTokensFacts DEF SignTokens
  <2>. QED
    BY <1>0, <2>1 DEF LateOK, StageFits, CopyUpToDate, WalletsUpToDate, DiffIsLate, Stage, InFlight
<1>8. CASE ReadUser(q)
  <2>1. /\ req'[q].kind = req[q].kind /\ req'[q].stage = "load"
        /\ req'[q].token = req[q].token /\ req'[q].wallets = req[q].wallets
        /\ req'[q].copy["token"] = req[q].token
        /\ \A c \in Columns \ {"token"} : req'[q].copy[c] = row[c]
        /\ late'[q] = {} /\ req[q].kind \in Signing /\ UNCHANGED <<row, wallet>>
    BY <1>0, <1>8, ReadUserFacts DEF ReadUser
  <2>2. Copied(req[q].kind) \ Assigned(req[q].kind) \subseteq Columns \ {"token"}
    BY <1>0, <2>1 DEF Copied, Assigned
  <2>. QED
    BY <1>0, <2>1, <2>2
    DEF LateOK, StageFits, CopyUpToDate, WalletsUpToDate, DiffIsLate, Stage, InFlight
<1>9. CASE \E fiat \in Currencies : FindFiat(q, fiat)
  <2>1. /\ req'[q].kind = req[q].kind /\ req'[q].stage = "load"
        /\ req'[q].token = req[q].token /\ req'[q].wallets = req[q].wallets
        /\ \A c \in Columns \ {"currency"} : req'[q].copy[c] = req[q].copy[c]
        /\ late'[q] = late[q] /\ req[q].kind = "currency" /\ UNCHANGED <<row, wallet>>
        /\ Stage(q) = "fiat"
    BY <1>0, <1>9, FindFiatFacts DEF FindFiat
  <2>2. Copied(req[q].kind) = Columns /\ Assigned(req[q].kind) = {"currency"}
    BY <2>1 DEF Copied, Assigned
  <2>3. CopyUpToDate(q)'
    BY <2>1, <2>2 DEF LateOK, CopyUpToDate, Stage
  <2>4. WalletsUpToDate(q)'
    BY <2>1 DEF LateOK, WalletsUpToDate, Stage
  <2>. QED
    BY <1>0, <2>1, <2>3, <2>4 DEF LateOK, StageFits, DiffIsLate, Stage, InFlight
<1>10. CASE LoadForSave(q)
  <2>1. /\ req'[q].kind = req[q].kind /\ req'[q].stage = "write"
        /\ req'[q].token = req[q].token /\ req'[q].copy = req[q].copy
        /\ req'[q].diff = {c \in Copied(req[q].kind) : req[q].copy[c] # row[c]}
        /\ req'[q].wallets = IF req[q].kind = "currency" THEN Own \ req[q].wallets
                             ELSE {w \in req[q].wallets : ~Present(w)}
        /\ late'[q] = late[q] /\ UNCHANGED <<row, wallet>> /\ Stage(q) = "load"
    BY <1>10, LoadForSaveFacts DEF LoadForSave
  <2>2. \A c \in req'[q].diff :
          c \in Copied(req[q].kind) /\ c \in Assigned(req[q].kind) \cup late[q]
    BY <2>1 DEF LateOK, CopyUpToDate
  <2>3. req'[q].wallets \subseteq late[q]
    <3>1. CASE req[q].kind = "currency"
      BY <2>1, <3>1 DEF LateOK, WalletsUpToDate, Own
    <3>2. CASE req[q].kind = "patch"
      BY <2>1, <3>2 DEF LateOK, WalletsUpToDate
    <3>3. CASE req[q].kind \in Signing
      BY <1>0, <2>1, <3>3
    <3>. QED
      BY <1>f, <3>1, <3>2, <3>3 DEF Request, Kinds
  <2>4. StageFits(q)'
    <3>1. req[q].kind \in Signing => req'[q].wallets = {}
      BY <1>0, <2>1
    <3>2. InFlight(q)' => req'[q].copy["token"] = req'[q].token
      BY <2>1 DEF LateOK, StageFits, InFlight, Stage
    <3>. QED
      BY <2>1, <3>1, <3>2 DEF StageFits, Stage
  <2>. QED
    BY <2>1, <2>2, <2>3, <2>4 DEF LateOK, CopyUpToDate, WalletsUpToDate, DiffIsLate, Stage
<1>11. CASE WriteSaved(q)
  <2>1. late'[q] = {}
    BY <1>11 DEF WriteSaved, Noted
  <2>2. CASE req[q].kind \in Signing
    BY <1>11, <2>1, <2>2, WriteSavedFacts, LateQuiet
  <2>. QED
    BY <1>11, <1>q, <2>1, <2>2, WriteSavedFacts
<1>12. CASE Answer(q)
  <2>1. req'[q] = NoRequest
    BY <1>12, AnswerFacts DEF AccountTypeOK
  <2>. QED
    BY <1>0, <1>12, <1>q, <2>1 DEF Answer
<1>13. CASE Fails(q)
  <2>1. req'[q] = NoRequest
    BY <1>13, FailsFacts DEF AccountTypeOK
  <2>2. late'[q] = {}
    BY <1>13 DEF Fails, AccountTypeOK
  <2>. QED
    BY <1>q, <2>1, <2>2
<1>. QED
  BY <1>1, <1>2, <1>3, <1>4, <1>5, <1>6, <1>7, <1>8, <1>9, <1>10, <1>11, <1>12, <1>13
  DEF RequestStep

(* The others. *)
LEMMA LateOthers ==
  ASSUME AccountTypeOK, NEW q \in Requests, BeginRequest(q) \/ RequestStep(q),
         NEW p \in Requests \ {q}, LateOK(p)
  PROVE  LateOK(p)'
<1>1. req'[p] = req[p]
  <2>1. ASSUME NEW x, req' = [req EXCEPT ![q] = x]
        PROVE  req'[p] = req[p]
    BY <2>1 DEF AccountTypeOK
  <2>2. CASE BeginRequest(q) \/ Create(q)
    BY <2>2, BeginRequestFacts, CreateFacts
  <2>3. CASE FindForLogin(q) \/ FindForRefresh(q) \/ FindForPatch(q) \/ Answer(q) \/ Fails(q)
    BY <2>1, <2>3, FindForLoginFacts, FindForRefreshFacts, FindForPatchFacts, AnswerFacts, FailsFacts
  <2>4. CASE \/ FindForCurrency(q) \/ SignTokens(q) \/ ReadUser(q)
             \/ \E fiat \in Currencies : FindFiat(q, fiat)
    BY <2>4, FindForCurrencyFacts, SignTokensFacts, ReadUserFacts, FindFiatFacts
  <2>5. CASE LoadForSave(q) \/ WriteSaved(q)
    BY <2>5, LoadForSaveFacts, WriteSavedFacts
  <2>. QED
    BY <2>2, <2>3, <2>4, <2>5 DEF RequestStep
<1>2. CASE WriteSaved(q)
  <2> DEFINE changes == {c \in Columns : row'[c] # row[c]}
                          \cup {w \in Wallets : wallet'[w] # wallet[w]}
  <2>1. late'[p] = Noted(changes)[p]
    <3>1. late' = [Noted(changes) EXCEPT ![q] = {}]
      BY <1>2 DEF WriteSaved
    <3>2. Noted(changes) = [r \in Requests |-> Noted(changes)[r]]
      BY DEF Noted
    <3>. QED
      BY <3>1, <3>2
  <2>2. /\ \A c \in Columns : row'[c] # row[c] => c \in changes
        /\ \A w \in Wallets : wallet'[w] # wallet[w] => w \in changes
    OBVIOUS
  <2>. HIDE DEF changes
  <2>. QED
    BY <1>1, <2>1, <2>2, LateNoted
<1>3. CASE ~WriteSaved(q)
  <2>1. UNCHANGED <<row, wallet>> /\ late'[p] = late[p]
    BY <1>3, BeginRequestFacts DEF RequestStep, Create, FindForLogin, FindForRefresh,
       FindForCurrency, FindForPatch, SignTokens, ReadUser, FindFiat, LoadForSave, Answer, Fails,
       table, tokens, AccountTypeOK
  <2>. QED
    BY <1>1, <2>1, LateFrame
<1>. QED
  BY <1>2, <1>3

LEMMA LateNext ==
  ASSUME AccountTypeOK, LateInv, [AccountNext]_accountVars
  PROVE  LateInv'
<1> SUFFICES ASSUME NEW p \in Requests
             PROVE  LateOK(p)'
  BY DEF LateInv, LateOK
<1>0. LateOK(p)
  BY LateSplit
<1>1. ASSUME NEW q \in Requests, BeginRequest(q) \/ RequestStep(q)
      PROVE  LateOK(p)'
  BY <1>0, <1>1, LateStep, LateOthers
<1>2. ASSUME NEW w \in Wallets, AddWallet(w) \/ DeleteWallet(w)
      PROVE  LateOK(p)'
  <2>1. late'[p] = Noted({w})[p] /\ req'[p] = req[p] /\ row' = row
    BY <1>2 DEF AddWallet, DeleteWallet
  <2>2. \A v \in Wallets : wallet'[v] # wallet[v] => v \in {w}
    BY <1>2 DEF AddWallet, DeleteWallet, AccountTypeOK
  <2>. QED
    BY <1>0, <2>1, <2>2, LateNoted
<1>3. ASSUME NEW c \in StatusColumns, NEW s \in Statuses, ReportStatus(c, s)
      PROVE  LateOK(p)'
  <2>1. late'[p] = Noted({c})[p] /\ req'[p] = req[p] /\ wallet' = wallet
    BY <1>3 DEF ReportStatus
  <2>2. row \in Rows /\ c \in Columns /\ c # "token" /\ c # "currency"
    BY AccountAssumption DEF AccountTypeOK, Columns
  <2>3. \A d \in Columns : row'[d] # row[d] => d \in {c}
    BY <1>3, <2>2, RowAssigned DEF ReportStatus
  <2>. QED
    BY <1>0, <2>1, <2>3, LateNoted
<1>4. CASE Tick \/ UNCHANGED accountVars
  BY <1>0, <1>4, LateFrame DEF Tick, accountVars, table, tokens
<1>. QED
  BY <1>1, <1>2, <1>3, <1>4 DEF AccountNext, RequestNext

-------------------------------------------------------------------------------
(* What a step does to the tokens that requests carry: none is new... *)
Carries(p) ==
  /\ InFlight(p)' => InFlight(p) /\ req'[p].token = req[p].token
  /\ HoldsCopy(p)' => HoldsCopy(p) /\ req'[p].copy["token"] = req[p].copy["token"]

LEMMA CarriesSame ==
  ASSUME NEW p \in Requests, req'[p] = req[p]
  PROVE  Carries(p)
  BY DEF Carries, InFlight, HoldsCopy, Stage

(* ...in every step but the three that sign, read for the currency and save. *)
LEMMA CarriesStep ==
  ASSUME AccountTypeOK, LateInv, NEW q \in Requests, BeginRequest(q) \/ RequestStep(q),
         ~FindForCurrency(q), ~SignTokens(q), ~WriteSaved(q)
  PROVE  Carries(q) /\ row' = row /\ UNCHANGED <<twins, retired, issued>>
<1> USE DEF table, tokens
<1>f. /\ req[q] \in Request /\ LateOK(q)
      /\ "currency" \notin Signing /\ "patch" \notin Signing
  BY RequestFields, LateSplit DEF Signing
<1>q. ASSUME req' = [req EXCEPT ![q] = NoRequest]
      PROVE  Carries(q)
  BY <1>q, NoRequestFields DEF Carries, InFlight, HoldsCopy, Stage, AccountTypeOK
<1>s. ASSUME req'[q].stage \in {"create", "find", "sign"}
      PROVE  Carries(q)
  BY <1>s DEF Carries, InFlight, HoldsCopy, Stage
<1>t. [req[q] EXCEPT !.stage = "sign"].stage = "sign"
  BY <1>f DEF Request
<1>1. CASE BeginRequest(q)
  BY <1>1, <1>s, BeginRequestFacts
<1>2. CASE Create(q)
  <2>1. CASE req'[q] = NoRequest
    BY <1>2, <2>1, NoRequestFields DEF Create, Carries, InFlight, HoldsCopy, Stage
  <2>. QED
    BY <1>2, <1>s, <1>t, <2>1, CreateFacts DEF Create
<1>3. CASE FindForLogin(q)
  <2>1. req'[q].stage = "sign"
    BY <1>3, <1>t, FindForLoginFacts DEF AccountTypeOK
  <2>. QED
    BY <1>3, <1>s, <2>1 DEF FindForLogin
<1>4. CASE FindForRefresh(q)
  <2>1. CASE req' = [req EXCEPT ![q] = NoRequest]
    BY <1>4, <1>q, <2>1 DEF FindForRefresh
  <2>2. CASE req' = [req EXCEPT ![q] = [req[q] EXCEPT !.stage = "sign"]]
    <3>1. req'[q].stage = "sign"
      BY <1>t, <2>2 DEF AccountTypeOK
    <3>. QED
      BY <1>4, <1>s, <3>1 DEF FindForRefresh
  <2>. QED
    BY <1>4, <2>1, <2>2, FindForRefreshFacts
<1>6. CASE FindForPatch(q)
  <2>1. CASE req' = [req EXCEPT ![q] = NoRequest]
    BY <1>6, <1>q, <2>1 DEF FindForPatch
  <2>2. CASE req' = [req EXCEPT ![q] = [req[q] EXCEPT !.stage = "load"]]
    <3>1. req'[q].kind = "patch"
      BY <1>f, <1>6, <2>2 DEF FindForPatch, AccountTypeOK, Request
    <3>. QED
      BY <1>f, <1>6, <3>1 DEF FindForPatch, Carries, InFlight, HoldsCopy
  <2>. QED
    BY <1>6, <2>1, <2>2, FindForPatchFacts
<1>8. CASE ReadUser(q)
  <2>1. /\ req'[q].kind = req[q].kind /\ req'[q].stage = "load"
        /\ req'[q].token = req[q].token /\ req[q].kind \in Signing /\ Stage(q) = "read"
    BY <1>f, <1>8, ReadUserFacts DEF ReadUser, LateOK, StageFits
  <2>. QED
    BY <1>f, <1>8, <2>1 DEF ReadUser, Carries, InFlight, HoldsCopy, Stage
<1>9. CASE \E fiat \in Currencies : FindFiat(q, fiat)
  <2>1. "token" \in Columns \ {"currency"}
    BY DEF Columns
  <2>2. /\ req'[q].kind = req[q].kind /\ req'[q].stage = "load"
        /\ req'[q].copy["token"] = req[q].copy["token"]
        /\ req[q].kind = "currency" /\ Stage(q) = "fiat"
        /\ row' = row /\ UNCHANGED <<twins, retired, issued>>
    BY <1>f, <1>9, <2>1, FindFiatFacts DEF FindFiat, LateOK, StageFits
  <2>. QED
    BY <1>f, <2>2 DEF Carries, InFlight, HoldsCopy, Stage
<1>10. CASE LoadForSave(q)
  <2>1. /\ req'[q].kind = req[q].kind /\ req'[q].stage = "write" /\ Stage(q) = "load"
        /\ req'[q].token = req[q].token /\ req'[q].copy = req[q].copy
    BY <1>10, LoadForSaveFacts DEF LoadForSave
  <2>. QED
    BY <1>10, <2>1 DEF LoadForSave, Carries, InFlight, HoldsCopy, Stage
<1>12. CASE Answer(q)
  BY <1>12, <1>q, AnswerFacts DEF Answer
<1>13. CASE Fails(q)
  BY <1>13, <1>q, FailsFacts DEF Fails
<1>. QED
  BY <1>1, <1>2, <1>3, <1>4, <1>6, <1>8, <1>9, <1>10, <1>12, <1>13, BeginRequestFacts
  DEF RequestStep

LEMMA TokenFrame ==
  ASSUME TokenInv, \A p \in Requests : Carries(p), row'["token"] = row["token"],
         UNCHANGED <<twins, retired, issued>>
  PROVE  TokenInv'
<1>1. ASSUME NEW q \in Requests, InFlight(q)'
      PROVE  req'[q].token \in issued /\ (req'[q].token \in twins \/ NotStored(q)')
  <2>1. InFlight(q) /\ req'[q].token = req[q].token
    BY <1>1 DEF Carries
  <2>2. req[q].token \in issued /\ (req[q].token \in twins \/ NotStored(q))
    BY <2>1 DEF TokenInv
  <2>3. ASSUME NotStored(q)
        PROVE  NotStored(q)'
    <3>1. /\ req'[q].token \notin retired' /\ req'[q].token # row'["token"]
      BY <2>1, <2>3 DEF NotStored
    <3>2. ASSUME NEW p \in Requests \ {q}
          PROVE  /\ InFlight(p)' => req'[p].token # req'[q].token
                 /\ HoldsCopy(p)' => req'[p].copy["token"] # req'[q].token
      BY <2>1, <2>3 DEF NotStored, Carries
    <3>. QED
      BY <3>1, <3>2 DEF NotStored
  <2>. QED
    BY <2>1, <2>2, <2>3
<1>2. ASSUME NEW q \in Requests, HoldsCopy(q)'
      PROVE  req'[q].copy["token"] \in issued \cup {0}
  BY <1>2 DEF Carries, TokenInv
<1>. QED
  BY <1>1, <1>2 DEF TokenInv

LEMMA TokenInitially == AccountInit => TokenInv
<1> SUFFICES ASSUME AccountInit
             PROVE  TokenInv
  OBVIOUS
<1>1. row["token"] = 0 /\ retired = {} /\ issued = {}
  BY DEF AccountInit
<1>2. ASSUME NEW q \in Requests
      PROVE  ~InFlight(q) /\ ~HoldsCopy(q)
  <2>1. req[q] = NoRequest
    BY DEF AccountInit
  <2>. QED
    BY <2>1, NoRequestFields DEF InFlight, HoldsCopy, Stage
<1>. QED
  BY <1>1, <1>2 DEF TokenInv

(* setCurrency reads the stored token, which is no token of a request that  *)
(* has yet to store its own.                                                *)
LEMMA TokenCurrency ==
  ASSUME AccountTypeOK, TokenInv, NEW q \in Requests, FindForCurrency(q)
  PROVE  TokenInv'
<1>1. /\ \A p \in Requests \ {q} : req'[p] = req[p]
      /\ req'[q].kind = "currency" /\ req'[q].copy = row
      /\ UNCHANGED <<row, twins, retired, issued>>
  BY FindForCurrencyFacts DEF FindForCurrency, table, tokens
<1>2. ~InFlight(q)'
  BY <1>1 DEF InFlight, Signing
<1>3. ASSUME NEW p \in Requests, InFlight(p)'
      PROVE  req'[p].token \in issued' /\ (req'[p].token \in twins' \/ NotStored(p)')
  <2>1. p # q /\ req'[p] = req[p] /\ InFlight(p)
    BY <1>1, <1>2, <1>3 DEF InFlight, Stage
  <2>2. req[p].token \in issued /\ (req[p].token \in twins \/ NotStored(p))
    BY <2>1 DEF TokenInv
  <2>3. ASSUME NotStored(p)
        PROVE  NotStored(p)'
    <3>1. ASSUME NEW r \in Requests \ {p}
          PROVE  /\ InFlight(r)' => req'[r].token # req'[p].token
                 /\ HoldsCopy(r)' => req'[r].copy["token"] # req'[p].token
      <4>1. CASE r = q
        BY <1>1, <1>2, <2>1, <2>3, <4>1 DEF NotStored
      <4>2. CASE r # q
        BY <1>1, <2>1, <2>3, <4>2 DEF NotStored, InFlight, HoldsCopy, Stage
      <4>. QED
        BY <4>1, <4>2
    <3>. QED
      BY <1>1, <2>1, <2>3, <3>1 DEF NotStored
  <2>. QED
    BY <1>1, <2>1, <2>2, <2>3
<1>4. ASSUME NEW p \in Requests, HoldsCopy(p)'
      PROVE  req'[p].copy["token"] \in issued' \cup {0}
  BY <1>1, <1>4 DEF TokenInv, HoldsCopy, Stage
<1>. QED
  BY <1>1, <1>3, <1>4 DEF TokenInv

(* A token that is signed for the first time is nowhere yet. *)
LEMMA TokenSigned ==
  ASSUME AccountTypeOK, TokenInv, NEW q \in Requests, SignTokens(q)
  PROVE  TokenInv'
<1>1. /\ \A p \in Requests \ {q} : req'[p] = req[p]
      /\ req'[q].stage = "read" /\ req'[q].token = now
      /\ UNCHANGED <<row, retired>>
      /\ issued' = issued \cup {now}
      /\ twins' = IF now \in issued THEN twins \cup {now} ELSE twins
      /\ now # 0
  BY SignTokensFacts DEF SignTokens, table, AccountTypeOK
<1>2. ~HoldsCopy(q)'
  BY <1>1 DEF HoldsCopy, Stage
<1>3. ASSUME NEW p \in Requests \ {q}, InFlight(p)'
      PROVE  req'[p].token \in issued' /\ (req'[p].token \in twins' \/ NotStored(p)')
  <2>1. req'[p] = req[p] /\ InFlight(p)
    BY <1>1, <1>3 DEF InFlight, Stage
  <2>2. req[p].token \in issued /\ (req[p].token \in twins \/ NotStored(p))
    BY <2>1 DEF TokenInv
  <2>3. CASE req[p].token = now
    BY <1>1, <2>1, <2>2, <2>3
  <2>4. ASSUME req[p].token # now, NotStored(p)
        PROVE  NotStored(p)'
    <3>1. ASSUME NEW r \in Requests \ {p}
          PROVE  /\ InFlight(r)' => req'[r].token # req'[p].token
                 /\ HoldsCopy(r)' => req'[r].copy["token"] # req'[p].token
      <4>1. CASE r = q
        BY <1>1, <1>2, <2>1, <2>4, <4>1
      <4>2. CASE r # q
        BY <1>1, <2>1, <2>4, <4>2 DEF NotStored, InFlight, HoldsCopy, Stage
      <4>. QED
        BY <4>1, <4>2
    <3>. QED
      BY <1>1, <2>1, <2>4, <3>1 DEF NotStored
  <2>. QED
    BY <1>1, <2>1, <2>2, <2>3, <2>4
<1>4. req'[q].token \in issued' /\ (req'[q].token \in twins' \/ NotStored(q)')
  <2>1. CASE now \in issued
    BY <1>1, <2>1
  <2>2. CASE now \notin issued
    <3>1. now \notin retired /\ now # row["token"]
      BY <1>1, <2>2 DEF TokenInv
    <3>2. ASSUME NEW r \in Requests \ {q}
          PROVE  /\ InFlight(r)' => req'[r].token # now
                 /\ HoldsCopy(r)' => req'[r].copy["token"] # now
      BY <1>1, <2>2 DEF TokenInv, InFlight, HoldsCopy, Stage
    <3>. QED
      BY <1>1, <3>1, <3>2 DEF NotStored
  <2>. QED
    BY <2>1, <2>2
<1>5. ASSUME NEW p \in Requests, HoldsCopy(p)'
      PROVE  req'[p].copy["token"] \in issued' \cup {0}
  BY <1>1, <1>2, <1>5 DEF TokenInv, HoldsCopy, Stage
<1>6. 0 \notin issued'
  BY <1>1 DEF TokenInv
<1>7. row'["token"] \in issued' \cup {0} /\ retired' \subseteq issued' \cup {0}
  BY <1>1 DEF TokenInv
<1>. QED
  BY <1>3, <1>4, <1>5, <1>6, <1>7 DEF TokenInv

(* What a save stores, and what it leaves. *)
LEMMA SaveFacts ==
  ASSUME AccountTypeOK, LateInv, NEW q \in Requests, WriteSaved(q)
  PROVE  /\ \A p \in Requests \ {q} : req'[p] = req[p]
         /\ ~InFlight(q)' /\ ~HoldsCopy(q)'
         /\ UNCHANGED <<twins, issued, held, lost>>
         /\ retired' = IF row'["token"] # row["token"] THEN retired \cup {row["token"]} ELSE retired
         /\ \/ row'["token"] = row["token"]
            \/ InFlight(q) /\ row'["token"] = req[q].token
            \/ HoldsCopy(q) /\ row'["token"] = req[q].copy["token"] /\ "token" \in late[q]
<1>1. /\ req[q] \in Request /\ LateOK(q) /\ "token" \in Columns /\ Stage(q) = "write"
      /\ "currency" \notin Signing
  BY RequestFields, LateSplit DEF Columns, WriteSaved, Signing
<1>2. ~InFlight(q)' /\ ~HoldsCopy(q)'
  BY WriteSavedFacts, NoRequestFields DEF InFlight, HoldsCopy, Stage
<1>3. row'["token"] = IF "token" \in req[q].diff THEN req[q].copy["token"] ELSE row["token"]
  BY <1>1, WriteSavedFacts
<1>4. ASSUME "token" \in req[q].diff
      PROVE  \/ InFlight(q) /\ req[q].copy["token"] = req[q].token
             \/ HoldsCopy(q) /\ "token" \in late[q]
  <2>1. CASE req[q].kind \in Signing
    BY <1>1, <2>1 DEF LateOK, StageFits, InFlight
  <2>2. CASE req[q].kind = "currency"
    BY <1>1, <1>4, <2>2 DEF LateOK, DiffIsLate, Assigned, HoldsCopy
  <2>3. CASE req[q].kind = "patch"
    <3>1. req[q].diff = {}
      BY <1>1, <2>3 DEF LateOK, DiffIsLate, Copied, Signing
    <3>. QED
      BY <1>4, <3>1
  <2>. QED
    BY <1>1, <2>1, <2>2, <2>3 DEF Request, Kinds
<1>5. UNCHANGED <<twins, issued, held, lost>>
  BY DEF WriteSaved
<1>6. retired' = IF row'["token"] # row["token"] THEN retired \cup {row["token"]} ELSE retired
  BY DEF WriteSaved
<1>. QED
  BY <1>2, <1>3, <1>4, <1>5, <1>6, WriteSavedFacts

LEMMA TokenSaved ==
  ASSUME AccountTypeOK, LateInv, TokenInv, NEW q \in Requests, WriteSaved(q)
  PROVE  TokenInv'
<1>1. ASSUME NEW p \in Requests, InFlight(p)'
      PROVE  req'[p].token \in issued' /\ (req'[p].token \in twins' \/ NotStored(p)')
  <2>1. p # q /\ req'[p] = req[p] /\ InFlight(p)
    BY <1>1, SaveFacts DEF InFlight, Stage
  <2>2. req[p].token \in issued /\ (req[p].token \in twins \/ NotStored(p))
    BY <2>1 DEF TokenInv
  <2>3. ASSUME NotStored(p)
        PROVE  NotStored(p)'
    <3>1. req[p].token # row["token"] /\ req[p].token \notin retired
      BY <2>3 DEF NotStored
    <3>2. /\ InFlight(q) => req[q].token # req[p].token
          /\ HoldsCopy(q) => req[q].copy["token"] # req[p].token
      BY <2>1, <2>3 DEF NotStored
    <3>3. req'[p].token # row'["token"] /\ req'[p].token \notin retired'
      BY <2>1, <3>1, <3>2, SaveFacts
    <3>4. ASSUME NEW r \in Requests \ {p}
          PROVE  /\ InFlight(r)' => req'[r].token # req'[p].token
                 /\ HoldsCopy(r)' => req'[r].copy["token"] # req'[p].token
      <4>1. CASE r = q
        BY <4>1, SaveFacts
      <4>2. CASE r # q
        <5>1. req'[r] = req[r]
          BY <4>2, SaveFacts
        <5>. QED
          BY <2>1, <2>3, <5>1 DEF NotStored, InFlight, HoldsCopy, Stage
      <4>. QED
        BY <4>1, <4>2
    <3>. QED
      BY <3>3, <3>4 DEF NotStored
  <2>. QED
    BY <2>1, <2>2, <2>3, SaveFacts
<1>2. ASSUME NEW p \in Requests, HoldsCopy(p)'
      PROVE  req'[p].copy["token"] \in issued' \cup {0}
  <2>1. p # q /\ req'[p] = req[p]
    BY <1>2, SaveFacts
  <2>. QED
    BY <1>2, <2>1, SaveFacts DEF TokenInv, HoldsCopy, Stage
<1>3. row'["token"] \in issued' \cup {0} /\ retired' \subseteq issued' \cup {0}
  BY SaveFacts DEF TokenInv
<1>4. 0 \notin issued'
  BY SaveFacts DEF TokenInv
<1>. QED
  BY <1>1, <1>2, <1>3, <1>4 DEF TokenInv

(* A step of one request leaves what the others carry. *)
LEMMA OthersCarry ==
  ASSUME AccountTypeOK, NEW q \in Requests, BeginRequest(q) \/ RequestStep(q)
  PROVE  \A p \in Requests \ {q} : req'[p] = req[p]
<1>1. ASSUME NEW x, req' = [req EXCEPT ![q] = x]
      PROVE  \A p \in Requests \ {q} : req'[p] = req[p]
  BY <1>1 DEF AccountTypeOK
<1>2. CASE BeginRequest(q) \/ Create(q)
  BY <1>2, BeginRequestFacts, CreateFacts
<1>3. CASE FindForLogin(q) \/ FindForRefresh(q) \/ FindForPatch(q) \/ Answer(q) \/ Fails(q)
  BY <1>1, <1>3, FindForLoginFacts, FindForRefreshFacts, FindForPatchFacts, AnswerFacts, FailsFacts
<1>4. CASE \/ FindForCurrency(q) \/ SignTokens(q) \/ ReadUser(q)
           \/ \E fiat \in Currencies : FindFiat(q, fiat)
  BY <1>4, FindForCurrencyFacts, SignTokensFacts, ReadUserFacts, FindFiatFacts
<1>5. CASE LoadForSave(q) \/ WriteSaved(q)
  BY <1>5, LoadForSaveFacts, WriteSavedFacts
<1>. QED
  BY <1>2, <1>3, <1>4, <1>5 DEF RequestStep

(* The steps that are nobody's request leave the token alone. *)
LEMMA OthersKeepToken ==
  ASSUME AccountTypeOK,
         \/ \E w \in Wallets : AddWallet(w) \/ DeleteWallet(w)
         \/ \E c \in StatusColumns, s \in Statuses : ReportStatus(c, s)
         \/ Tick
         \/ UNCHANGED accountVars
  PROVE  req' = req /\ row'["token"] = row["token"] /\ UNCHANGED tokens
<1>1. ASSUME NEW c \in StatusColumns, NEW s \in Statuses, ReportStatus(c, s)
      PROVE  req' = req /\ row'["token"] = row["token"] /\ UNCHANGED tokens
  <2>1. row \in Rows /\ c \in Columns /\ "token" \in Columns \ {c} /\ c # "currency"
    BY AccountAssumption DEF AccountTypeOK, Columns
  <2>2. row'["token"] = row["token"]
    BY <1>1, <2>1, RowAssigned DEF ReportStatus
  <2>. QED
    BY <1>1, <2>2 DEF ReportStatus
<1>2. CASE (\E w \in Wallets : AddWallet(w) \/ DeleteWallet(w)) \/ Tick \/ UNCHANGED accountVars
  BY <1>2 DEF AddWallet, DeleteWallet, Tick, accountVars, table
<1>. QED
  BY <1>1, <1>2

LEMMA TokenNext ==
  ASSUME AccountTypeOK, LateInv, TokenInv, [AccountNext]_accountVars
  PROVE  TokenInv'
<1>1. ASSUME NEW q \in Requests, BeginRequest(q) \/ RequestStep(q),
             ~FindForCurrency(q), ~SignTokens(q), ~WriteSaved(q)
      PROVE  TokenInv'
  <2>1. \A p \in Requests : Carries(p)
    BY <1>1, CarriesStep, CarriesSame, OthersCarry
  <2>. QED
    BY <1>1, <2>1, CarriesStep, TokenFrame
<1>2. ASSUME NEW q \in Requests, FindForCurrency(q) \/ SignTokens(q) \/ WriteSaved(q)
      PROVE  TokenInv'
  BY <1>2, TokenCurrency, TokenSigned, TokenSaved
<1>3. ASSUME \/ \E w \in Wallets : AddWallet(w) \/ DeleteWallet(w)
             \/ \E c \in StatusColumns, s \in Statuses : ReportStatus(c, s)
             \/ Tick
             \/ UNCHANGED accountVars
      PROVE  TokenInv'
  <2>1. req' = req /\ row'["token"] = row["token"] /\ UNCHANGED tokens
    BY <1>3, OthersKeepToken
  <2>2. \A p \in Requests : Carries(p)
    BY <2>1, CarriesSame
  <2>. QED
    BY <2>1, <2>2, TokenFrame DEF tokens
<1>. QED
  BY <1>1, <1>2, <1>3 DEF AccountNext, RequestNext

-------------------------------------------------------------------------------
LEMMA KnownInitially == AccountInit => KnownInv
<1> SUFFICES ASSUME AccountInit
             PROVE  KnownInv
  OBVIOUS
<1>1. row["token"] \in Known
  BY DEF AccountInit, Known
<1>2. ASSUME NEW q \in Requests
      PROVE  ~HoldsCopy(q)
  <2>1. req[q] = NoRequest
    BY DEF AccountInit
  <2>. QED
    BY <2>1, NoRequestFields DEF HoldsCopy, Stage
<1>. QED
  BY <1>1, <1>2 DEF KnownInv

LEMMA KnownFrame ==
  ASSUME KnownInv, Known \subseteq Known', row'["token"] = row["token"],
         \A p \in Requests : Carries(p)
  PROVE  KnownInv'
  BY DEF KnownInv, Carries

(* A known token stays known: a token about to be answered is answered, or  *)
(* its answer is lost.                                                      *)
LEMMA KnownGrows ==
  ASSUME AccountTypeOK, NEW q \in Requests, BeginRequest(q) \/ RequestStep(q)
  PROVE  Known \subseteq Known'
<1>1. ASSUME NEW p \in Requests \ {q}, Stage(p) = "answer"
      PROVE  req[p].token \in Answering'
  <2>1. req'[p] = req[p]
    BY OthersCarry
  <2>. QED
    BY <1>1, <2>1 DEF Answering, Stage
<1>2. held \subseteq held' /\ lost \subseteq lost'
  BY BeginRequestFacts DEF RequestStep, Create, FindForLogin, FindForRefresh, FindForCurrency,
     FindForPatch, SignTokens, ReadUser, FindFiat, LoadForSave, WriteSaved, Answer, Fails, tokens
<1>3. ASSUME Stage(q) = "answer"
      PROVE  req[q].token \in held' \cup lost'
  BY <1>3, BeginRequestFacts DEF RequestStep, Create, FindForLogin, FindForRefresh,
     FindForCurrency, FindForPatch, SignTokens, ReadUser, FindFiat, LoadForSave, WriteSaved,
     Answer, Fails
<1>. QED
  BY <1>1, <1>2, <1>3 DEF Known, Answering

LEMMA KnownNext ==
  ASSUME AccountTypeOK, LateInv, KnownInv, [AccountNext]_accountVars
  PROVE  KnownInv'
<1>1. ASSUME NEW q \in Requests, BeginRequest(q) \/ RequestStep(q),
             ~FindForCurrency(q), ~SignTokens(q), ~WriteSaved(q)
      PROVE  KnownInv'
  <2>1. \A p \in Requests : Carries(p)
    BY <1>1, CarriesStep, CarriesSame, OthersCarry
  <2>. QED
    BY <1>1, <2>1, CarriesStep, KnownGrows, KnownFrame
<1>2. ASSUME NEW q \in Requests, FindForCurrency(q)
      PROVE  KnownInv'
  <2>1. Known \subseteq Known'
    BY <1>2, KnownGrows DEF RequestStep
  <2>2. /\ row' = row /\ req'[q].copy = row
        /\ \A p \in Requests \ {q} : req'[p] = req[p]
    BY <1>2, FindForCurrencyFacts DEF FindForCurrency, table
  <2>. QED
    BY <2>1, <2>2 DEF KnownInv, HoldsCopy, Stage
<1>3. ASSUME NEW q \in Requests, SignTokens(q)
      PROVE  KnownInv'
  <2>1. Known \subseteq Known'
    BY <1>3, KnownGrows DEF RequestStep
  <2>2. row' = row /\ req'[q].stage = "read" /\ \A p \in Requests \ {q} : req'[p] = req[p]
    BY <1>3, SignTokensFacts DEF SignTokens, table
  <2>. QED
    BY <2>1, <2>2 DEF KnownInv, HoldsCopy, Stage
<1>4. ASSUME NEW q \in Requests, WriteSaved(q)
      PROVE  KnownInv'
  <2>1. Known \subseteq Known'
    BY <1>4, KnownGrows DEF RequestStep
  <2>2. ASSUME InFlight(q)
        PROVE  req[q].token \in Known'
    <3>1. req'[q].stage = "answer" /\ req'[q].token = req[q].token
      BY <1>4, <2>2, WriteSavedFacts DEF InFlight
    <3>. QED
      BY <3>1 DEF Known, Answering, Stage
  <2>3. row'["token"] \in Known'
    BY <1>4, <2>1, <2>2, SaveFacts DEF KnownInv
  <2>4. ASSUME NEW p \in Requests, HoldsCopy(p)'
        PROVE  req'[p].copy["token"] \in Known'
    <3>1. p # q /\ req'[p] = req[p]
      BY <1>4, <2>4, SaveFacts
    <3>. QED
      BY <2>1, <2>4, <3>1 DEF KnownInv, HoldsCopy, Stage
  <2>. QED
    BY <2>3, <2>4 DEF KnownInv
<1>5. ASSUME \/ \E w \in Wallets : AddWallet(w) \/ DeleteWallet(w)
             \/ \E c \in StatusColumns, s \in Statuses : ReportStatus(c, s)
             \/ Tick
             \/ UNCHANGED accountVars
      PROVE  KnownInv'
  <2>1. req' = req /\ row'["token"] = row["token"] /\ UNCHANGED tokens
    BY <1>5, OthersKeepToken
  <2>2. \A p \in Requests : Carries(p)
    BY <2>1, CarriesSame
  <2>3. Known \subseteq Known'
    BY <2>1 DEF Known, Answering, Stage, tokens
  <2>. QED
    BY <2>1, <2>2, <2>3, KnownFrame
<1>. QED
  BY <1>1, <1>2, <1>3, <1>4, <1>5 DEF AccountNext, RequestNext

-------------------------------------------------------------------------------
(* The inductive invariant: what requests know of the row, where each token *)
(* can be, and who knows the stored one.                                    *)
THEOREM AccountInductive == AccountSpec => []AccountIInv
<1>1. AccountInit => AccountIInv
  BY TypeInit, LateInit, TokenInitially, KnownInitially DEF AccountIInv
<1>2. AccountIInv /\ [AccountNext]_accountVars => AccountIInv'
  BY TypeNext, LateNext, TokenNext, KnownNext DEF AccountIInv
<1>. QED
  BY <1>1, <1>2, PTL DEF AccountSpec

(* The stored token is known to a client, about to be, or its answer was    *)
(* lost.                                                                    *)
THEOREM StoredTokenKnown == AccountSpec => []StoredTokenIsKnown
<1>1. AccountIInv => StoredTokenIsKnown
  BY DEF AccountIInv, KnownInv, StoredTokenIsKnown
<1>. QED
  BY <1>1, AccountInductive, PTL

(* A save takes back only what changed since its request's last read. *)
THEOREM SavesUndoLate == AccountSpec => SavesUndoOnlyLateChanges
<1>1. ASSUME AccountIInv, [AccountNext]_accountVars, NEW q \in Requests, Saves(q)
      PROVE  /\ \A c \in Columns \ Assigned(req[q].kind) : row'[c] # row[c] => c \in late[q]
             /\ \A w \in Wallets : wallet'[w] # wallet[w] => w \in late[q]
  <2>0. AccountTypeOK /\ LateOK(q) /\ Stage(q) = "write" /\ req'[q] # req[q]
    BY <1>1, LateSplit DEF AccountIInv, Saves, Stage
  <2>1. BeginRequest(q) \/ RequestStep(q)
    BY <1>1, <2>0, OthersCarry, OthersKeepToken DEF AccountNext, RequestNext
  <2>2. CASE WriteSaved(q)
    <3>1. req[q].diff \subseteq Assigned(req[q].kind) \cup late[q] /\ req[q].wallets \subseteq late[q]
      BY <2>0 DEF LateOK, DiffIsLate
    <3>2. \A c \in Columns : row'[c] # row[c] => c \in req[q].diff
      BY <2>0, <2>2, WriteSavedFacts
    <3>3. \A w \in Wallets : wallet'[w] # wallet[w] => w \in req[q].wallets
      BY <2>2 DEF WriteSaved
    <3>. QED
      BY <3>1, <3>2, <3>3
  <2>3. CASE ~WriteSaved(q)
    <3>1. UNCHANGED <<row, wallet>>
      BY <2>0, <2>1, <2>3, BeginRequestFacts DEF RequestStep, Create, FindForLogin,
         FindForRefresh, FindForCurrency, FindForPatch, SignTokens, ReadUser, FindFiat,
         LoadForSave, Answer, Fails, table
    <3>. QED
      BY <3>1
  <2>. QED
    BY <2>2, <2>3
<1>2. AccountIInv /\ [AccountNext]_accountVars =>
        [\A q \in Requests :
           Saves(q) =>
             /\ \A c \in Columns \ Assigned(req[q].kind) : row'[c] # row[c] => c \in late[q]
             /\ \A w \in Wallets : wallet'[w] # wallet[w] => w \in late[q]]_accountVars
  BY <1>1
<1>. QED
  BY <1>2, AccountInductive, PTL DEF AccountSpec, SavesUndoOnlyLateChanges

(* A replaced token stays dead, but for twins and late currency saves. *)
THEOREM RetiredStayDead == AccountSpec => RetiredTokensStayDead
<1>1. ASSUME AccountIInv, [AccountNext]_accountVars,
             row'["token"] # row["token"], row'["token"] \in retired
      PROVE  \/ row'["token"] \in twins
             \/ \E q \in Requests :
                  Saves(q) /\ req[q].kind = "currency" /\ "token" \in late[q]
  <2>0. AccountTypeOK /\ LateInv /\ TokenInv
    BY <1>1 DEF AccountIInv
  <2>1. PICK q \in Requests : BeginRequest(q) \/ RequestStep(q)
    BY <1>1, <2>0, OthersKeepToken DEF AccountNext, RequestNext
  <2>2. WriteSaved(q)
    BY <1>1, <2>0, <2>1, CarriesStep DEF FindForCurrency, SignTokens, table
  <2>3. CASE InFlight(q) /\ row'["token"] = req[q].token
    BY <1>1, <2>0, <2>3 DEF TokenInv, NotStored
  <2>4. CASE HoldsCopy(q) /\ "token" \in late[q]
    <3>1. req[q].kind = "currency" /\ Stage(q) = "write" /\ req'[q] = NoRequest
      BY <2>0, <2>2, <2>4, WriteSavedFacts DEF HoldsCopy, WriteSaved, Signing
    <3>2. Saves(q)
      BY <3>1, NoRequestFields DEF Saves, Stage
    <3>. QED
      BY <2>4, <3>1, <3>2
  <2>. QED
    BY <1>1, <2>0, <2>2, <2>3, <2>4, SaveFacts
<1>2. AccountIInv /\ [AccountNext]_accountVars =>
        [row'["token"] # row["token"] /\ row'["token"] \in retired =>
           \/ row'["token"] \in twins
           \/ \E q \in Requests :
                Saves(q) /\ req[q].kind = "currency" /\ "token" \in late[q]]_accountVars
  BY <1>1
<1>. QED
  BY <1>2, AccountInductive, PTL DEF AccountSpec, RetiredTokensStayDead

-------------------------------------------------------------------------------
(* The statuses of the user's transactions and analytics.                  *)

LEMMA NoInitFields ==
  /\ NoInit \in InitRequest
  /\ NoInit.stage = "idle" /\ NoInit.left = {}
BY StatusesAssumption DEF NoInit, InitRequest

(* What continuing leaves of an init. *)
LEMMA Continues ==
  ASSUME init \in [Inits -> InitRequest],
         NEW i \in Inits, NEW left \in SUBSET Groups, Continue(i, left)
  PROVE  /\ init' \in [Inits -> InitRequest]
         /\ \A j \in Inits \ {i} : init'[j] = init[j]
         /\ left = {} => init'[i].stage = "idle"
         /\ left # {} => /\ init'[i].stage = "next" /\ init'[i].left = left
                         /\ init'[i].column = init[i].column
<1> DEFINE x == [init[i] EXCEPT !.stage = "next", !.left = left]
<1>1. /\ x \in InitRequest
      /\ x.stage = "next" /\ x.left = left /\ x.column = init[i].column
  BY DEF InitRequest
<1>. HIDE DEF x
<1>2. init' = [init EXCEPT ![i] = IF left = {} THEN NoInit ELSE x]
  BY DEF Continue, x
<1>. QED
  BY <1>1, <1>2, NoInitFields

(* What the status of a column is after a report. *)
LEMMA Reported ==
  ASSUME AccountTypeOK, NEW c \in StatusColumns, NEW s \in Statuses, ReportStatus(c, s)
  PROVE  row'[c] = s /\ \A d \in StatusColumns \ {c} : row'[d] = row[d]
<1>1. c \in Columns /\ c # "token" /\ c # "currency"
  BY AccountAssumption DEF Columns
<1>2. row \in Rows /\ row' = [row EXCEPT ![c] = s]
  BY DEF AccountTypeOK, ReportStatus
<1>3. StatusColumns \subseteq Columns
  BY DEF Columns
<1>. QED
  BY <1>1, <1>2, <1>3, RowAssigned

-------------------------------------------------------------------------------
(* What is not the account's. *)
LEMMA TypesStep ==
  ASSUME StatusesTypeOK, [StatusesNext]_statusVars
  PROVE  StatusesTypeOK'
<1>. USE NoInitFields DEF StatusesTypeOK
<1>1. CASE AccountStep
  BY <1>1 DEF AccountStep
<1>2. ASSUME NEW i \in Inits, BeginTxsInit(i) \/ BeginAnalyticsInit(i)
      PROVE  StatusesTypeOK'
  <2>1. PICK c \in StatusColumns, stage \in {"guard", "wallets"} :
          /\ init' = [init EXCEPT ![i] = [NoInit EXCEPT !.column = c, !.stage = stage]]
          /\ calm' = [calm EXCEPT ![c] = @ /\ ~Overlaps(i, c)]
          /\ stage = "guard" => c = "analytics"
    BY <1>2, StatusesAssumption DEF BeginTxsInit, BeginAnalyticsInit
  <2>2. [NoInit EXCEPT !.column = c, !.stage = stage] \in InitRequest
    BY DEF InitRequest
  <2>3. init' \in [Inits -> InitRequest]
    BY <2>1, <2>2
  <2>4. calm' \in [StatusColumns -> BOOLEAN]
    BY <2>1, Zenon
  <2>5. init'[i].stage = "guard" => init'[i].column = "analytics"
    BY <2>1 DEF NoInit
  <2>6. \A j \in Inits \ {i} : init'[j] = init[j]
    BY <2>1
  <2>. QED
    BY <1>2, <2>3, <2>4, <2>5, <2>6 DEF BeginTxsInit, BeginAnalyticsInit
<1>3. ASSUME NEW i \in Inits, SecondGuard(i)
      PROVE  StatusesTypeOK'
  BY <1>3 DEF SecondGuard, InitRequest
<1>4. ASSUME NEW i \in Inits, FindWallets(i)
      PROVE  StatusesTypeOK'
  <2> DEFINE left == IF init[i].column = "txs" THEN {GroupOf[w] : w \in Own}
                     ELSE IF Own = {} THEN {} ELSE {"EVM"}
  <2>1. left \in SUBSET Groups /\ Continue(i, left)
    BY <1>4 DEF FindWallets, Groups, Own
  <2>. QED
    BY <1>4, <2>1, Continues DEF FindWallets
<1>5. ASSUME NEW i \in Inits, NEW group \in Groups, SetLoading(i, group)
      PROVE  StatusesTypeOK'
  <2>1. init[i].left \ {group} \in SUBSET Groups
    BY DEF InitRequest
  <2>2. CASE group = "EVM"
    <3>1. init' = [init EXCEPT ![i].stage = "send", ![i].left = @ \ {group}]
      BY <1>5, <2>2 DEF SetLoading
    <3>2. init' \in [Inits -> InitRequest]
      BY <2>1, <3>1 DEF InitRequest
    <3>3. \A j \in Inits : init'[j].stage = "guard" => init'[j] = init[j]
      BY <3>1 DEF InitRequest
    <3>. QED
      BY <1>5, <3>2, <3>3 DEF SetLoading
  <2>3. CASE group # "EVM"
    BY <1>5, <2>1, <2>3, Continues DEF SetLoading
  <2>. QED
    BY <2>2, <2>3
<1>6. ASSUME NEW i \in Inits, HandOver(i)
      PROVE  StatusesTypeOK'
  <2>1. init[i].left \in SUBSET Groups /\ init[i].column \in StatusColumns
    BY DEF InitRequest
  <2>2. jobs' \in [StatusColumns -> 0..MaxJobs]
    BY <1>6, <2>1, StatusesAssumption DEF HandOver
  <2>. QED
    BY <1>6, <2>1, <2>2, Continues DEF HandOver
<1>7. ASSUME NEW i \in Inits, FindDown(i)
      PROVE  StatusesTypeOK'
  BY <1>7 DEF FindDown, InitRequest
<1>8. ASSUME NEW i \in Inits, SetErrorMicroserviceDown(i) \/ InitFails(i)
      PROVE  StatusesTypeOK'
  BY <1>8 DEF SetErrorMicroserviceDown, InitFails
<1>9. ASSUME NEW c \in StatusColumns, NEW s \in Statuses, EndJob(c, s)
      PROVE  StatusesTypeOK'
  <2>1. jobs' \in [StatusColumns -> 0..MaxJobs]
    BY <1>9, StatusesAssumption DEF EndJob
  <2>. QED
    BY <1>9, <2>1 DEF EndJob
<1>10. CASE UNCHANGED statusVars
  BY <1>10 DEF statusVars, initVars
<1>. QED
  BY <1>1, <1>2, <1>3, <1>4, <1>5, <1>6, <1>7, <1>8, <1>9, <1>10 DEF StatusesNext, InitStep

(* Type correctness of the init requests, the jobs and the histories. *)
THEOREM StatusesTypeCorrect == StatusesSpec => []StatusesTypeOK
<1>1. StatusesInit => StatusesTypeOK
  BY NoInitFields, StatusesAssumption DEF StatusesInit, StatusesTypeOK
<1>2. StatusesTypeOK /\ [StatusesNext]_statusVars => StatusesTypeOK'
  BY TypesStep
<1>. QED
  BY <1>1, <1>2, PTL DEF StatusesSpec

(* The inits and the microservices change the account only by reporting a    *)
(* status: the specification with them implements the one without.           *)
THEOREM StatusesImplementAccount == StatusesSpec => AccountSpec
<1>1. StatusesInit => AccountInit
  BY DEF StatusesInit
<1>2. ASSUME StatusesTypeOK, [StatusesNext]_statusVars
      PROVE  [AccountNext]_accountVars
  <2>1. CASE AccountStep
    BY <2>1 DEF AccountStep, AccountNext
  <2>2. ASSUME NEW i \in Inits, NEW group \in Groups, SetLoading(i, group)
        PROVE  AccountNext
    <3>1. init[i].column \in StatusColumns /\ "IS_INITING" \in Statuses
      BY <1>2, StatusesAssumption DEF StatusesTypeOK, InitRequest
    <3>. QED
      BY <2>2, <3>1 DEF SetLoading, AccountNext
  <2>3. ASSUME NEW i \in Inits, SetErrorMicroserviceDown(i)
        PROVE  AccountNext
    <3>1. init[i].column \in StatusColumns /\ "ERROR" \in Statuses
      BY <1>2, StatusesAssumption DEF StatusesTypeOK, InitRequest
    <3>. QED
      BY <2>3, <3>1 DEF SetErrorMicroserviceDown, AccountNext
  <2>4. ASSUME NEW c \in StatusColumns, NEW s \in Statuses, EndJob(c, s)
        PROVE  AccountNext
    BY <2>4 DEF EndJob, AccountNext
  <2>5. ASSUME NEW i \in Inits,
               \/ BeginTxsInit(i) \/ BeginAnalyticsInit(i) \/ SecondGuard(i)
               \/ FindWallets(i) \/ HandOver(i) \/ FindDown(i) \/ InitFails(i)
        PROVE  UNCHANGED accountVars
    BY <2>5 DEF BeginTxsInit, BeginAnalyticsInit, SecondGuard, FindWallets, HandOver,
       FindDown, InitFails
  <2>6. CASE UNCHANGED statusVars
    BY <2>6 DEF statusVars
  <2>. QED
    BY <1>2, <2>1, <2>2, <2>3, <2>4, <2>5, <2>6 DEF StatusesNext, InitStep
<1>3. StatusesTypeOK /\ [StatusesNext]_statusVars => [AccountNext]_accountVars
  BY <1>2
<1>. QED
  BY <1>1, <1>3, StatusesTypeCorrect, PTL DEF StatusesSpec, AccountSpec

-------------------------------------------------------------------------------
(* Who has a column in hand still has it when the step was not his. *)
LEMMA StillSettles ==
  ASSUME NEW c \in StatusColumns, NEW j \in Inits, WillSettle(j, c), init'[j] = init[j]
  PROVE  WillSettle(j, c)'
BY DEF WillSettle

(* A step that leaves the column, its jobs and its blame alone, and is not    *)
(* that of an init that has it in hand, leaves the column its cause.          *)
LEMMA CauseKept ==
  ASSUME InitingHasCause, NEW c \in StatusColumns,
         row'[c] = row[c], jobs'[c] = jobs[c], blame'[c] = blame[c],
         NEW i \in Inits, ~WillSettle(i, c),
         \A j \in Inits \ {i} : init'[j] = init[j],
         row'[c] = "IS_INITING"
  PROVE  \/ \E j \in Inits : WillSettle(j, c)'
         \/ jobs'[c] > 0
         \/ blame'[c] # "none"
BY StillSettles DEF InitingHasCause

LEMMA CauseStep ==
  ASSUME AccountTypeOK, StatusesTypeOK, InitingHasCause, [StatusesNext]_statusVars,
         NEW c \in StatusColumns, row'[c] = "IS_INITING"
  PROVE  \/ \E j \in Inits : WillSettle(j, c)'
         \/ jobs'[c] > 0
         \/ blame'[c] # "none"
<1>. USE DEF StatusesTypeOK
<1>. DEFINE Goal == \/ \E j \in Inits : WillSettle(j, c)'
                    \/ jobs'[c] > 0
                    \/ blame'[c] # "none"
<1>1. CASE AccountStep
  BY <1>1, StillSettles DEF AccountStep, InitingHasCause
<1>2. ASSUME NEW i \in Inits, BeginTxsInit(i) \/ BeginAnalyticsInit(i)
      PROVE  Goal
  <2>1. ~WillSettle(i, c) /\ \A j \in Inits \ {i} : init'[j] = init[j]
    BY <1>2 DEF BeginTxsInit, BeginAnalyticsInit, WillSettle
  <2>2. UNCHANGED <<row, jobs, blame>>
    BY <1>2 DEF BeginTxsInit, BeginAnalyticsInit, accountVars, table
  <2>. QED
    BY <2>1, <2>2, CauseKept
<1>3. ASSUME NEW i \in Inits, SecondGuard(i)
      PROVE  Goal
  <2>1. ~WillSettle(i, c) /\ \A j \in Inits \ {i} : init'[j] = init[j]
    BY <1>3 DEF SecondGuard, WillSettle
  <2>2. UNCHANGED <<row, jobs, blame>>
    BY <1>3 DEF SecondGuard, accountVars, table
  <2>. QED
    BY <2>1, <2>2, CauseKept
<1>4. ASSUME NEW i \in Inits, FindWallets(i)
      PROVE  Goal
  <2>1. ~WillSettle(i, c) /\ \A j \in Inits \ {i} : init'[j] = init[j]
    BY <1>4 DEF FindWallets, Continue, WillSettle
  <2>2. UNCHANGED <<row, jobs, blame>>
    BY <1>4 DEF FindWallets, accountVars, table
  <2>. QED
    BY <2>1, <2>2, CauseKept
<1>5. ASSUME NEW i \in Inits, NEW group \in Groups, SetLoading(i, group)
      PROVE  Goal
  <2>0. init[i].column \in StatusColumns /\ init[i].left \in SUBSET Groups
        /\ "IS_INITING" \in Statuses
    BY StatusesAssumption DEF InitRequest
  <2>1. CASE init[i].column # c
    <3>1. row'[c] = row[c]
      BY <1>5, <2>0, <2>1, Reported DEF SetLoading
    <3>2. ~WillSettle(i, c) /\ \A j \in Inits \ {i} : init'[j] = init[j]
      BY <1>5, <2>1 DEF SetLoading, Continue, WillSettle
    <3>3. jobs'[c] = jobs[c] /\ blame'[c] = blame[c]
      BY <1>5, <2>1 DEF SetLoading
    <3>. QED
      BY <3>1, <3>2, <3>3, CauseKept
  <2>2. CASE init[i].column = c /\ "EVM" \notin init[i].left
    BY <1>5, <2>2 DEF SetLoading
  <2>3. CASE init[i].column = c /\ group = "EVM"
    <3>1. init'[i] = [init[i] EXCEPT !.stage = "send", !.left = @ \ {group}]
      BY <1>5, <2>3 DEF SetLoading
    <3>2. init'[i].stage = "send" /\ init'[i].column = c
      BY <2>3, <3>1 DEF InitRequest
    <3>. QED
      BY <3>2 DEF WillSettle
  <2>4. CASE init[i].column = c /\ group # "EVM" /\ "EVM" \in init[i].left
    <3>1. Continue(i, init[i].left \ {group})
      BY <1>5, <2>4 DEF SetLoading
    <3>2. /\ init[i].left \ {group} \in SUBSET Groups
          /\ "EVM" \in init[i].left \ {group}
      BY <2>0, <2>4
    <3>3. init'[i].stage = "next" /\ "EVM" \in init'[i].left /\ init'[i].column = c
      BY <2>4, <3>1, <3>2, Continues
    <3>. QED
      BY <3>3 DEF WillSettle
  <2>. QED
    BY <2>1, <2>2, <2>3, <2>4
<1>6. ASSUME NEW i \in Inits, HandOver(i)
      PROVE  Goal
  <2>0. init[i].column \in StatusColumns
    BY DEF InitRequest
  <2>1. CASE init[i].column = c
    <3>1. jobs'[c] = jobs[c] + 1 /\ jobs[c] \in 0..MaxJobs
      BY <1>6, <2>1 DEF HandOver
    <3>. QED
      BY <3>1, StatusesAssumption
  <2>2. CASE init[i].column # c
    <3>1. ~WillSettle(i, c) /\ \A j \in Inits \ {i} : init'[j] = init[j]
      BY <1>6, <2>2 DEF HandOver, Continue, WillSettle
    <3>2. row'[c] = row[c] /\ jobs'[c] = jobs[c] /\ blame'[c] = blame[c]
      BY <1>6, <2>0, <2>2 DEF HandOver, accountVars, table
    <3>. QED
      BY <3>1, <3>2, CauseKept
  <2>. QED
    BY <2>1, <2>2
<1>7. ASSUME NEW i \in Inits, FindDown(i)
      PROVE  Goal
  <2>1. CASE init[i].column = c
    <3>1. init'[i] = [init[i] EXCEPT !.stage = "down"]
      BY <1>7 DEF FindDown
    <3>2. init'[i].stage = "down" /\ init'[i].column = c
      BY <2>1, <3>1 DEF InitRequest
    <3>. QED
      BY <3>2 DEF WillSettle
  <2>2. CASE init[i].column # c
    <3>1. ~WillSettle(i, c) /\ \A j \in Inits \ {i} : init'[j] = init[j]
      BY <1>7, <2>2 DEF FindDown, WillSettle
    <3>2. UNCHANGED <<row, jobs, blame>>
      BY <1>7 DEF FindDown, accountVars, table
    <3>. QED
      BY <3>1, <3>2, CauseKept
  <2>. QED
    BY <2>1, <2>2
<1>8. ASSUME NEW i \in Inits, SetErrorMicroserviceDown(i)
      PROVE  Goal
  <2>0. init[i].column \in StatusColumns /\ "ERROR" \in Statuses
    BY StatusesAssumption DEF InitRequest
  <2>1. init[i].column # c /\ row'[c] = row[c]
    BY <1>8, <2>0, Reported DEF SetErrorMicroserviceDown
  <2>2. ~WillSettle(i, c) /\ \A j \in Inits \ {i} : init'[j] = init[j]
    BY <1>8, <2>1 DEF SetErrorMicroserviceDown, WillSettle
  <2>3. jobs'[c] = jobs[c] /\ blame'[c] = blame[c]
    BY <1>8, <2>1 DEF SetErrorMicroserviceDown
  <2>. QED
    BY <2>1, <2>2, <2>3, CauseKept
<1>9. ASSUME NEW i \in Inits, InitFails(i)
      PROVE  Goal
  <2>1. row'[c] = row[c] /\ jobs'[c] = jobs[c] /\ \A j \in Inits \ {i} : init'[j] = init[j]
    BY <1>9 DEF InitFails, accountVars, table
  <2>2. CASE WillSettle(i, c)
    BY <1>9, <2>1, <2>2 DEF InitFails
  <2>3. CASE ~WillSettle(i, c)
    BY <1>9, <2>1, <2>3, CauseKept DEF InitFails
  <2>. QED
    BY <2>2, <2>3
<1>10. ASSUME NEW d \in StatusColumns, NEW s \in Statuses, EndJob(d, s)
       PROVE  Goal
  <2>1. d # c /\ row'[c] = row[c]
    BY <1>10, Reported DEF EndJob
  <2>2. UNCHANGED init /\ jobs'[c] = jobs[c] /\ blame'[c] = blame[c]
    BY <1>10, <2>1 DEF EndJob
  <2>. QED
    BY <2>1, <2>2, StillSettles DEF InitingHasCause
<1>11. CASE UNCHANGED statusVars
  BY <1>11, StillSettles DEF statusVars, initVars, accountVars, table, InitingHasCause
<1>. QED
  BY <1>1, <1>2, <1>3, <1>4, <1>5, <1>6, <1>7, <1>8, <1>9, <1>10, <1>11
     DEF StatusesNext, InitStep

(* Nobody waits on IS_INITING in vain, but for the three reasons. *)
THEOREM InitingCause == StatusesSpec => []InitingHasCause
<1>1. StatusesInit => InitingHasCause
  BY DEF StatusesInit, InitingHasCause
<1>2. AccountTypeOK /\ StatusesTypeOK /\ InitingHasCause /\ [StatusesNext]_statusVars
        => InitingHasCause'
  BY CauseStep DEF InitingHasCause
<1>. QED
  BY <1>1, <1>2, StatusesTypeCorrect, StatusesImplementAccount, AccountTypeCorrect,
     PTL DEF StatusesSpec

-------------------------------------------------------------------------------
(* What CalmInv says of one column. *)
CalmColumn(c) ==
  /\ jobs[c] <= 1
  /\ jobs[c] = 1 => row[c] = "IS_INITING"
  /\ \A i \in Inits : Active(i, c) => CalmInit(i, c)

LEMMA CalmByColumn ==
  CalmInv <=> \A c \in StatusColumns : calm[c] => CalmColumn(c)
BY DEF CalmInv, CalmInitsDoNotDouble, CalmColumn

(* A step of an init that nobody overlaps, or that leaves the column alone. *)
LEMMA CalmKept ==
  ASSUME NEW c \in StatusColumns, CalmColumn(c), NEW i \in Inits,
         \A j \in Inits \ {i} : init'[j] = init[j],
         \/ Active(i, c)
         \/ ~Overlaps(i, c)
         \/ ~Active(i, c)' /\ row'[c] = row[c] /\ jobs'[c] = jobs[c],
         jobs'[c] <= 1,
         jobs'[c] = 1 => row'[c] = "IS_INITING",
         Active(i, c)' /\ BeforeJob(i)' => jobs'[c] = 0,
         Active(i, c)' /\ init'[i].stage = "send" =>
           row'[c] = "IS_INITING" /\ "EVM" \notin init'[i].left
  PROVE  CalmColumn(c)'
<1>1. ASSUME NEW j \in Inits \ {i}
      PROVE  Active(j, c)' <=> Active(j, c)
  BY DEF Active
<1>2. CASE ~Overlaps(i, c)
  <2>1. \A j \in Inits \ {i} : ~Active(j, c)'
    BY <1>1, <1>2 DEF Overlaps
  <2>2. ~Overlaps(i, c)'
    BY <2>1 DEF Overlaps
  <2>. QED
    BY <2>1, <2>2 DEF CalmColumn, CalmInit
<1>3. CASE ~Active(i, c)' /\ row'[c] = row[c] /\ jobs'[c] = jobs[c]
  <2>1. ASSUME NEW j \in Inits, Active(j, c)'
        PROVE  CalmInit(j, c)'
    <3>1. j # i /\ Active(j, c) /\ CalmInit(j, c) /\ init'[j] = init[j]
      BY <1>1, <1>3, <2>1 DEF CalmColumn
    <3>2. ~Overlaps(j, c)'
      BY <1>1, <1>3, <3>1 DEF CalmInit, Overlaps
    <3>. QED
      BY <1>3, <3>1, <3>2 DEF CalmInit, BeforeJob
  <2>. QED
    BY <2>1 DEF CalmColumn
<1>. QED
  BY <1>2, <1>3 DEF CalmColumn, CalmInit

(* The column of another init is left alone. *)
LEMMA CalmElsewhere ==
  ASSUME NEW c \in StatusColumns, CalmColumn(c), NEW i \in Inits,
         \A j \in Inits \ {i} : init'[j] = init[j],
         ~Active(i, c)', row'[c] = row[c], jobs'[c] = jobs[c]
  PROVE  CalmColumn(c)'
BY CalmKept DEF CalmColumn

LEMMA CalmStep ==
  ASSUME AccountTypeOK, StatusesTypeOK, [StatusesNext]_statusVars,
         NEW c \in StatusColumns, calm[c] => CalmColumn(c), calm'[c]
  PROVE  CalmColumn(c)'
<1>. USE DEF StatusesTypeOK
<1>1. CASE AccountStep
  <2>1. calm[c] /\ row'[c] = row[c] /\ UNCHANGED <<init, jobs>>
    BY <1>1, Zenon DEF AccountStep
  <2>. QED
    BY <2>1 DEF CalmColumn, CalmInit, Active, Overlaps, BeforeJob
<1>2. ASSUME NEW i \in Inits, BeginTxsInit(i) \/ BeginAnalyticsInit(i)
      PROVE  CalmColumn(c)'
  <2>1. PICK d \in StatusColumns, stage \in {"guard", "wallets"} :
          /\ init' = [init EXCEPT ![i] = [NoInit EXCEPT !.column = d, !.stage = stage]]
          /\ calm' = [calm EXCEPT ![d] = @ /\ ~Overlaps(i, d)]
          /\ stage = "wallets" => row[d] # "IS_INITING"
    BY <1>2, StatusesAssumption DEF BeginTxsInit, BeginAnalyticsInit
  <2>2. calm[c] /\ (d = c => ~Overlaps(i, c))
    BY <2>1, Zenon
  <2>3. UNCHANGED <<row, jobs>> /\ \A j \in Inits \ {i} : init'[j] = init[j]
    BY <1>2 DEF BeginTxsInit, BeginAnalyticsInit, accountVars, table
  <2>4. init'[i].column = d /\ init'[i].stage = stage
    BY <2>1 DEF NoInit
  <2>5. jobs[c] \in Nat /\ CalmColumn(c)
    BY <2>2, StatusesAssumption
  <2>6. CASE d = c
    <3>1. BeforeJob(i)' => jobs[c] = 0
      BY <2>1, <2>4, <2>5, <2>6 DEF BeforeJob, CalmColumn
    <3>. QED
      BY <2>1, <2>2, <2>3, <2>4, <2>5, <2>6, <3>1, CalmKept DEF CalmColumn
  <2>7. CASE d # c
    BY <2>3, <2>4, <2>5, <2>7, CalmElsewhere DEF Active
  <2>. QED
    BY <2>6, <2>7
<1>3. ASSUME NEW i \in Inits, SecondGuard(i)
      PROVE  CalmColumn(c)'
  <2>1. UNCHANGED <<row, jobs, calm>> /\ \A j \in Inits \ {i} : init'[j] = init[j]
    BY <1>3 DEF SecondGuard, accountVars, table
  <2>2. jobs[c] \in Nat /\ CalmColumn(c)
    BY <2>1, StatusesAssumption
  <2>3. \/ init'[i].stage = "idle"
        \/ init'[i].stage = "wallets" /\ init'[i].column = init[i].column
    BY <1>3, NoInitFields DEF SecondGuard, InitRequest
  <2>4. CASE ~Active(i, c)'
    BY <2>1, <2>2, <2>4, CalmElsewhere
  <2>5. CASE Active(i, c)'
    <3>1. Active(i, c)
      BY <1>3, <2>3, <2>5 DEF Active, SecondGuard
    <3>2. c = "analytics" /\ row[c] # "IS_INITING"
      BY <1>3, <2>3, <2>5, NoInitFields DEF Active, SecondGuard
    <3>3. jobs[c] = 0
      BY <2>2, <3>2, StatusesAssumption DEF CalmColumn
    <3>. QED
      BY <2>1, <2>2, <2>3, <2>5, <3>1, <3>3, CalmKept DEF Active, CalmColumn
  <2>. QED
    BY <2>4, <2>5
<1>4. ASSUME NEW i \in Inits, FindWallets(i)
      PROVE  CalmColumn(c)'
  <2>. DEFINE left == IF init[i].column = "txs" THEN {GroupOf[w] : w \in Own}
                      ELSE IF Own = {} THEN {} ELSE {"EVM"}
  <2>1. left \in SUBSET Groups /\ Continue(i, left)
    BY <1>4 DEF FindWallets, Groups, Own
  <2>2. UNCHANGED <<row, jobs, calm>> /\ \A j \in Inits \ {i} : init'[j] = init[j]
    BY <1>4 DEF FindWallets, Continue, accountVars, table
  <2>3. \/ init'[i].stage = "idle"
        \/ init'[i].stage = "next" /\ init'[i].column = init[i].column
    BY <2>1, Continues
  <2>4. CASE ~Active(i, c)'
    BY <2>2, <2>4, CalmElsewhere
  <2>5. CASE Active(i, c)'
    <3>1. Active(i, c) /\ jobs[c] = 0
      BY <1>4, <2>2, <2>3, <2>5 DEF Active, FindWallets, CalmColumn, CalmInit, BeforeJob
    <3>. QED
      BY <2>2, <2>3, <2>5, <3>1, CalmKept DEF Active, CalmColumn
  <2>. QED
    BY <2>4, <2>5
<1>5. ASSUME NEW i \in Inits, NEW group \in Groups, SetLoading(i, group)
      PROVE  CalmColumn(c)'
  <2>0. init[i].column \in StatusColumns /\ init[i].left \in SUBSET Groups
        /\ "IS_INITING" \in Statuses
    BY StatusesAssumption DEF InitRequest
  <2>1. UNCHANGED <<jobs, calm>> /\ \A j \in Inits \ {i} : init'[j] = init[j]
    BY <1>5 DEF SetLoading, Continue
  <2>2. CalmColumn(c) /\ jobs[c] \in Nat
    BY <2>1, StatusesAssumption
  <2>3. /\ group = "EVM" => /\ init'[i].stage = "send" /\ "EVM" \notin init'[i].left
                            /\ init'[i].column = init[i].column
        /\ group # "EVM" =>
             \/ init'[i].stage = "idle"
             \/ /\ init'[i].stage = "next" /\ init'[i].column = init[i].column
                /\ init'[i].left = init[i].left \ {group}
    <3>1. CASE group = "EVM"
      <4>1. init'[i] = [init[i] EXCEPT !.stage = "send", !.left = @ \ {group}]
        BY <1>5, <3>1 DEF SetLoading
      <4>. QED
        BY <3>1, <4>1 DEF InitRequest
    <3>2. CASE group # "EVM"
      <4>1. Continue(i, init[i].left \ {group}) /\ init[i].left \ {group} \in SUBSET Groups
        BY <1>5, <2>0, <3>2 DEF SetLoading
      <4>. QED
        BY <3>2, <4>1, Continues
    <3>. QED
      BY <3>1, <3>2
  <2>4. CASE init[i].column # c
    <3>1. row'[c] = row[c] /\ jobs'[c] = jobs[c]
      BY <1>5, <2>0, <2>1, <2>4, Reported DEF SetLoading
    <3>2. ~Active(i, c)'
      BY <2>3, <2>4 DEF Active
    <3>. QED
      BY <2>1, <2>2, <3>1, <3>2, CalmElsewhere
  <2>5. CASE init[i].column = c
    <3>1. row'[c] = "IS_INITING"
      BY <1>5, <2>0, <2>5, Reported DEF SetLoading
    <3>2. Active(i, c) /\ CalmInit(i, c)
      BY <1>5, <2>2, <2>5 DEF SetLoading, Active, CalmColumn
    <3>3. BeforeJob(i)' => BeforeJob(i)
      BY <1>5, <2>3 DEF SetLoading, BeforeJob
    <3>. QED
      BY <2>1, <2>2, <2>3, <3>1, <3>2, <3>3, CalmKept DEF CalmColumn, CalmInit
  <2>. QED
    BY <2>4, <2>5
<1>6. ASSUME NEW i \in Inits, HandOver(i)
      PROVE  CalmColumn(c)'
  <2>0. init[i].column \in StatusColumns /\ init[i].left \in SUBSET Groups
    BY DEF InitRequest
  <2>1. UNCHANGED <<row, calm>> /\ \A j \in Inits \ {i} : init'[j] = init[j]
    BY <1>6 DEF HandOver, Continue, accountVars, table
  <2>2. CalmColumn(c) /\ jobs[c] \in Nat
    BY <2>1, StatusesAssumption
  <2>3. \/ init'[i].stage = "idle"
        \/ /\ init'[i].stage = "next" /\ init'[i].column = init[i].column
           /\ init'[i].left = init[i].left
    BY <1>6, <2>0, Continues DEF HandOver
  <2>4. CASE init[i].column # c
    <3>1. ~Active(i, c)' /\ jobs'[c] = jobs[c]
      BY <1>6, <2>0, <2>3, <2>4 DEF Active, HandOver
    <3>. QED
      BY <2>1, <2>2, <3>1, CalmElsewhere
  <2>5. CASE init[i].column = c
    <3>1. Active(i, c) /\ CalmInit(i, c) /\ init[i].stage = "send"
      BY <1>6, <2>2, <2>5 DEF HandOver, Active, CalmColumn
    <3>2. row'[c] = "IS_INITING" /\ "EVM" \notin init[i].left /\ jobs[c] = 0
      BY <2>1, <3>1 DEF CalmInit, BeforeJob
    <3>3. jobs'[c] = 1
      BY <1>6, <2>5, <3>2 DEF HandOver
    <3>4. ~BeforeJob(i)' /\ init'[i].stage # "send"
      BY <2>3, <3>2 DEF BeforeJob
    <3>. QED
      BY <2>1, <2>2, <3>1, <3>2, <3>3, <3>4, CalmKept
  <2>. QED
    BY <2>4, <2>5
<1>7. ASSUME NEW i \in Inits, FindDown(i)
      PROVE  CalmColumn(c)'
  <2>1. UNCHANGED <<row, jobs, calm>> /\ \A j \in Inits \ {i} : init'[j] = init[j]
    BY <1>7 DEF FindDown, accountVars, table
  <2>2. CalmColumn(c)
    BY <2>1
  <2>3. init'[i].stage = "down" /\ init'[i].column = init[i].column
    BY <1>7 DEF FindDown, InitRequest
  <2>4. CASE init[i].column # c
    BY <2>1, <2>2, <2>3, <2>4, CalmElsewhere DEF Active
  <2>5. CASE init[i].column = c
    <3>1. Active(i, c) /\ CalmInit(i, c) /\ BeforeJob(i)
      BY <1>7, <2>2, <2>5 DEF FindDown, Active, CalmColumn, BeforeJob
    <3>. QED
      BY <2>1, <2>2, <2>3, <3>1, CalmKept DEF CalmColumn, CalmInit
  <2>. QED
    BY <2>4, <2>5
<1>8. ASSUME NEW i \in Inits, SetErrorMicroserviceDown(i)
      PROVE  CalmColumn(c)'
  <2>0. init[i].column \in StatusColumns /\ "ERROR" \in Statuses
    BY StatusesAssumption DEF InitRequest
  <2>1. UNCHANGED <<jobs, calm>> /\ \A j \in Inits \ {i} : init'[j] = init[j]
    BY <1>8 DEF SetErrorMicroserviceDown
  <2>2. CalmColumn(c) /\ ~Active(i, c)'
    BY <1>8, <2>1, NoInitFields DEF SetErrorMicroserviceDown, Active
  <2>3. CASE init[i].column # c
    <3>1. row'[c] = row[c]
      BY <1>8, <2>0, <2>3, Reported DEF SetErrorMicroserviceDown
    <3>. QED
      BY <2>1, <2>2, <3>1, CalmElsewhere
  <2>4. CASE init[i].column = c
    <3>1. Active(i, c) /\ jobs[c] = 0
      BY <1>8, <2>2, <2>4 DEF SetErrorMicroserviceDown, Active, CalmColumn, CalmInit, BeforeJob
    <3>. QED
      BY <2>1, <2>2, <3>1, CalmKept
  <2>. QED
    BY <2>3, <2>4
<1>9. ASSUME NEW i \in Inits, InitFails(i)
      PROVE  CalmColumn(c)'
  <2>1. UNCHANGED <<row, jobs, calm>> /\ \A j \in Inits \ {i} : init'[j] = init[j]
    BY <1>9 DEF InitFails, accountVars, table
  <2>2. ~Active(i, c)'
    BY <1>9, NoInitFields DEF InitFails, Active
  <2>. QED
    BY <2>1, <2>2, CalmElsewhere
<1>10. ASSUME NEW d \in StatusColumns, NEW s \in Statuses, EndJob(d, s)
       PROVE  CalmColumn(c)'
  <2>1. UNCHANGED <<init, calm>>
    BY <1>10 DEF EndJob
  <2>2. CalmColumn(c) /\ jobs[c] \in Nat
    BY <2>1, StatusesAssumption
  <2>3. CASE d # c
    <3>1. row'[c] = row[c] /\ jobs'[c] = jobs[c]
      BY <1>10, <2>3, Reported DEF EndJob
    <3>. QED
      BY <2>1, <2>2, <3>1 DEF CalmColumn, CalmInit, Active, Overlaps, BeforeJob
  <2>4. CASE d = c
    <3>1. jobs[c] = 1 /\ jobs'[c] = 0
      BY <1>10, <2>2, <2>4 DEF EndJob, CalmColumn
    <3>2. \A i \in Inits : Active(i, c) => ~BeforeJob(i) /\ init[i].stage # "send"
      BY <2>2, <3>1 DEF CalmColumn, CalmInit, BeforeJob
    <3>. QED
      BY <2>1, <2>2, <3>1, <3>2 DEF CalmColumn, CalmInit, Active, Overlaps, BeforeJob
  <2>. QED
    BY <2>3, <2>4
<1>11. CASE UNCHANGED statusVars
  BY <1>11 DEF statusVars, initVars, accountVars, table, CalmColumn, CalmInit, Active,
     Overlaps, BeforeJob
<1>. QED
  BY <1>1, <1>2, <1>3, <1>4, <1>5, <1>6, <1>7, <1>8, <1>9, <1>10, <1>11
     DEF StatusesNext, InitStep

(* Why an init that is alone in its column finds no job there. *)
THEOREM StatusesInductive == StatusesSpec => []StatusesIInv
<1>1. StatusesInit => CalmInv
  <2>1. StatusesInit => \A i \in Inits, c \in StatusColumns : ~Active(i, c)
    BY NoInitFields DEF StatusesInit, Active
  <2>. QED
    BY <2>1 DEF StatusesInit, CalmInv, CalmInitsDoNotDouble
<1>2. AccountTypeOK /\ StatusesTypeOK /\ CalmInv /\ [StatusesNext]_statusVars => CalmInv'
  <2>1. ASSUME AccountTypeOK, StatusesTypeOK, CalmInv, [StatusesNext]_statusVars,
               NEW c \in StatusColumns, calm'[c]
        PROVE  CalmColumn(c)'
    BY <2>1, CalmByColumn, CalmStep
  <2>. QED
    BY <2>1 DEF CalmInv, CalmInitsDoNotDouble, CalmColumn
<1>. QED
  BY <1>1, <1>2, StatusesTypeCorrect, StatusesImplementAccount, AccountTypeCorrect,
     InitingCause, PTL DEF StatusesSpec, StatusesIInv

(* The guards are enough for inits that do not overlap. *)
THEOREM CalmInitsSingle == StatusesSpec => []CalmInitsDoNotDouble
<1>1. StatusesIInv => CalmInitsDoNotDouble
  BY DEF StatusesIInv, CalmInv
<1>. QED
  BY <1>1, StatusesInductive, PTL
===============================================================================
