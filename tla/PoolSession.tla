------------------------------ MODULE PoolSession ------------------------------
(* The dialogs that add liquidity to one Uniswap v3 pool, of one user: the    *)
(* deposit dialog (a new position) and the increase dialog (one the user has) *)
(* share one session in Redis, stored under user, pool and chain. Opening a   *)
(* dialog stores the session, moving a range slider reads it and stores all   *)
(* of it again with other ticks, and the transaction is formed from it. Every *)
(* await is a step of its own, so the requests of two dialogs interleave.     *)
EXTENDS Integers

CONSTANTS
  Modals,      \* the user's dialogs on the pool (browser tabs)
  Requests,    \* slots for requests and socket events in progress
  Positions,   \* position NFTs of the pool
  Owner,       \* the wallet that owns a position
  RangeOf,     \* a position's ticks
  UserWallets, \* the wallets the user has registered
  PoolTicks,   \* the current ticks the pool may have
  Sliders,     \* pairs of range prices the user may set, as price levels
  RawLevel,    \* a price's level once it is rounded up to a raw amount
  Spacing,     \* the pool's tick spacing
  MaxTick,     \* ticks go from -MaxTick to MaxTick (887272 on chain)
  Span,        \* the default range is Span spacings to each side (30)
  None

VARIABLES
  pool,    \* on chain: the current tick; whether the base token sorts first
  held,    \* on chain: the positions minted so far
  session, \* Redis: the session under the key of user, pool and chain
  modal,   \* per dialog: what it was opened for, what it shows, what it missed
  req      \* per slot: what is left of a request

vars == <<pool, held, session, modal, req>>

Ranges == [lower : Int, upper : Int]
Levels == [low : Int, high : Int]
Sessions == [position : BOOLEAN, range : Ranges, tick : PoolTicks]
Purposes == Positions \union {"deposit"}
(* A dialog shows the range it was told last; missed is history: the range     *)
(* that its last slider event had stored, if the answer never came; alone is   *)
(* whether nobody disturbed the dialog.                                        *)
Dialogs == [opens : Purposes, shows : Levels \union {None},
            missed : Levels \union {None}, alone : BOOLEAN]

InBounds(range) == -MaxTick <= range.lower /\ range.upper <= MaxTick
IsUsable(tick) == tick % Spacing = 0
OnSpacing(range) == IsUsable(range.lower) /\ IsUsable(range.upper)

(* A request: what it does next, for which dialog, with which input, the      *)
(* session it has read or is to store; late marks a slider event that had     *)
(* passed its guard when an opening, or a late event, replaced the session.   *)
Opening == {"pool", "store", "details"}
Sliding == {"guard", "read", "write", "moved"}
Forming == {"load", "match", "approve", "formed"}
RequestsIn == [at : Opening \union Sliding \union Forming, by : Modals,
               opens : Purposes \union {None}, slider : Sliders \union {None},
               wallet : UserWallets \union {None}, sess : Sessions \union {None},
               target : Positions \union {None}, late : BOOLEAN]

PoolAssumption ==
  /\ Spacing \in Nat \ {0} /\ MaxTick \in Nat \ {0} /\ Span \in Nat \ {0}
  /\ Spacing <= MaxTick
  /\ PoolTicks \subseteq -MaxTick .. MaxTick
  /\ Sliders \subseteq (-MaxTick .. MaxTick) \X (-MaxTick .. MaxTick)
  /\ RawLevel \in [BOOLEAN -> [-MaxTick .. MaxTick -> -MaxTick .. MaxTick]]
  /\ \A reverse \in BOOLEAN, l, k \in -MaxTick .. MaxTick :
       /\ l <= k => RawLevel[reverse][l] <= RawLevel[reverse][k]
       /\ RawLevel[reverse][l] >= IF reverse THEN l ELSE l - 1
  /\ RangeOf \in [Positions -> Ranges]
  /\ \A p \in Positions : /\ OnSpacing(RangeOf[p]) /\ InBounds(RangeOf[p])
                          /\ RangeOf[p].lower < RangeOf[p].upper
  /\ "deposit" \notin Positions
  /\ None \notin Purposes /\ None \notin UserWallets /\ None \notin Sessions
  /\ None \notin Levels /\ None \notin Sliders
  /\ None \notin Dialogs /\ None \notin RequestsIn
ASSUME PoolAssumption

-------------------------------------------------------------------------------
(* Ticks and prices. A price is given by its level: the tick it has in a pool *)
(* whose quote token sorts first. In a reversed pool the tick of a higher     *)
(* price is lower.                                                            *)

(* Rounds to a multiple of the spacing, and one spacing back over a bound.    *)
NearestUsable(tick) ==
  LET rounded == ((2 * tick + Spacing) \div (2 * Spacing)) * Spacing
  IN  IF rounded < -MaxTick THEN rounded + Spacing
      ELSE IF rounded > MaxTick THEN rounded - Spacing ELSE rounded

DefaultTicks(tick) == [lower |-> NearestUsable(tick - Span * Spacing),
                       upper |-> NearestUsable(tick + Span * Spacing)]

(* nearestUsableTick refuses a tick over the bounds.                          *)
DefaultTicksExist(tick) ==
  -MaxTick <= tick - Span * Spacing /\ tick + Span * Spacing <= MaxTick

(* The price of a slider is rounded up to a whole raw amount of the base token *)
(* before its tick is looked for, the one at the price or next to it: below it *)
(* in a pool whose quote token sorts first, above it in a reversed one. Few    *)
(* decimals, or a low price, raise the level by any number of ticks; a price   *)
(* of 16 digits may lie just below its tick.                                   *)
TickFromRange(level) ==
  NearestUsable(IF pool.reverse THEN -RawLevel[TRUE][level] ELSE RawLevel[FALSE][level])

(* Mutants of CorrectTicks: the ranges are not swapped; the crossed ticks of  *)
(* a reversed pool are moved the wrong way.                                   *)
UnswappedTicks(slider) ==
  LET lower == TickFromRange(slider[1])
      upper == TickFromRange(slider[2])
  IN  IF lower <= upper THEN [lower |-> lower, upper |-> upper]
      ELSE IF pool.reverse THEN [lower |-> lower, upper |-> lower + Spacing]
      ELSE [lower |-> upper - Spacing, upper |-> upper]

CrossedTicks(slider) ==
  LET lower == TickFromRange(slider[IF pool.reverse THEN 2 ELSE 1])
      upper == TickFromRange(slider[IF pool.reverse THEN 1 ELSE 2])
  IN  IF lower <= upper THEN [lower |-> lower, upper |-> upper]
      ELSE IF pool.reverse THEN [lower |-> lower, upper |-> lower - Spacing]
      ELSE [lower |-> upper - Spacing, upper |-> upper]

(* The ticks of the two sliders. Sliders that cross are moved apart by one    *)
(* spacing; sliders on the same tick are left there.                          *)
CorrectTicks(slider) ==
  LET lowerRange == IF pool.reverse THEN slider[2] ELSE slider[1]
      upperRange == IF pool.reverse THEN slider[1] ELSE slider[2]
      lower == TickFromRange(lowerRange)
      upper == TickFromRange(upperRange)
  IN  IF lower <= upper THEN [lower |-> lower, upper |-> upper]
      ELSE IF pool.reverse THEN [lower |-> lower, upper |-> lower + Spacing]
      ELSE [lower |-> upper - Spacing, upper |-> upper]

(* The price levels a dialog shows for a pair of ticks.                       *)
Shown(range) == IF pool.reverse THEN [low |-> -range.upper, high |-> -range.lower]
                ELSE [low |-> range.lower, high |-> range.upper]

(* A transaction adds to the wallet's position of these very ticks.           *)
Matching(wallet, range) ==
  {p \in held : Owner[p] = wallet /\ RangeOf[p] = range}

-------------------------------------------------------------------------------
Blank(m) == [at |-> "pool", by |-> m, opens |-> None, slider |-> None,
             wallet |-> None, sess |-> None, target |-> None, late |-> FALSE]

Init ==
  /\ pool \in [tick : PoolTicks, reverse : BOOLEAN]
  /\ held \in SUBSET Positions
  /\ session = None
  /\ modal = [m \in Modals |-> None]
  /\ req = [q \in Requests |-> None]

Idle(m) == \A q \in Requests : req[q] = None \/ req[q].by # m
AllIdle == \A m \in Modals : Idle(m)

(* Everyone but m is disturbed by what m is about to do to the session.       *)
Disturbed(m, own) ==
  [x \in Modals |-> IF x = m THEN own
                    ELSE IF modal[x] = None THEN None
                    ELSE [modal[x] EXCEPT !.alone = FALSE]]

Ends(q) == req' = [req EXCEPT ![q] = None]

Told(m, range) ==
  [modal EXCEPT ![m] = [modal[m] EXCEPT !.shows = Shown(range), !.missed = None]]
Misses(m, range) ==
  [modal EXCEPT ![m] = [modal[m] EXCEPT !.missed = Shown(range)]]

(* An await rejects (Redis, an RPC node, the database, a service), the process *)
(* ends or the answer is lost: what the request stored stays, and the dialog   *)
(* of a slider event that had stored its ticks goes on showing the old ones.   *)
Fails(q) ==
  /\ req[q] # None
  /\ modal' = IF req[q].at = "moved" THEN Misses(req[q].by, req[q].sess.range) ELSE modal
  /\ Ends(q)
  /\ UNCHANGED <<pool, held, session>>

-------------------------------------------------------------------------------
(* Opening a dialog.                                                          *)

Open(m, q, purpose) ==
  /\ purpose \in held \union {"deposit"}
  /\ req[q] = None
  /\ req' = [req EXCEPT ![q] = [Blank(m) EXCEPT !.at = "pool", !.opens = purpose]]
  /\ modal' = [Disturbed(m, None) EXCEPT ![m] =
                 [opens |-> purpose, shows |-> None, missed |-> None, alone |-> AllIdle]]
  /\ UNCHANGED <<pool, held, session>>

(* The pool, or the position with its pool, comes from the chain: its ticks,  *)
(* or default ones around the current tick, and a snapshot of that tick.      *)
ReadPool(q) ==
  /\ req[q] # None /\ req[q].at = "pool"
  /\ LET position == req[q].opens \in Positions
         range == IF position THEN RangeOf[req[q].opens]
                  ELSE DefaultTicks(pool.tick)
     IN  IF position \/ DefaultTicksExist(pool.tick)
         THEN req' = [req EXCEPT ![q].at = "store",
                                 ![q].sess = [position |-> position,
                                              range |-> range,
                                              tick |-> pool.tick]]
         ELSE Ends(q)
  /\ UNCHANGED <<pool, held, session, modal>>

(* The requests once the session is replaced by q, which is at step next then. *)
Replaced(q, next) ==
  [x \in Requests |->
     IF x = q THEN [req[q] EXCEPT !.at = next]
     ELSE IF req[x] # None /\ req[x].at \in {"read", "write"}
          THEN [req[x] EXCEPT !.late = TRUE] ELSE req[x]]

(* Once pool ticks, prices and volume have come too, the session is stored,   *)
(* before the rest of the answer is looked up.                                *)
StoreSession(q) ==
  /\ req[q] # None /\ req[q].at = "store"
  /\ session' = req[q].sess
  /\ req' = Replaced(q, "details")
  /\ UNCHANGED <<pool, held, modal>>

(* The increase dialog needs the position's wallet among the user's.          *)
AnswerOpening(q) ==
  /\ req[q] # None /\ req[q].at = "details"
  /\ LET r == req[q]
     IN  IF r.opens \in Positions => Owner[r.opens] \in UserWallets
         THEN modal' = Told(r.by, r.sess.range)
         ELSE UNCHANGED modal
  /\ Ends(q)
  /\ UNCHANGED <<pool, held, session>>

-------------------------------------------------------------------------------
(* Moving a range slider (a socket event).                                    *)

Slide(m, q, slider) ==
  /\ modal[m] # None /\ modal[m].shows # None
  /\ req[q] = None
  /\ req' = [req EXCEPT ![q] = [Blank(m) EXCEPT !.at = "guard", !.slider = slider]]
  /\ modal' = Disturbed(m, [modal[m] EXCEPT !.alone = modal[m].alone /\ Idle(m)])
  /\ UNCHANGED <<pool, held, session>>

(* Mutant of PassGuard: a position's session is not refused.                  *)
PassAnySession(q) ==
  /\ req[q] # None /\ req[q].at = "guard"
  /\ IF session # None THEN req' = [req EXCEPT ![q].at = "read"] ELSE Ends(q)
  /\ UNCHANGED <<pool, held, session, modal>>

(* There is a session and it is not that of a position.                       *)
PassGuard(q) ==
  /\ req[q] # None /\ req[q].at = "guard"
  /\ IF session # None /\ ~session.position
     THEN req' = [req EXCEPT ![q].at = "read"]
     ELSE Ends(q)
  /\ UNCHANGED <<pool, held, session, modal>>

(* Mutant of ReadSession: the current tick is read anew.                      *)
ReadSessionAndTick(q) ==
  /\ req[q] # None /\ req[q].at = "read"
  /\ IF session # None
     THEN req' = [req EXCEPT ![q].at = "write",
                             ![q].sess = [session EXCEPT
                                            !.range = CorrectTicks(req[q].slider),
                                            !.tick = pool.tick]]
     ELSE Ends(q)
  /\ UNCHANGED <<pool, held, session, modal>>

ReadSession(q) ==
  /\ req[q] # None /\ req[q].at = "read"
  /\ IF session # None
     THEN req' = [req EXCEPT ![q].at = "write",
                             ![q].sess = [session EXCEPT !.range =
                                            CorrectTicks(req[q].slider)]]
     ELSE Ends(q)
  /\ UNCHANGED <<pool, held, session, modal>>

(* All of the session is stored again.                                        *)
WriteSession(q) ==
  /\ req[q] # None /\ req[q].at = "write"
  /\ session' = req[q].sess
  /\ req' = IF req[q].late THEN Replaced(q, "moved")
            ELSE [req EXCEPT ![q].at = "moved"]
  /\ UNCHANGED <<pool, held, modal>>

(* Mutant of AnswerSlide: the dialog is told the range it asked for.          *)
AnswerSlideAsSet(q) ==
  /\ req[q] # None /\ req[q].at = "moved"
  /\ modal' = IF InBounds(req[q].sess.range)
              THEN [Told(req[q].by, req[q].sess.range) EXCEPT ![req[q].by].shows =
                      [low |-> req[q].slider[1], high |-> req[q].slider[2]]]
              ELSE modal
  /\ Ends(q)
  /\ UNCHANGED <<pool, held, session>>

(* The prices of ticks over the bounds do not exist.                          *)
AnswerSlide(q) ==
  /\ req[q] # None /\ req[q].at = "moved"
  /\ modal' = IF InBounds(req[q].sess.range)
              THEN Told(req[q].by, req[q].sess.range) ELSE modal
  /\ Ends(q)
  /\ UNCHANGED <<pool, held, session>>

-------------------------------------------------------------------------------
(* Forming the transaction.                                                   *)

Submit(m, q, wallet) ==
  /\ modal[m] # None /\ modal[m].shows # None
  /\ req[q] = None
  /\ req' = [req EXCEPT ![q] = [Blank(m) EXCEPT !.at = "load", !.wallet = wallet]]
  /\ modal' = [modal EXCEPT ![m].alone = modal[m].alone /\ Idle(m)]
  /\ UNCHANGED <<pool, held, session>>

LoadSession(q) ==
  /\ req[q] # None /\ req[q].at = "load"
  /\ IF session # None
     THEN req' = [req EXCEPT ![q].at = "match", ![q].sess = session]
     ELSE Ends(q)
  /\ UNCHANGED <<pool, held, session, modal>>

(* The wallet's position of these ticks, or a new one; a position over no     *)
(* ticks, or over ones out of bounds, cannot be formed.                       *)
MatchPosition(q) ==
  /\ req[q] # None /\ req[q].at = "match"
  /\ LET r == req[q]
         matching == Matching(r.wallet, r.sess.range)
     IN  IF InBounds(r.sess.range) /\ r.sess.range.lower < r.sess.range.upper
         THEN \E p \in IF matching = {} THEN {None} ELSE matching :
                req' = [req EXCEPT ![q].at = "approve", ![q].target = p]
         ELSE Ends(q)
  /\ UNCHANGED <<pool, held, session, modal>>

(* The approvals are formed from the session read a second time.              *)
FormApprovals(q) ==
  /\ req[q] # None /\ req[q].at = "approve"
  /\ IF session # None THEN req' = [req EXCEPT ![q].at = "formed"] ELSE Ends(q)
  /\ UNCHANGED <<pool, held, session, modal>>

AnswerTransaction(q) ==
  /\ req[q] # None /\ req[q].at = "formed"
  /\ Ends(q)
  /\ UNCHANGED <<pool, held, session, modal>>

-------------------------------------------------------------------------------
(* Redis drops the session; the pool is traded in; a position is minted.      *)
SessionExpires == /\ session # None
                  /\ session' = None
                  /\ UNCHANGED <<pool, held, modal, req>>

PoolMoves == /\ \E tick \in PoolTicks : pool' = [pool EXCEPT !.tick = tick]
             /\ UNCHANGED <<held, session, modal, req>>

PositionMinted == /\ \E p \in Positions \ held : held' = held \union {p}
                  /\ UNCHANGED <<pool, session, modal, req>>

RequestStep(q) == \/ Fails(q)
                  \/ ReadPool(q) \/ StoreSession(q) \/ AnswerOpening(q)
                  \/ PassGuard(q) \/ ReadSession(q) \/ WriteSession(q) \/ AnswerSlide(q)
                  \/ LoadSession(q) \/ MatchPosition(q) \/ FormApprovals(q)
                  \/ AnswerTransaction(q)

UserStep(m, q) == \/ \E purpose \in Purposes : Open(m, q, purpose)
                  \/ \E slider \in Sliders : Slide(m, q, slider)
                  \/ \E wallet \in UserWallets : Submit(m, q, wallet)

Next == \/ \E q \in Requests : RequestStep(q) \/ \E m \in Modals : UserStep(m, q)
        \/ SessionExpires \/ PoolMoves \/ PositionMinted

PoolSpec == Init /\ [][Next]_vars

-------------------------------------------------------------------------------
(* The inductive invariant.                                                   *)

(* A request holds what its step needs.                                       *)
WellFormed(r) ==
  /\ r.at \in Opening => r.opens \in Purposes
  /\ r.at \in Sliding => r.slider \in Sliders
  /\ r.at \in Forming => r.wallet \in UserWallets
  /\ r.at \in {"store", "details", "write", "moved", "match", "approve", "formed"}
     => r.sess \in Sessions
  /\ modal[r.by] # None

PoolTypeOK ==
  /\ pool \in [tick : PoolTicks, reverse : BOOLEAN]
  /\ held \subseteq Positions
  /\ session \in Sessions \union {None}
  /\ modal \in [Modals -> Dialogs \union {None}]
  /\ req \in [Requests -> RequestsIn \union {None}]
  /\ \A q \in Requests : req[q] # None => WellFormed(req[q])

UsableTicks(range) ==
  /\ OnSpacing(range) /\ range.lower <= range.upper
  /\ ~InBounds(range) => /\ range.upper = range.lower + Spacing
                         /\ range.lower <= MaxTick /\ -MaxTick <= range.upper

(* Every session, stored or in a request's hands, has usable ticks.           *)
TicksInv ==
  /\ session # None => UsableTicks(session.range)
  /\ \A q \in Requests :
       req[q] # None /\ req[q].sess # None => UsableTicks(req[q].sess.range)

(* What a slider event that is not late has read is still what is stored, but *)
(* for the ticks, or the session has expired since.                           *)
Timely(q, at) == req[q] # None /\ req[q].at = at /\ ~req[q].late
LateInv ==
  \A q \in Requests :
    /\ Timely(q, "read") => session = None \/ ~session.position
    /\ Timely(q, "write") =>
         /\ ~req[q].sess.position
         /\ session = None \/ (~session.position /\ session.tick = req[q].sess.tick)
         /\ \A x \in Requests : Timely(x, "write") =>
              req[x].sess.tick = req[q].sess.tick

(* An undisturbed dialog has at most one request, others only form            *)
(* transactions; the stored session has expired, or has ticks out of bounds   *)
(* of which no transaction is formed, or is what the dialog had stored last:   *)
(* what it shows, unless the last answer was lost.                             *)
LastStored(d) == IF d.missed = None THEN d.shows ELSE d.missed
Agrees(sess, shows) ==
  sess = None \/ ~InBounds(sess.range) \/ Shown(sess.range) = shows

LoneRequest(m, r) ==
  /\ r.at \in Opening => /\ r.opens = modal[m].opens
                         /\ modal[m].shows = None /\ modal[m].missed = None
  /\ r.at \notin Opening => modal[m].shows # None
  /\ r.at \in {"details", "moved"} => session = None \/ session = r.sess
  /\ r.at \in {"match", "approve", "formed"} => Agrees(r.sess, LastStored(modal[m]))
  /\ r.at \in {"approve", "formed"} => InBounds(r.sess.range)

LoneDialog(m) ==
  /\ \A q \in Requests : req[q] # None =>
       IF req[q].by # m THEN req[q].at \in Forming
       ELSE LoneRequest(m, req[q])
            /\ \A x \in Requests \ {q} : req[x] = None \/ req[x].by # m
  /\ modal[m].shows # None =>
       \/ Agrees(session, LastStored(modal[m]))
       \/ \E q \in Requests : req[q] # None /\ req[q].by = m /\ req[q].at = "moved"

IsLone(m) == modal[m] # None /\ modal[m].alone
LoneInv == \A m \in Modals : IsLone(m) => LoneDialog(m)

(* An undisturbed increase dialog has its position's session: no slider gets  *)
(* past the guard.                                                            *)
IncreaseRequest(p, r) ==
  /\ r.at \notin {"read", "write", "moved"}
  /\ r.at \in {"store", "details"} => r.sess.position /\ r.sess.range = RangeOf[p]
  /\ r.at \in {"match", "approve", "formed"} => r.sess.range = RangeOf[p]
  /\ r.at \in {"approve", "formed"} /\ r.wallet = Owner[p]
     => r.target \in Matching(r.wallet, RangeOf[p])

IncreaseDialog(m, p) ==
  /\ p \in held
  /\ modal[m].shows # None =>
       session = None \/ (session.position /\ session.range = RangeOf[p])
  /\ \A q \in Requests : req[q] # None /\ req[q].by = m => IncreaseRequest(p, req[q])

IncreaseInv ==
  \A m \in Modals : IsLone(m) /\ modal[m].opens \in Positions =>
                      IncreaseDialog(m, modal[m].opens)

(* The invariant that the proofs carry through every step.                    *)
PoolIInv == PoolTypeOK /\ TicksInv /\ LateInv /\ LoneInv /\ IncreaseInv

-------------------------------------------------------------------------------
(* Properties.                                                                *)

(* A dialog that nobody disturbed forms its transaction for the range it      *)
(* shows: whatever failed in between (a slider over the bounds, an expired    *)
(* session, a failed read), the transaction has the ticks of the prices on    *)
(* screen. Only after a slider event that was cut off between storing its     *)
(* ticks and its answer does it have others, which are those of that event:   *)
(* never the ticks of an earlier event, nor a mixture.                        *)
FormsWhatItShows ==
  \A q \in Requests :
    LET r == req[q]
    IN  r # None /\ r.at = "formed" /\ modal[r.by].alone =>
          Shown(r.sess.range) = LastStored(modal[r.by])

(* The increase dialog names no position in its transaction: it is found by   *)
(* wallet and ticks. An undisturbed one that submits its position's wallet    *)
(* still adds to a position of that wallet with those ticks, never a new one. *)
IncreaseFindsItsPosition ==
  \A q \in Requests :
    LET r == req[q]
        p == modal[r.by].opens
    IN  /\ r # None /\ r.at \in {"approve", "formed"} /\ modal[r.by].alone
        /\ p \in Positions /\ Owner[p] = r.wallet
        => /\ r.target \in held
           /\ Owner[r.target] = Owner[p] /\ RangeOf[r.target] = RangeOf[p]

(* Sliders set in order on usable ticks are shown back where they were set,   *)
(* when their prices are whole raw amounts: what a reversed pool swaps on the *)
(* way in is swapped back on the way out, and the rounding of the price's     *)
(* digits is undone. Other prices are rounded up, never down: neither end of  *)
(* the range is shown below where it was set. (In a pool with a spacing of    *)
(* one, the digits may cost one tick.)                                        *)
Digits == IF Spacing = 1 THEN 1 ELSE 0
WholeRaw(level) ==
  RawLevel[pool.reverse][level] \in IF pool.reverse THEN {level, level + 1}
                                    ELSE {level - 1, level}
ShownFor(shown, set) == /\ shown >= set - Digits
                        /\ WholeRaw(set) => shown <= set + Digits
SlidersShownAsSet ==
  \A q \in Requests :
    LET r == req[q]
    IN  /\ r # None /\ r.at \in {"write", "moved"}
        /\ IsUsable(r.slider[1]) /\ IsUsable(r.slider[2]) /\ r.slider[1] <= r.slider[2]
        => /\ ShownFor(Shown(r.sess.range).low, r.slider[1])
           /\ ShownFor(Shown(r.sess.range).high, r.slider[2])

(* The slider events store all of the session again: they change the ticks of *)
(* a deposit session and nothing else, and never touch a position's session,  *)
(* unless an opening stored its session after the event had passed its guard. *)
SlidersKeepTheSession ==
  [][\A q \in Requests :
       WriteSession(q) /\ ~req[q].late =>
         /\ ~session'.position
         /\ session # None => session' = [session EXCEPT !.range = session'.range]]_vars

===============================================================================
