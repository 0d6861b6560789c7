----------------------------- MODULE MCPoolSession -----------------------------
(* Two dialogs; a position of the user's wallet and one of a wallet that is   *)
(* not registered; sliders in order, that cross onto the position's ticks,    *)
(* and that cross at a bound.                                                 *)
EXTENDS PoolSession, TLC

CONSTANTS mine, foreign, hot, cold

MCOwner == [p \in Positions |-> IF p = foreign THEN cold ELSE hot]
MCRangeOf == [p \in Positions |-> [lower |-> -2, upper |-> 0]]
MCPoolTicks == {0, 2}
MCSliders == {<<-2, 2>>, <<2, 0>>, <<2, -2>>}
(* Lower prices are coarse; some lie just below their tick.                    *)
MCRawLevel == [reverse \in BOOLEAN |-> [l \in -3..3 |->
  IF reverse THEN CASE l < 0 -> 0 [] l \in {1, 2} -> l + 1 [] OTHER -> l
             ELSE CASE l = -3 -> -2 [] l > 0 -> l - 1 [] OTHER -> l]]
Symmetric == Permutations(Modals) \union Permutations(Requests)

(* Two dialogs, one of which may miss an answer, with sliders that stay within *)
(* the bounds; one dialog on a pool that is traded in; one on a reversed pool, *)
(* where at most one position is there and others are minted meanwhile.        *)
OneDialog == \E m \in Modals : modal[m] = None
Missed(m) == modal[m] # None /\ modal[m].missed # None
Plain(sess) == sess = None \/ (sess.tick = 0 /\ InBounds(sess.range))
WithinBounds ==
  /\ Plain(session)
  /\ \A q \in Requests : req[q] # None => req[q].slider # <<2, -2>> /\ Plain(req[q].sess)
  /\ \A m, n \in Modals : Missed(m) /\ Missed(n) => m = n
Scenarios ==
  \/ ~pool.reverse /\ held = {mine} /\ pool.tick = 0 /\ WithinBounds
  \/ ~pool.reverse /\ held = {mine} /\ OneDialog
  \/ pool.reverse /\ held # {mine, foreign} /\ pool.tick = 0 /\ OneDialog
===============================================================================
