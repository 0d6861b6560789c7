---------------------------- MODULE MCUserAccount -----------------------------
(* Instances of UserAccount for TLC. *)
EXTENDS UserAccount, TLC

CONSTANTS usd, initing

(* Two seconds and reported statuses, or wallets and currencies with no more *)
(* tokens than the first: the two meet in what setCurrency writes, which is  *)
(* in both.                                                                  *)
Session ==
  /\ row["currency"] = usd
  /\ \A q \in Requests : HoldsCopy(q) => req[q].copy["currency"] = usd
  /\ \A w \in Wallets : wallet[w] = "unused"

Portfolio ==
  /\ now = 1 /\ lost = {}
  /\ \A c \in StatusColumns : row[c] # initing
  /\ \A q \in Requests : req[q].kind \in {"register", "currency", "patch"}

SessionOrPortfolio == Session \/ Portfolio

RequestSymmetry == Permutations(Requests)
===============================================================================
