--------------------------------- MODULE Ramps ---------------------------------
(* Buying and selling for money at Transak: a quote of the service, and the    *)
(* link to its widget, where the user then pays. Each request is read by code  *)
(* of its own, and nothing ties the link to the quote before it.               *)
EXTENDS Integers

CONSTANTS
  Visits,    \* requests of the user
  Absent

RampAssumption == Absent \notin {"some", "zero", "card", "bank", "unknown"}
ASSUME RampAssumption

VARIABLE ramp   \* per request: what was asked and what was answered

rampVars == <<ramp>>

(* On ramp the money is sold and the coin bought, off ramp the other way. A    *)
(* request's amounts: of the money, of the coin, or of both.                   *)
Modes == {"on", "off"}
Methods == {"card", "bank", "unknown", Absent}
Quantities == {"some", "zero", Absent}
Networks == {"supported", "other", "unknown"}
Bodies == [mode : Modes, fiat : Quantities, crypto : Quantities,
           method : Methods, chain : Networks]

RampInit == ramp = [v \in Visits |-> Absent]

Pending(v, wants, mode) ==
  /\ ramp[v] # Absent /\ ramp[v].at = "begin"
  /\ ramp[v].wants = wants /\ ramp[v].body.mode = mode
Reply(v, answer) == ramp' = [ramp EXCEPT ![v].at = "answered", ![v].answer = answer]
Deny(v) == ramp' = [ramp EXCEPT ![v].at = "refused"]

Visit(v, wants, body) ==
  /\ ramp[v] = Absent
  /\ ramp' = [ramp EXCEPT ![v] = [wants |-> wants, body |-> body, at |-> "begin",
                                  answer |-> Absent]]

(* The routes. The body of a request to buy or to sell names the amount of its *)
(* own side; the one for the widget of a purchase off ramp names none.         *)
EnterOnRamp(v, wants, body) == body.mode = "on" /\ Visit(v, wants, body)
EnterOffRamp(v, wants, body) == body.mode = "off" /\ Visit(v, wants, body)

-------------------------------------------------------------------------------
(* Chains without a network at the service are refused, like those that do not *)
(* exist.                                                                      *)
HasNetwork(body) == body.chain = "supported"

(* The service has names for two methods. For another the quote sends none, so *)
(* that any will do; the link sends the word undefined.                        *)
Named(method) == method \in {"card", "bank"}

(* The quote: the coin's amount comes first, and the default is the card.      *)
QuoteAmount(body) == IF body.crypto # Absent THEN <<"crypto", body.crypto>>
                     ELSE <<"fiat", body.fiat>>
(* A mutant of QuoteMethod: without a method the service is left to choose.    *)
NoDefault(body) == IF Named(body.method) THEN body.method ELSE "any"

QuoteMethod(body) == IF body.method = Absent THEN "card"
                     ELSE IF Named(body.method) THEN body.method ELSE "any"

QuoteByBody(v) ==
  LET body == ramp[v].body
      amount == QuoteAmount(body)
  IN  IF HasNetwork(body) /\ amount[2] = "some"
      THEN Reply(v, [amount |-> amount, method |-> QuoteMethod(body)])
      ELSE Deny(v)

GetQuoteOnRamp(v) == Pending(v, "quote", "on") /\ QuoteByBody(v)
GetQuoteOffRamp(v) == Pending(v, "quote", "off") /\ QuoteByBody(v)

(* The widget's link names a method only if it is given one.                   *)
UrlMethod(method) == IF method = Absent THEN "any"
                     ELSE IF Named(method) THEN method ELSE "undefined"

(* On ramp: the money's amount comes first.                                    *)
WidgetOnRamp(body) ==
  IF body.fiat # Absent THEN <<"fiat", body.fiat>>
  ELSE IF body.crypto # Absent THEN <<"crypto", body.crypto>>
  ELSE <<"open", Absent>>
PaymentUrlOnRamp(v) ==
  /\ Pending(v, "widget", "on")
  /\ LET body == ramp[v].body IN
     IF HasNetwork(body)
     THEN Reply(v, [amount |-> WidgetOnRamp(body),
            method |-> UrlMethod(IF body.method = Absent THEN "card" ELSE body.method)])
     ELSE Deny(v)

(* Off ramp: only the coin's amount is read, and no method is the default.     *)
WidgetOffRamp(body) ==
  IF body.crypto # Absent THEN <<"crypto", body.crypto>> ELSE <<"open", Absent>>
PaymentUrlOffRamp(v) ==
  /\ Pending(v, "widget", "off")
  /\ LET body == ramp[v].body IN
     IF HasNetwork(body)
     THEN Reply(v, [amount |-> WidgetOffRamp(body), method |-> UrlMethod(body.method)])
     ELSE Deny(v)

(* The service, or the lookup of the user, fails.                              *)
RampFails(v) == /\ ramp[v] # Absent /\ ramp[v].at = "begin"
                /\ Deny(v)

RampNext ==
  \/ \E v \in Visits, wants \in {"quote", "widget"}, body \in Bodies :
       EnterOnRamp(v, wants, body) \/ EnterOffRamp(v, wants, body)
  \/ \E v \in Visits :
       \/ GetQuoteOnRamp(v) \/ GetQuoteOffRamp(v)
       \/ PaymentUrlOnRamp(v) \/ PaymentUrlOffRamp(v) \/ RampFails(v)

RampSpec == RampInit /\ [][RampNext]_rampVars

-------------------------------------------------------------------------------
(* Property.                                                                   *)

(* The widget opens on the deal that was quoted: two requests with the same    *)
(* body, of which one has a quote and the other a link, are for the same       *)
(* amount of the same side and the same method. They part where the two codes  *)
(* do: with both amounts in the body the quote is of the coin and the widget   *)
(* of the money; off ramp the widget leaves open an amount of money and a      *)
(* method that was left to the default; and a method without a name is left    *)
(* out of the one and undefined in the other.                                  *)
WidgetShowsTheQuote ==
  \A v, w \in Visits :
    ramp[v] # Absent /\ ramp[w] # Absent /\ ramp[v].body = ramp[w].body
    /\ ramp[v].wants = "quote" /\ ramp[w].wants = "widget"
    /\ ramp[v].at = "answered" /\ ramp[w].at = "answered" =>
      LET body == ramp[v].body
          quoted == ramp[v].answer
          shown == ramp[w].answer
      IN  /\ \/ shown.amount = quoted.amount
             \/ body.mode = "on" /\ body.fiat # Absent /\ body.crypto # Absent
             \/ body.mode = "off" /\ body.crypto = Absent /\ shown.amount[1] = "open"
          /\ \/ shown.method = quoted.method
             \/ body.mode = "off" /\ body.method = Absent /\ quoted.method = "card"
             \/ body.method = "unknown" /\ quoted.method = "any"
===============================================================================
