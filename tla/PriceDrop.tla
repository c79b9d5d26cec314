------------------------------ MODULE PriceDrop ------------------------------
(***************************************************************************)
(* Who hears that a listing got cheaper.  update() compares the row it     *)
(* read with the row it wrote; staff reprice in silence (adminUpdate).     *)
(* Source: products.service.ts.  Prices are in hundredths.                 *)
(***************************************************************************)
EXTENDS Naturals

CONSTANTS
  Calls,      \* how many updates run at once at most
  Prices,     \* prices a seller may ask
  Discounts   \* discounts in percent

PriceAssumption == Prices \subseteq Nat /\ Discounts \subseteq 0..100

VARIABLES
  row,      \* price and discount of the listing
  reduced,  \* priceReducedUntil lies ahead ("Rebajado hoy")
  calls,
  ended     \* history: what became of the update that ended last

vars == <<row, reduced, calls, ended>>

-----------------------------------------------------------------------------
Rows == [price : Prices, discount : Discounts]
Idle == [step |-> "idle"]
Outcome == [fell : BOOLEAN, told : BOOLEAN, stale : BOOLEAN, failed : BOOLEAN]

TypeOK ==
  /\ row \in Rows
  /\ reduced \in BOOLEAN
  /\ calls \in [Calls -> {Idle} \cup [step : {"write"}, read : Rows, stale : BOOLEAN]
                  \cup [step : {"stamp", "emit"}, fell : BOOLEAN, stale : BOOLEAN]]
  /\ ended \in Outcome

Init ==
  /\ row \in Rows
  /\ reduced = FALSE
  /\ calls = [c \in Calls |-> Idle]
  /\ ended = [fell |-> FALSE, told |-> FALSE, stale |-> FALSE, failed |-> FALSE]

\* Mutant: a change of the discount alone is no change of the price.
effectivePrice_Listed(r) == r.price

effectivePrice(r) == (r.price * (100 - r.discount) + 50) \div 100

Cheaper(new, old) == effectivePrice(new) < effectivePrice(old)

\* What the buyer pays, worked out apart from the code.
Pays(r) == LET exact == r.price * (100 - r.discount)
           IN  CHOOSE n \in 0..r.price : 100 * n - 50 <= exact /\ exact < 100 * n + 50

Finish(c, fell, told, failed) ==
  ended' = [fell |-> fell, told |-> told, stale |-> calls[c].stale, failed |-> failed]

\* Whoever has read the row and not written yet decides on an old price.
Outdated(c) == [d \in Calls |->
  IF d # c /\ calls[d].step = "write" THEN [calls[d] EXCEPT !.stale = TRUE] ELSE calls[d]]

-----------------------------------------------------------------------------
Find(c) ==
  /\ calls[c] = Idle
  /\ calls' = [calls EXCEPT ![c] = [step |-> "write", read |-> row, stale |-> FALSE]]
  /\ UNCHANGED <<row, reduced, ended>>

\* The input may hold both fields, one, or neither.
Write(c, new) ==
  LET fell == Pays(new) < Pays(row)
  IN  /\ calls[c].step = "write"
      /\ row' = new
      /\ IF Cheaper(new, calls[c].read)
         THEN /\ calls' = [Outdated(c) EXCEPT ![c] =
                   [step |-> "stamp", fell |-> fell, stale |-> calls[c].stale]]
              /\ UNCHANGED ended
         ELSE /\ calls' = [Outdated(c) EXCEPT ![c] = Idle]
              /\ Finish(c, fell, FALSE, FALSE)
      /\ UNCHANGED reduced

Stamp(c) ==
  /\ calls[c].step = "stamp"
  /\ reduced' = TRUE
  /\ calls' = [calls EXCEPT ![c].step = "emit"]
  /\ UNCHANGED <<row, ended>>

Emit(c) ==
  /\ calls[c].step = "emit"
  /\ Finish(c, calls[c].fell, TRUE, FALSE)
  /\ calls' = [calls EXCEPT ![c] = Idle]
  /\ UNCHANGED <<row, reduced>>

\* The process dies; a drop already written is never announced.
Fail(c) ==
  /\ calls[c] # Idle
  /\ Finish(c, calls[c].step # "write" /\ calls[c].fell, FALSE, TRUE)
  /\ calls' = [calls EXCEPT ![c] = Idle]
  /\ UNCHANGED <<row, reduced>>

adminUpdate(new) ==
  /\ row' = new
  /\ calls' = [d \in Calls |->
       IF calls[d].step = "write" THEN [calls[d] EXCEPT !.stale = TRUE] ELSE calls[d]]
  /\ UNCHANGED <<reduced, ended>>

Expire ==
  /\ reduced' = FALSE
  /\ UNCHANGED <<row, calls, ended>>

Next ==
  \/ \E c \in Calls : \/ Find(c) \/ Stamp(c) \/ Emit(c) \/ Fail(c)
                      \/ \E new \in Rows : Write(c, new)
  \/ \E new \in Rows : adminUpdate(new)
  \/ Expire

Spec == Init /\ [][Next]_vars

-----------------------------------------------------------------------------
\* "Notify watchers only on an effective price drop": an update that ran to
\* its end announces a drop exactly if the buyer pays less than before it, to
\* the hundredth; only one whose row another write changed meanwhile may miss
\* a drop or announce none (ProductsService.update).
ToldIffCheaper ==
  ended.told # ended.fell => ended.stale \/ ended.failed

=============================================================================
