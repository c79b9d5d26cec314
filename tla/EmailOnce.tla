------------------------------ MODULE EmailOnce ------------------------------
(***************************************************************************)
(* What the email pipeline promises for each dedupe key, whatever crashes, *)
(* retries and races happen underneath: one attempt is claimed, and that   *)
(* attempt either reaches the mailbox or is lost.  No second attempt.      *)
(***************************************************************************)
CONSTANT Keys

VARIABLE fate

Fates == {"open", "claimed", "mailed", "lost"}

Init == fate = [k \in Keys |-> "open"]

Becomes(k, from, to) == fate[k] = from /\ fate' = [fate EXCEPT ![k] = to]

Next ==
  \E k \in Keys : \/ Becomes(k, "open", "claimed")
                  \/ Becomes(k, "claimed", "mailed")
                  \/ Becomes(k, "claimed", "lost")

Spec == Init /\ [][Next]_fate
=============================================================================
