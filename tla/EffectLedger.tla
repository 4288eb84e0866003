---------------------------- MODULE EffectLedger ----------------------------
(***************************************************************************)
(* What the runner promises about effects and money, with no leases,       *)
(* claims, processes or crashes in it: an effect is admitted once, only    *)
(* when the budget covers everything still open, and is settled once, for  *)
(* at most what it reserved.  FencedRunner implements it.                  *)
(***************************************************************************)
EXTENDS Integers, FiniteSetsExt

CONSTANTS Op, Amount, InitialLimit, Ceiling

VARIABLES
  open,     \* admitted and not yet settled
  settled,  \* settled for good
  spent,    \* what settled effects cost
  limit     \* what the run may spend

ledger == <<open, settled, spent, limit>>

Promised == MapThenSumSet(LAMBDA o : Amount[o], open)

Init ==
  /\ open = {}
  /\ settled = {}
  /\ spent = 0
  /\ limit = InitialLimit

Admit(o) ==
  /\ o \notin open \cup settled
  /\ spent + Promised + Amount[o] <= limit
  /\ open' = open \cup {o}
  /\ UNCHANGED <<settled, spent, limit>>

Settle(o) ==
  /\ o \in open
  /\ open' = open \ {o}
  /\ settled' = settled \cup {o}
  /\ \E used \in 0..Amount[o] : spent' = spent + used
  /\ UNCHANGED limit

Raise ==
  /\ limit' \in (limit + 1)..Ceiling
  /\ UNCHANGED <<open, settled, spent>>

Next == Raise \/ \E o \in Op : Admit(o) \/ Settle(o)

Spec == Init /\ [][Next]_ledger
=============================================================================
