----------------------------- MODULE WorkBroker -----------------------------
(***************************************************************************)
(* The context broker of one run: ContextBroker (packages/runtime) as      *)
(* stored by SqliteContextBroker.  It holds the dispatches, which attempt  *)
(* of each task may hand work in, and what agents submitted.  Operators    *)
(* take the broker b, a value, and return the one a transaction leaves.    *)
(* A hand-in stands for the required outputs followed by the completion.   *)
(***************************************************************************)
EXTENDS RunRecords

\* A question an agent asked, or one the driver asks after so many tries.
Question ==
  [dispatch : Dispatch, kind : {"asked"}, tries : {0}] \cup
  [dispatch : Dispatch, kind : {"exhausted"}, tries : 0 .. MaxOrdinal]

BrokerInit ==
  [dispatches |-> {},
   holder     |-> [t \in Task |-> 0],  \* the attempt that holds the task's scope
   handed     |-> {},                  \* dispatches with a terminal completion
   delivered  |-> {},                  \* those whose fact was handed over
   questions  |-> {}]

BrokerType ==
  [dispatches : SUBSET Dispatch, holder : [Task -> 0 .. MaxOrdinal],
   handed : SUBSET Dispatch, delivered : SUBSET Dispatch, questions : SUBSET Question]

\* The dispatches of a task, and of a phase.
Of(b, t) == {d \in b.dispatches : d.task = t}
OfPhase(b, p) == {d \in b.dispatches : d.task \in Tasks(p)}

----------------------------------------------------------------------------
(* registerDispatch, after the phase attempt took its ordinal *)

\* An ordinal belongs to one attempt of the phase; the scope only moves on.
MayRegister(b, d) ==
  /\ \A e \in OfPhase(b, PhaseOf(d.task)) : e.ordinal # d.ordinal
  /\ b.holder[d.task] < d.ordinal

Register(b, d) ==
  [b EXCEPT !.dispatches = @ \cup {d}, !.holder[d.task] = d.ordinal]

----------------------------------------------------------------------------
(* admitSubmission *)

Stale(b, d) == b.holder[d.task] # d.ordinal

\* A stale or second completion is stored and changes nothing.
HandIn(b, d) ==
  IF Stale(b, d) \/ d \in b.handed THEN b ELSE [b EXCEPT !.handed = @ \cup {d}]

\* A question is kept even when the attempt has lost its scope.
AddQuestion(b, q) == [b EXCEPT !.questions = @ \cup {q}]

\* (Faulty variant: a dispatch has a fact before its agent completed it.)
UndeliveredEarly(b) == b.dispatches \ b.delivered

Undelivered(b) == b.handed \ b.delivered
Deliver(b, d) == [b EXCEPT !.delivered = @ \cup {d}]
=============================================================================
