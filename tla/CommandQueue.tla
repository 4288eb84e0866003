---------------------------- MODULE CommandQueue ----------------------------
(***************************************************************************)
(* The durable half of the supervisor: SqliteSupervisorAuthority           *)
(* (packages/supervisor/src/command-queue.ts) over the tables of           *)
(* supervisor_commands, supervisor_receipts, supervisor_wakes and leases,  *)
(* and the command authority a queued command is submitted to.  Each       *)
(* operator is one transaction; who calls it, and when, is                 *)
(* SupervisorService.                                                      *)
(*                                                                         *)
(* A lease's fence and expiry are only ever compared with the ones a grant *)
(* or a claim carries, so the model keeps the result of the comparison:    *)
(* `holder' is the process whose grant is the row as it stands, and a      *)
(* claim is "held" or, once the fence has moved or its time has passed,    *)
(* "lapsed".                                                               *)
(***************************************************************************)
EXTENDS Naturals, FiniteSets

CONSTANTS
  Command,   \* command identities
  Run,       \* runs, as the numbers that order their identities
  RunOf,     \* the run a command names
  Owner,     \* processes that drive runs
  NoOwner, NoCommand

ASSUME QueueAssumption ==
  /\ Run \subseteq Nat \ {0}
  /\ RunOf \in [Command -> Run]
  /\ IsFiniteSet(Command)
  /\ NoOwner \notin Owner
  /\ NoCommand \notin Command

VARIABLES
  mode,      \* the supervisor's desired mode
  leased,    \* per run: who the lease row names
  live,      \* per run: whether the row's expiry is still to come
  holder,    \* per run: whose grant equals the row in owner, fence and expiry
  state,     \* per command: the row's state
  place,     \* per command: its accepted_sequence, 0 before acceptance
  claim,     \* per command: "none", "held" or "lapsed"
  claimant,  \* per command: the owner its claim names
  receipts,  \* per command: the staged receipts, oldest first
  applied,   \* per command: how often the command authority executed it
  generation, acknowledged  \* per run: the wake row

leaseVars == <<leased, live, holder>>
wakeVars == <<generation, acknowledged>>
commandVars == <<state, place, claim, claimant, receipts, applied>>
queueVars == <<mode, leaseVars, commandVars, wakeVars>>

----------------------------------------------------------------------------
(* Values *)

ServiceModes == {"running", "draining", "drained", "stopped"}
Staged == {"queued", "claimed", "terminal"}

QueueTypeOK ==
  /\ mode \in ServiceModes
  /\ leased \in [Run -> Owner \cup {NoOwner}]
  /\ live \in [Run -> BOOLEAN]
  /\ holder \in [Run -> Owner \cup {NoOwner}]
  /\ state \in [Command -> Staged \cup {"none"}]
  /\ place \in [Command -> Nat]
  /\ claim \in [Command -> {"none", "held", "lapsed"}]
  /\ claimant \in [Command -> Owner \cup {NoOwner}]
  /\ receipts \in [Command -> [Staged -> Nat]]
  /\ applied \in [Command -> Nat]
  /\ generation \in [Run -> Nat]
  /\ acknowledged \in [Run -> Nat]

QueueInit ==
  /\ mode = "running"
  /\ leased = [r \in Run |-> NoOwner]
  /\ live = [r \in Run |-> FALSE]
  /\ holder = [r \in Run |-> NoOwner]
  /\ state = [c \in Command |-> "none"]
  /\ place = [c \in Command |-> 0]
  /\ claim = [c \in Command |-> "none"]
  /\ claimant = [c \in Command |-> NoOwner]
  /\ receipts = [c \in Command |-> [s \in Staged |-> 0]]
  /\ applied = [c \in Command |-> 0]
  /\ generation = [r \in Run |-> 0]
  /\ acknowledged = [r \in Run |-> 0]

----------------------------------------------------------------------------
(* Queries *)

CommandsOf(r) == {c \in Command : RunOf[c] = r}
Unfinished(r) == {c \in CommandsOf(r) : state[c] \in {"queued", "claimed"}}

\* listPendingWakes: an unacknowledged generation or a command not terminal.
PendingWakes == {r \in Run : generation[r] > acknowledged[r] \/ Unfinished(r) # {}}

Earliest(runs) == CHOOSE r \in runs : \A other \in runs : r <= other

\* accept refuses once the supervisor is drained; draining still accepts.
TakesCommands == mode \in {"running", "draining"}

NextPlace(r) == 1 + Cardinality({c \in CommandsOf(r) : place[c] # 0})

\* Queued, or claimed under an older fence or beyond the claim's expiry.
\* (Faulty variant: a claim is never given up.)
ClaimableUnlessClaimed(c) == state[c] = "queued"
Claimable(c) ==
  \/ state[c] = "queued"
  \/ state[c] = "claimed" /\ claim[c] = "lapsed"

\* The first of them in the order of acceptance.
\* (Faulty variant: any of them.)
AnyClaimable(r) == {c \in CommandsOf(r) : Claimable(c)}
NextClaimable(r) ==
  {c \in CommandsOf(r) : Claimable(c)
      /\ \A d \in CommandsOf(r) : Claimable(d) => place[c] <= place[d]}

----------------------------------------------------------------------------
(* Transactions *)

Stage(c, status) == receipts' = [receipts EXCEPT ![c][status] = @ + 1]

\* accept.  A command already there is replayed, which writes nothing.
ArmWake(r) == generation' = [generation EXCEPT ![r] = @ + 1]
Accept(c) ==
  IF state[c] # "none"
  THEN UNCHANGED queueVars
  ELSE /\ TakesCommands
       /\ state' = [state EXCEPT ![c] = "queued"]
       /\ place' = [place EXCEPT ![c] = NextPlace(RunOf[c])]
       /\ Stage(c, "queued")
       /\ ArmWake(RunOf[c])
       /\ UNCHANGED <<mode, leaseVars, claim, claimant, applied, acknowledged>>

\* acquireRunLease: the owner of a live row keeps its fence, which leaves the
\* claims made under it standing; any other grant takes the next fence, and
\* every claim on the run's commands lapses.
LeaseFree(p, r) == live[r] => leased[r] = p
AcquireRunLease(p, r) ==
  /\ LeaseFree(p, r)
  /\ leased' = [leased EXCEPT ![r] = p]
  /\ live' = [live EXCEPT ![r] = TRUE]
  /\ holder' = [holder EXCEPT ![r] = p]
  /\ claim' = [c \in Command |->
       IF RunOf[c] = r /\ claim[c] = "held" /\ ~live[r] THEN "lapsed" ELSE claim[c]]
  /\ UNCHANGED <<mode, state, place, claimant, receipts, applied, wakeVars>>

\* A lease of which the expiry has passed, and with it the claims made under it.
LapseRunLease(r) ==
  /\ live[r]
  /\ live' = [live EXCEPT ![r] = FALSE]
  /\ claim' = [c \in Command |->
       IF RunOf[c] = r /\ claim[c] = "held" THEN "lapsed" ELSE claim[c]]
  /\ UNCHANGED <<mode, leased, holder, state, place, claimant, receipts, applied, wakeVars>>

\* A claim keeps the expiry it was made under: when its owner is granted the
\* live lease again, for longer, the claim of an earlier cycle lapses alone.
LapseClaim(c) ==
  /\ claim[c] = "held"
  /\ claim' = [claim EXCEPT ![c] = "lapsed"]
  /\ UNCHANGED <<mode, leaseVars, state, place, claimant, receipts, applied, wakeVars>>

\* releaseRunLease: the row exactly as granted, and not expired.
Holds(p, r) == holder[r] = p
CanRelease(p, r) == Holds(p, r) /\ live[r]
ReleaseRunLease(p, r) ==
  /\ CanRelease(p, r)
  /\ live' = [live EXCEPT ![r] = FALSE]
  /\ holder' = [holder EXCEPT ![r] = NoOwner]
  /\ UNCHANGED <<mode, leased, commandVars, wakeVars>>

\* #claim: the first claimable command; its claim is stated once, however
\* often it is claimed again.
\* (Faulty variant: every claim is stated.)
StageClaimEach(c) == Stage(c, "claimed")
StageClaim(c) ==
  IF state[c] = "queued" THEN Stage(c, "claimed") ELSE UNCHANGED receipts
CanClaim(p, r) == mode = "running" /\ Holds(p, r) /\ live[r]
ClaimNext(p, r, c) ==
  /\ CanClaim(p, r)
  /\ c \in NextClaimable(r)
  /\ state' = [state EXCEPT ![c] = "claimed"]
  /\ claim' = [claim EXCEPT ![c] = "held"]
  /\ claimant' = [claimant EXCEPT ![c] = p]
  /\ StageClaim(c)
  /\ UNCHANGED <<mode, leaseVars, place, applied, wakeVars>>

\* SqliteAuthority.submit: a command it has executed is answered from its
\* stored receipt.  (Faulty variant: it is executed again.)
SubmitAgain(c) == applied' = [applied EXCEPT ![c] = @ + 1]
Submit(c) == applied' = [applied EXCEPT ![c] = IF @ = 0 THEN 1 ELSE @]

\* #ackTerminal answers a command claimed under the grant, which is still the
\* lease's row; a command already terminal is replayed; the last one of a run
\* acknowledges its wake.
\* (Faulty variants: the lease is not looked at; the wake is acknowledged
\* whatever else the run has queued.)
MayAnswerUnleased(p, c) == state[c] = "claimed"
MayAnswer(p, c) ==
  state[c] = "claimed" /\ claimant[c] = p /\ Holds(p, RunOf[c])
WakeSettledAlways(r, rest) == TRUE
WakeSettled(r, rest) == rest = {}
AnswerTerminal(p, c) ==
  /\ MayAnswer(p, c)
  /\ state' = [state EXCEPT ![c] = "terminal"]
  /\ claim' = [claim EXCEPT ![c] = "none"]
  /\ claimant' = [claimant EXCEPT ![c] = NoOwner]
  /\ Stage(c, "terminal")
  /\ acknowledged' = [acknowledged EXCEPT ![RunOf[c]] =
       IF WakeSettled(RunOf[c], Unfinished(RunOf[c]) \ {c})
       THEN generation[RunOf[c]] ELSE @]
  /\ UNCHANGED <<mode, leaseVars, place, applied, generation>>

\* acknowledgeWake: only at the generation observed, and with nothing queued.
\* (Faulty variant: at whatever generation the row has reached.)
AcknowledgeBlindly(r, observed) ==
  acknowledged' = [acknowledged EXCEPT ![r] = generation[r]]
AcknowledgeWake(r, observed) ==
  acknowledged' = [acknowledged EXCEPT ![r] =
     IF generation[r] = observed /\ @ < observed /\ Unfinished(r) = {}
     THEN observed ELSE @]

SetMode(m) == mode' = m
NoChange == UNCHANGED queueVars
=============================================================================
