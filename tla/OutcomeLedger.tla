---------------------------- MODULE OutcomeLedger ----------------------------
(***************************************************************************)
(* The agent's command service: "radio off" commands with a durable        *)
(* outcome ledger and a fencing token per resource group.                  *)
(*                                                                         *)
(* One command runs at a time (CommandService.mu).  Its request names the  *)
(* agent's life and the hardware revision it was made for.  The executor   *)
(* and the radio are external; an executor that returns an error has not   *)
(* dispatched.  The agent may stop between any two steps; what is left     *)
(* accepted is reconciled later, by a probe, never dispatched again.       *)
(***************************************************************************)
EXTENDS Naturals, Sequences, FiniteSets, SequencesExt

CONSTANTS
  Commands,       \* requests: operation, group, generation, token, life, revision
  MaxOutcomes,    \* terminal outcomes kept
  MaxGroups,      \* resource groups with a fence
  MaxLife,        \* bound: agent restarts
  MaxRevision     \* bound: hardware changes

LedgerAssumption ==
  /\ MaxOutcomes \in Nat \ {0} /\ MaxGroups \in Nat \ {0}
  /\ MaxLife \in Nat /\ MaxRevision \in Nat
  /\ \A c \in Commands : c.token \in Nat \ {0} /\ c.generation \in Nat \ {0}
ASSUME LedgerAssumption

VARIABLES
  ledger,      \* command_outcomes, in the order of acceptance
  fences,      \* resource_group_fences
  command,     \* the command in progress, or NoCommand
  observed,    \* the published snapshot: agent life and revision
  radioOff,    \* external: the radio is off
  dispatched,  \* external: requests that reached the radio, how often
  sawOff       \* operations accepted since the radio was last off

ledgerVars == <<ledger, fences, command, observed, radioOff, dispatched, sawOff>>

OperationIds == {c.operation : c \in Commands}
Groups == {c.group : c \in Commands}
NoCommand == [at |-> "none"]
Terminal == {"succeeded", "failed", "uncertain"}
Codes == {"accepted", "confirmed", "not_confirmed", "hardware_changed", "error"}
Outcomes == [request : Commands, state : {"accepted"} \cup Terminal, code : Codes]
Snapshots == [life : 1 .. MaxLife + 1, revision : 1 .. MaxRevision + 1]

LedgerTypeOK ==
  /\ ledger \in Seq(Outcomes)
  /\ DOMAIN fences \subseteq Groups
  /\ \A g \in DOMAIN fences : fences[g] \in [generation : Nat, token : Nat]
  /\ \/ command = NoCommand
     \/ command \in [at : {"accepted", "execute", "executed"},
                     request : Commands, snapshot : Snapshots,
                     dispatched : BOOLEAN, state : Terminal, code : Codes]
  /\ observed \in Snapshots
  /\ radioOff \in BOOLEAN
  /\ dispatched \in [Commands -> Nat]
  /\ sawOff \subseteq OperationIds

LedgerInit ==
  /\ ledger = << >>
  /\ fences = << >>
  /\ command = NoCommand
  /\ observed = [life |-> 1, revision |-> 1]
  /\ radioOff = FALSE
  /\ dispatched = [c \in Commands |-> 0]
  /\ sawOff = {}

Entry(o) == {i \in DOMAIN ledger : ledger[i].request.operation = o}
Accepted == {i \in DOMAIN ledger : ledger[i].state = "accepted"}

-----------------------------------------------------------------------------

(* Find: an operation in the ledger is answered from it, or refused when   *)
(* the request differs.                                                    *)
AnswerKnown(c) ==
  /\ command = NoCommand
  /\ \E i \in Entry(c.operation) :
       ledger[i].request # c \/ ledger[i].state \in Terminal
  /\ UNCHANGED ledgerVars

Stale(c) == c.life # observed.life \/ c.revision # observed.revision

(* advanceFence: the token of a group only grows.                          *)
FenceHolds(c) ==
  IF c.group \in DOMAIN fences
    THEN /\ c.generation >= fences[c.group].generation
         /\ c.token > fences[c.group].token
    ELSE Cardinality(DOMAIN fences) < MaxGroups

Fenced(c) == [g \in DOMAIN fences \cup {c.group} |->
                IF g = c.group
                  THEN [generation |-> c.generation, token |-> c.token]
                  ELSE fences[g]]

(* makeOutcomeCapacity: the oldest outcomes go.  None of them is pending:  *)
(* Accept counts those first.                                              *)
Excess == Len(ledger) - MaxOutcomes + 1
Kept == IF Excess <= 0 THEN ledger ELSE SubSeq(ledger, Excess + 1, Len(ledger))

(* Accept: one transaction.                                                *)
Accept(c) ==
  /\ command = NoCommand
  /\ Entry(c.operation) = {}
  /\ ~Stale(c)
  /\ Accepted = {}
  /\ FenceHolds(c)
  /\ fences' = Fenced(c)
  /\ ledger' = Append(Kept, [request |-> c, state |-> "accepted",
                             code |-> "accepted"])
  /\ command' = [at |-> "accepted", request |-> c, snapshot |-> observed,
                 dispatched |-> FALSE, state |-> "failed", code |-> "error"]
  /\ sawOff' = IF radioOff THEN sawOff \cup {c.operation}
                           ELSE sawOff \ {c.operation}
  /\ UNCHANGED <<observed, radioOff, dispatched>>

RefuseCommand(c) ==
  /\ command = NoCommand
  /\ Entry(c.operation) = {}
  /\ Stale(c) \/ Accepted # {} \/ ~FenceHolds(c)
  /\ UNCHANGED ledgerVars

Draft(step, did, state, code) ==
  command' = [command EXCEPT !.at = step, !.dispatched = did,
                !.state = state, !.code = code]

(* The hardware changed since the request was checked: nothing is done.    *)
CheckBefore ==
  /\ command # NoCommand /\ command.at = "accepted"
  /\ IF observed = command.snapshot
       THEN Draft("execute", FALSE, "failed", "error")
       ELSE Draft("executed", FALSE, "failed", "hardware_changed")
  /\ UNCHANGED <<ledger, fences, observed, radioOff, dispatched, sawOff>>

Reaches(c, off) ==
  /\ radioOff' = (radioOff \/ off)
  /\ sawOff' = IF off THEN OperationIds ELSE sawOff
  /\ dispatched' = [dispatched EXCEPT ![c] = @ + 1]

(* The executor (external) and outcomeFromExecution.                       *)
Execute ==
  /\ command # NoCommand /\ command.at = "execute"
  /\ \/ Draft("executed", FALSE, "failed", "hardware_changed")
        /\ UNCHANGED <<radioOff, dispatched, sawOff>>
     \/ Draft("executed", FALSE, "failed", "error")
        /\ UNCHANGED <<radioOff, dispatched, sawOff>>
     \/ radioOff /\ Draft("executed", FALSE, "succeeded", "confirmed")
        /\ UNCHANGED <<radioOff, dispatched, sawOff>>
     \/ \E off \in BOOLEAN :
          /\ Reaches(command.request, off)
          /\ \/ radioOff' /\ Draft("executed", TRUE, "succeeded", "confirmed")
             \/ ~radioOff' /\ Draft("executed", TRUE, "failed", "not_confirmed")
             \/ Draft("executed", TRUE, "uncertain", "error")
  /\ UNCHANGED <<ledger, fences, observed>>

(* The hardware is compared once more after the execution.                 *)
MutantDecided == [state |-> "failed", code |-> "hardware_changed"]
Decided ==
  IF observed = command.snapshot
    THEN [state |-> command.state, code |-> command.code]
    ELSE [state |-> IF command.dispatched THEN "uncertain" ELSE "failed",
          code |-> "hardware_changed"]

Completed(o, outcome) ==
  ledger' = [i \in DOMAIN ledger |->
               IF i \in Entry(o) /\ ledger[i].state = "accepted"
                 THEN [ledger[i] EXCEPT !.state = outcome.state,
                                        !.code = outcome.code]
                 ELSE ledger[i]]

Persist ==
  /\ command # NoCommand /\ command.at = "executed"
  /\ Completed(command.request.operation, Decided)
  /\ command' = NoCommand
  /\ UNCHANGED <<fences, observed, radioOff, dispatched, sawOff>>

(* The write fails or the agent stops: the entry stays accepted.  Only a   *)
(* restart is a new life.                                                  *)
WriteFails ==
  /\ command # NoCommand /\ command.at = "executed"
  /\ command' = NoCommand
  /\ UNCHANGED <<ledger, fences, observed, radioOff, dispatched, sawOff>>

Restart ==
  /\ observed.life <= MaxLife
  /\ observed' = [observed EXCEPT !.life = @ + 1]
  /\ command' = NoCommand
  /\ UNCHANGED <<ledger, fences, radioOff, dispatched, sawOff>>

(* reconcile, for a replayed request or every pending one: the probe of    *)
(* the same hardware decides; what it does not show is uncertain.          *)
Reconcile(i) ==
  /\ command = NoCommand
  /\ i \in Accepted
  /\ LET r == ledger[i].request IN
       \/ /\ observed.revision = r.revision /\ radioOff
          /\ Completed(r.operation, [state |-> "succeeded", code |-> "confirmed"])
       \/ Completed(r.operation,
            [state |-> "uncertain",
             code |-> IF observed.revision = r.revision THEN "error"
                                                       ELSE "hardware_changed"])
  /\ UNCHANGED <<fences, command, observed, radioOff, dispatched, sawOff>>

(* External: the hardware changes, the user switches the radio on.         *)
HardwareChanges ==
  /\ observed.revision <= MaxRevision
  /\ observed' = [observed EXCEPT !.revision = @ + 1]
  /\ UNCHANGED <<ledger, fences, command, radioOff, dispatched, sawOff>>

RadioOn ==
  /\ radioOff
  /\ radioOff' = FALSE
  /\ UNCHANGED <<ledger, fences, command, observed, dispatched, sawOff>>

LedgerNext ==
  \/ \E c \in Commands : AnswerKnown(c) \/ Accept(c) \/ RefuseCommand(c)
  \/ CheckBefore \/ Execute \/ Persist \/ WriteFails \/ Restart
  \/ \E i \in DOMAIN ledger : Reconcile(i)
  \/ HardwareChanges \/ RadioOn

LedgerSpec == LedgerInit /\ [][LedgerNext]_ledgerVars

-----------------------------------------------------------------------------

(* A request reaches the radio at most once, and of those with the same    *)
(* token only one does, also when its outcome has left the ledger: the     *)
(* group's fence remembers the token (outcome_store.go:268).               *)
SameToken(c, d) == c.group = d.group /\ c.token = d.token
DispatchedOnce ==
  \A c \in Commands :
    /\ dispatched[c] <= 1
    /\ \A d \in Commands :
         SameToken(c, d) /\ dispatched[c] > 0 /\ dispatched[d] > 0 => c = d

(* One outcome is pending at most: the one the command in progress will    *)
(* complete, or one that waits for reconciliation.                         *)
OnePending ==
  /\ Cardinality(Accepted) <= 1
  /\ command # NoCommand =>
       \E i \in Accepted : ledger[i].request = command.request

(* Outcomes are true: "succeeded" only if the radio was off at some time   *)
(* since acceptance; "failed" for changed hardware only if the command     *)
(* never reached the radio (command_service.go:105-113).                   *)
OutcomesAreTrue ==
  \A i \in DOMAIN ledger :
    /\ ledger[i].state = "succeeded" => ledger[i].request.operation \in sawOff
    /\ ledger[i].state = "failed" /\ ledger[i].code = "hardware_changed"
         => dispatched[ledger[i].request] = 0

LedgerIsSafe == LedgerTypeOK /\ DispatchedOnce /\ OnePending /\ OutcomesAreTrue
=============================================================================
