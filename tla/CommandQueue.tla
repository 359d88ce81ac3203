---------------------------- MODULE CommandQueue ----------------------------
(***************************************************************************)
(* CommandQueue, Command::execute_with_retry and PostgresClient of         *)
(* examples/command/main.cpp.  The connection to the database may be lost  *)
(* between any two steps.  A command is known by its number; the tables    *)
(* and the data it is about are left out, and so is its kind, since the    *)
(* three kinds of command differ in what the client logs only.             *)
(***************************************************************************)
EXTENDS Integers, Sequences, SequencesExt

CONSTANTS
  Cmds,         \* the commands
  MaxAttempts,  \* bound: max_attempts of a call; below one all mean none
  MaxApplied    \* bound: the statements the database executes in all

VARIABLES
  connected,  \* connected_
  commands,   \* commands_
  applied,    \* the commands the database has executed, in order
  call,       \* the call in progress: execute_all, execute_with_retry or none
  outcome     \* how the last call ended

vars == <<connected, commands, applied, call, outcome>>

Idle == [op |-> "none"]

Init ==
  /\ connected = TRUE
  /\ commands = <<>>
  /\ applied = <<>>
  /\ call = Idle
  /\ outcome = "none"

Ends(how) == call' = Idle /\ outcome' = how

(* The client throws when it is not connected and executes cmd otherwise.  *)
Execute(cmd) == connected /\ applied' = Append(applied, cmd)
Throws       == ~connected /\ UNCHANGED applied

-----------------------------------------------------------------------------
(* add_command(cmd)                                                        *)
AddCommand(cmd) ==
  /\ call = Idle
  /\ \A i \in DOMAIN commands : commands[i] # cmd
  /\ commands' = Append(commands, cmd)
  /\ UNCHANGED <<connected, applied, call, outcome>>

ExecuteAll ==
  /\ call = Idle
  /\ Len(applied) + Len(commands) <= MaxApplied
  /\ call' = [op |-> "execute_all", at |-> 1, start |-> Len(applied)]
  /\ UNCHANGED <<connected, commands, applied, outcome>>

(* Variants with one plausible slip each, which take no part in the        *)
(* specification; they serve to show that a property notices the slip.     *)
BatchThrowsCleared ==
  /\ call.at <= Len(commands)
  /\ Throws
  /\ Ends("threw")
  /\ commands' = <<>>
  /\ UNCHANGED connected
RetryWithoutReturn ==
  /\ Execute(call.cmd)
  /\ IF call.at = call.max
     THEN Ends("returned")
     ELSE call' = [call EXCEPT !.at = @ + 1] /\ UNCHANGED outcome
  /\ UNCHANGED <<connected, commands>>
ReconnectForever ==
  /\ Throws
  /\ connected' = TRUE
  /\ call' = [call EXCEPT !.at = @ + 1]
  /\ UNCHANGED <<commands, outcome>>

(* One turn of the loop of execute_all.  An exception leaves the queue as  *)
(* it is, what has been executed included.                                 *)
BatchThrows ==
  /\ call.at <= Len(commands)
  /\ Throws
  /\ Ends("threw")
  /\ UNCHANGED <<connected, commands>>

BatchGoesOn ==
  /\ call.at <= Len(commands)
  /\ Execute(commands[call.at])
  /\ call' = [call EXCEPT !.at = @ + 1]
  /\ UNCHANGED <<connected, commands, outcome>>

BatchEnds ==
  /\ call.at > Len(commands)
  /\ commands' = <<>>
  /\ UNCHANGED <<connected, applied>>
  /\ Ends("returned")

-----------------------------------------------------------------------------
ExecuteWithRetry(cmd, max_attempts) ==
  /\ call = Idle
  /\ Len(applied) < MaxApplied
  /\ call' = [op |-> "execute_with_retry", at |-> 1, start |-> Len(applied),
              cmd |-> cmd, max |-> max_attempts]
  /\ UNCHANGED <<connected, commands, applied, outcome>>

(* One attempt: it succeeds ...                                            *)
AttemptSucceeds ==
  /\ call.at <= call.max
  /\ Execute(call.cmd)
  /\ Ends("returned")
  /\ UNCHANGED <<connected, commands>>

(* ... fails for the last time and throws again, or reconnects.            *)
GiveUp ==
  /\ call.at = call.max
  /\ Throws
  /\ Ends("threw")
  /\ UNCHANGED <<connected, commands>>

Reconnect ==
  /\ call.at < call.max
  /\ Throws
  /\ connected' = TRUE
  /\ call' = [call EXCEPT !.at = @ + 1]
  /\ UNCHANGED <<commands, outcome>>

(* A call that allows no attempt returns having done nothing.              *)
LoopEnds ==
  /\ call.at > call.max
  /\ Ends("returned")
  /\ UNCHANGED <<connected, commands, applied>>

-----------------------------------------------------------------------------
(* disconnect(), or the network.                                           *)
ConnectionLost ==
  /\ connected
  /\ connected' = FALSE
  /\ UNCHANGED <<commands, applied, call, outcome>>

(* reconnect() by the caller.                                              *)
CallerReconnects ==
  /\ call = Idle /\ ~connected
  /\ connected' = TRUE
  /\ UNCHANGED <<commands, applied, call, outcome>>

Next ==
  \/ \E cmd \in Cmds : AddCommand(cmd)
  \/ \E cmd \in Cmds, max_attempts \in 0..MaxAttempts : ExecuteWithRetry(cmd, max_attempts)
  \/ ExecuteAll
  \/ call.op = "execute_all" /\ (BatchThrows \/ BatchGoesOn \/ BatchEnds)
  \/ call.op = "execute_with_retry" /\ (AttemptSucceeds \/ GiveUp \/ Reconnect \/ LoopEnds)
  \/ ConnectionLost \/ CallerReconnects

Spec == Init /\ [][Next]_vars

-----------------------------------------------------------------------------
(* The calls are made of what they need, and no command is queued twice.   *)
TypeOK ==
  /\ connected \in BOOLEAN
  /\ IsInjective(commands) /\ ToSet(commands) \subseteq Cmds
  /\ ToSet(applied) \subseteq Cmds /\ Len(applied) <= MaxApplied
  /\ outcome \in {"none", "returned", "threw"}
  /\ call.op = "execute_all" => call.at \in 1..Len(commands) + 1
  /\ call.op = "execute_with_retry" =>
       /\ call.cmd \in Cmds /\ call.max \in 0..MaxAttempts
       /\ call.at = 1 \/ call.at \in 1..call.max

(* What the database has executed for a call by the time of its next step. *)
Executed == SubSeq(applied', call.start + 1, Len(applied'))

(* A command leaves the queue only when the execute_all that takes it out  *)
(* has executed every queued command, in order and once each; a batch that *)
(* threw is still queued.                                                  *)
QueuedUntilApplied ==
  [][\/ IsPrefix(commands, commands')
     \/ /\ call.op = "execute_all" /\ outcome' = "returned"
        /\ Executed = commands /\ commands' = <<>>]_vars

(* execute_with_retry executes its command once when it returns, however   *)
(* often the connection was lost meanwhile, and never when it throws or    *)
(* was allowed no attempt.                                                 *)
RetryAppliesOnce ==
  [][call.op = "execute_with_retry" /\ call' = Idle =>
       Executed = IF outcome' = "returned" /\ call.max > 0 THEN <<call.cmd>> ELSE <<>>]_vars
=============================================================================
