------------------------------ MODULE Reactor ------------------------------
(***************************************************************************)
(* examples/reactor/main.cpp: writer threads (simulate_source) that send   *)
(* newline-terminated messages through pipes, and the event loop of main() *)
(* that polls the read ends and dispatches each ready one to               *)
(* drain_one_message.                                                      *)
(*                                                                         *)
(* Message n of a source is two tokens in its pipe, n for its text and     *)
(* Newline; each system call is an action.                                 *)
(***************************************************************************)
EXTENDS Naturals, Sequences, FiniteSets

CONSTANTS
  NumSources,   \* pipes, watchers and writer threads
  NumEvents,    \* messages each writer sends
  PipeCapacity  \* what the kernel's pipe buffer holds, in tokens

(* An empty pipe takes a whole message: the messages are short lines.      *)
ASSUME ReactorAssumption ==
  /\ NumSources \in Nat \ {0}
  /\ NumEvents \in Nat
  /\ PipeCapacity \in Nat \ {0, 1}

Sources == 1..NumSources

(* No message has number 0.                                                *)
Newline == 0

Tokens == 0..NumEvents

VARIABLES
  sent,       \* number of messages each writer has written
  writeOpen,  \* is the write end open?  Its owner is the writer
  pipe,       \* the bytes in each pipe
  readOpen,   \* is the read end open?
  watched,    \* does the watcher hold a descriptor?  FALSE: fd == -1
  revents,    \* what the last poll reported of each watcher
  loop,       \* where main() is, see LoopPc
  cur,        \* the watcher the for loop is at
  message,    \* drain_one_message's local variable message
  active,     \* active_sources
  delivered   \* the messages each handler has logged

vars == <<sent, writeOpen, pipe, readOpen, watched, revents, loop, cur,
          message, active, delivered>>

writers == <<sent, writeOpen>>

LoopPc == {"polling", "scanning", "reading", "joining", "exit"}

Events == {"POLLIN", "POLLHUP"}

Watched == {s \in Sources : watched[s]}

-----------------------------------------------------------------------------
(* Variants with one plausible slip each, which take no part in the        *)
(* specification; they serve to show that a property notices the slip.     *)
WriteInTwoParts(s) ==
  /\ writeOpen[s]
  /\ sent[s] < NumEvents
  /\ Len(pipe[s]) < PipeCapacity
  /\ LET textLast == pipe[s] # <<>> /\ pipe[s][Len(pipe[s])] # Newline
     IN  /\ pipe' = [pipe EXCEPT ![s] = Append(@, IF textLast THEN Newline ELSE sent[s] + 1)]
         /\ sent' = [sent EXCEPT ![s] = IF textLast THEN @ + 1 ELSE @]
  /\ UNCHANGED <<writeOpen, readOpen, watched, revents, loop, cur, message, active, delivered>>
OnlyPollin == {"POLLIN"}
NeverEndsMessage(ch) == FALSE
EofAtHangup == ~writeOpen[cur]
RetireStillWatched ==
  /\ readOpen' = [readOpen EXCEPT ![cur] = FALSE]
  /\ active' = active - 1
  /\ UNCHANGED watched

-----------------------------------------------------------------------------
Init ==
  /\ sent = [s \in Sources |-> 0]
  /\ writeOpen = [s \in Sources |-> TRUE]
  /\ pipe = [s \in Sources |-> <<>>]
  /\ readOpen = [s \in Sources |-> TRUE]
  /\ watched = [s \in Sources |-> TRUE]
  /\ revents = [s \in Sources |-> {}]
  /\ loop = "polling"
  /\ cur = 1
  /\ message = <<>>
  /\ active = NumSources
  /\ delivered = [s \in Sources |-> <<>>]

(***************************************************************************)
(* simulate_source                                                         *)
(***************************************************************************)

(* write_message: one write call writes the whole line, since POSIX makes  *)
(* the write of a short line to a pipe atomic; it waits for room.  So the  *)
(* loop for partial writes ends after one turn.                            *)
Write(s) ==
  /\ writeOpen[s]
  /\ sent[s] < NumEvents
  /\ Len(pipe[s]) + 2 <= PipeCapacity
  /\ pipe' = [pipe EXCEPT ![s] = @ \o <<sent[s] + 1, Newline>>]
  /\ sent' = [sent EXCEPT ![s] = @ + 1]
  /\ UNCHANGED <<writeOpen, readOpen, watched, revents, loop, cur, message, active, delivered>>

(* The parameter fd goes out of scope, which closes the write end, and the *)
(* thread returns.                                                         *)
WriterReturns(s) ==
  /\ writeOpen[s]
  /\ sent[s] = NumEvents
  /\ writeOpen' = [writeOpen EXCEPT ![s] = FALSE]
  /\ UNCHANGED <<sent, pipe, readOpen, watched, revents, loop, cur, message, active, delivered>>

Writer(s) == Write(s) \/ WriterReturns(s)

(***************************************************************************)
(* main()'s event loop                                                     *)
(***************************************************************************)

(* What poll reports of watcher s now; nothing when its fd is -1.          *)
Ready(s) ==
  (IF watched[s] /\ pipe[s] # <<>> THEN {"POLLIN"} ELSE {})
    \cup (IF watched[s] /\ ~writeOpen[s] THEN {"POLLHUP"} ELSE {})

SomeReady == \E s \in Sources : Ready(s) # {}

(* poll() returns ready descriptors and the for loop begins.               *)
Poll ==
  /\ loop = "polling"
  /\ SomeReady
  /\ revents' = [s \in Sources |-> Ready(s)]
  /\ loop' = "scanning"
  /\ cur' = 1
  /\ UNCHANGED <<writers, pipe, readOpen, watched, message, active, delivered>>

(* poll() times out: the idle tick polls again.                            *)
IdleTick ==
  /\ loop = "polling"
  /\ ~SomeReady
  /\ revents' = [s \in Sources |-> {}]
  /\ UNCHANGED <<writers, pipe, readOpen, watched, loop, cur, message, active, delivered>>

(* The event bits that make the loop dispatch.  The third in the code,     *)
(* POLLERR, is not reported for the read end of a pipe.                    *)
Relevant == {"POLLIN", "POLLHUP"}

(* The watcher is inactive or had no relevant event when poll returned.    *)
Skip ==
  /\ loop = "scanning"
  /\ cur <= NumSources
  /\ ~watched[cur] \/ revents[cur] \cap Relevant = {}
  /\ cur' = cur + 1
  /\ UNCHANGED <<writers, pipe, readOpen, watched, revents, loop, message, active, delivered>>

(* The handler is called.                                                  *)
Dispatch ==
  /\ loop = "scanning"
  /\ cur <= NumSources
  /\ watched[cur] /\ revents[cur] \cap Relevant # {}
  /\ loop' = "reading"
  /\ message' = <<>>
  /\ UNCHANGED <<writers, pipe, readOpen, watched, revents, cur, active, delivered>>

(* The byte read ends the message; read returns 0.                         *)
EndsMessage(ch) == ch = Newline
AtEof == pipe[cur] = <<>> /\ ~writeOpen[cur]

(* drain_one_message reads one byte; the newline ends the message and the  *)
(* handler returns true.  read blocks while the pipe is empty and open.    *)
Read ==
  /\ loop = "reading"
  /\ pipe[cur] # <<>>
  /\ pipe' = [pipe EXCEPT ![cur] = Tail(@)]
  /\ IF EndsMessage(Head(pipe[cur]))
     THEN /\ delivered' = [delivered EXCEPT ![cur] = Append(@, message)]
          /\ loop' = "scanning"
          /\ cur' = cur + 1
          /\ UNCHANGED message
     ELSE /\ message' = Append(message, Head(pipe[cur]))
          /\ UNCHANGED <<delivered, loop, cur>>
  /\ UNCHANGED <<writers, readOpen, watched, revents, active>>

(* The loop closes the descriptor and retires the watcher.                 *)
Retire ==
  /\ readOpen' = [readOpen EXCEPT ![cur] = FALSE]
  /\ watched' = [watched EXCEPT ![cur] = FALSE]
  /\ active' = active - 1

(* drain_one_message logs what it has at end of file and returns false.    *)
ReadEof ==
  /\ loop = "reading"
  /\ AtEof
  /\ delivered' = IF message = <<>> THEN delivered
                  ELSE [delivered EXCEPT ![cur] = Append(@, message)]
  /\ Retire
  /\ loop' = "scanning"
  /\ cur' = cur + 1
  /\ UNCHANGED <<writers, pipe, revents, message>>

(* The for loop ends; the while loop goes on while a source is active.     *)
ScanEnds ==
  /\ loop = "scanning"
  /\ cur > NumSources
  /\ loop' = IF active > 0 THEN "polling" ELSE "joining"
  /\ UNCHANGED <<writers, pipe, readOpen, watched, revents, cur, message, active, delivered>>

(* The writers are joined; the destructors of api and metrics close their  *)
(* read ends, whether the loop has closed them or not.                     *)
MainReturns ==
  /\ loop = "joining"
  /\ \A s \in Sources : ~writeOpen[s]
  /\ readOpen' = [s \in Sources |-> FALSE]
  /\ loop' = "exit"
  /\ UNCHANGED <<writers, pipe, watched, revents, cur, message, active, delivered>>

Main ==
  \/ Poll \/ IdleTick \/ Skip \/ Dispatch \/ Read \/ ReadEof \/ ScanEnds \/ MainReturns

-----------------------------------------------------------------------------
Next == Main \/ \E s \in Sources : Writer(s)

(* Every thread keeps being scheduled and every read that can return does. *)
Spec == Init /\ [][Next]_vars /\ WF_vars(Main) /\ \A s \in Sources : WF_vars(Writer(s))

-----------------------------------------------------------------------------
(***************************************************************************)
(* Properties                                                              *)
(***************************************************************************)

(* main()'s locals and the pipes keep their types, active_sources counts   *)
(* the watchers that hold a descriptor, and the handler that runs was      *)
(* given one.                                                              *)
TypeOK ==
  /\ sent \in [Sources -> 0..NumEvents]
  /\ writeOpen \in [Sources -> BOOLEAN]
  /\ pipe \in [Sources -> Seq(Tokens)]
  /\ \A s \in Sources : Len(pipe[s]) <= PipeCapacity
  /\ readOpen \in [Sources -> BOOLEAN]
  /\ watched \in [Sources -> BOOLEAN]
  /\ revents \in [Sources -> SUBSET Events]
  /\ loop \in LoopPc
  /\ cur \in 1..(NumSources + 1)
  /\ loop = "reading" => cur \in Watched
  /\ message \in Seq(Tokens \ {Newline})
  /\ active = Cardinality(Watched)
  /\ loop \in {"joining", "exit"} => active = 0
  /\ delivered \in [Sources -> Seq(Seq(Tokens \ {Newline}))]

(* The handler reads byte by byte with blocking reads, on a readiness that *)
(* may be old when it runs.  Still it never blocks the loop on one source: *)
(* in every state of a handler its next read returns at once.              *)
NeverBlocksInRead ==
  loop = "reading" => pipe[cur] # <<>> \/ ~writeOpen[cur]

(* Every message a writer has sent is, in order, logged by the handler of  *)
(* its own source as one line, being read, or in the pipe: none is lost,   *)
(* repeated, split or merged with another.                                 *)
Lines(n) == [i \in 1..(2 * n) |-> IF i % 2 = 0 THEN Newline ELSE (i + 1) \div 2]

BeingRead(s) == IF loop = "reading" /\ cur = s THEN message ELSE <<>>

DeliveredInOrder ==
  \A s \in Sources :
    /\ delivered[s] = [i \in 1..Len(delivered[s]) |-> <<i>>]
    /\ Lines(Len(delivered[s])) \o BeingRead(s) \o pipe[s] = Lines(sent[s])

(* A hangup reported together with data retires nothing early: a watcher   *)
(* is retired when its writer has closed the pipe and every message has    *)
(* been logged, and a descriptor that is still watched is open.            *)
RetiredWhenDrained ==
  \A s \in Sources :
    /\ ~watched[s] => ~writeOpen[s] /\ Len(delivered[s]) = NumEvents
    /\ watched[s] => readOpen[s]

(* The loop ends and main() returns: each hangup is noticed, and no writer *)
(* waits for ever for room in its pipe.                                    *)
MainEventuallyReturns == <>(loop = "exit")

(* UniqueFd is the owner of its descriptor: while api and metrics live,    *)
(* which is until main() returns, the descriptors they hold are open, so   *)
(* that their destructors close no descriptor of somebody else.            *)
OwnerHoldsOpenFd == loop # "exit" => \A s \in Sources : readOpen[s]
=============================================================================
