--------------------------- MODULE ServicesProofs ---------------------------
(***************************************************************************)
(* Theorems about the client-side programs that MCServices instantiates,   *)
(* for all values of its constants.                                        *)
(***************************************************************************)
EXTENDS MCServices, Sequences, SequenceTheorems, WellFoundedInduction, TLAPS

(* A step of Spec is a step of each program or leaves its variables alone. *)
LEMMA ProgramStep ==
  ASSUME [Next]_<<program, connection, command, routing, key>>
  PROVE  /\ [Session!Next]_(Session!vars)
         /\ [Queue!Next]_(Queue!vars)
         /\ [Router!Next]_(Router!vars)
         /\ [Key!Next]_(Key!vars)
BY DEF Next, connection, command, routing, key,
       Session!vars, Queue!vars, Router!vars, Key!vars

-----------------------------------------------------------------------------
(***************************************************************************)
(* Connection                                                              *)
(***************************************************************************)

(* What a socket may raise.                                                *)
Events == Session!Bytes \cup {"connected", "closed"}

(* The types of Connection, without the enumeration of the sequences.      *)
SessionTypes ==
  /\ state \in {"Disconnected", "Connecting", "Authenticating", "Ready"}
  /\ waits \in BOOLEAN
  /\ socket \in {"opening", "open", "closed"}
  /\ abandoned \in {"opening", "open", "closed"}
  /\ events \in Seq(Events) /\ Len(events) <= MaxEvents
  /\ tokens \in 0..MaxTokens
  /\ verdict \in Session!Answers \cup {"none"}

(* That nothing is missed rests on one fact besides itself: until the      *)
(* connection is told of its socket the server has nothing to answer.      *)
MissedInv ==
  /\ state = "Connecting" => verdict = "none" /\ tokens = 0
  /\ Session!NothingMissed

FirstAnswer(i) ==
  events[i] \in Session!Answers /\ \A j \in 1..i - 1 : events[j] \notin Session!Answers

(* When the callers wait, what is still to be delivered is what one socket *)
(* raised: "connected" comes first and finds the connection connecting,    *)
(* "closed" comes last, and a connection that authenticates is told the    *)
(* server's first answer before any other.                                 *)
OneSocket ==
  /\ abandoned = "closed"
  /\ socket = "opening" => state = "Connecting" /\ events = <<>>
  /\ state = "Ready" => verdict = "AUTH_OK"
  /\ state = "Disconnected" /\ socket # "closed" => verdict = "AUTH_FAIL"
  /\ \A i \in 1..Len(events) :
       /\ events[i] = "connected" => i = 1 /\ state = "Connecting"
       /\ events[i] = "closed" => i = Len(events) /\ socket = "closed"
       /\ events[i] \in Session!Answers => verdict # "none"
       /\ state = "Authenticating" /\ FirstAnswer(i) => events[i] = verdict

SessionInv == SessionTypes /\ MissedInv /\ (waits => OneSocket)

(* What an event adds to the queue.                                        *)
LEMMA Raising ==
  ASSUME SessionTypes, NEW e \in Events, Session!Raise(e)
  PROVE  /\ events' \in Seq(Events) /\ Len(events') <= MaxEvents
         /\ Len(events) \in Nat /\ Len(events') = Len(events) + 1
         /\ events'[Len(events')] = e
         /\ \A i \in 1..Len(events) : events'[i] = events[i]
         /\ \A f : Session!Pending(f) \/ f = e => Session!Pending(f)'
<1>1. events \in Seq(Events) /\ events' = Append(events, e) /\ Len(events) < MaxEvents
  BY DEF SessionTypes, Session!Raise
<1>2. /\ events' \in Seq(Events) /\ Len(events') <= MaxEvents
      /\ Len(events) \in Nat /\ Len(events') = Len(events) + 1
      /\ events'[Len(events')] = e
      /\ \A i \in 1..Len(events) : events'[i] = events[i]
  BY <1>1, ServicesAssumption
<1>3. DOMAIN events = 1..Len(events) /\ DOMAIN events' = 1..Len(events')
  BY <1>1, <1>2
<1> QED
  BY <1>2, <1>3 DEF Session!Pending

(* What a delivery takes from it, and where it leads the connection.       *)
LEMMA Delivering ==
  ASSUME SessionTypes, Session!Deliver
  PROVE  /\ events' \in Seq(Events)
         /\ Len(events) \in Nat \ {0} /\ Len(events') = Len(events) - 1
         /\ \A i \in 1..Len(events') : events'[i] = events[i + 1] /\ i + 1 \in 1..Len(events)
         /\ \A f : Session!Pending(f) /\ f # events[1] => Session!Pending(f)'
         /\ state' = CASE events[1] = "connected" -> Session!OnSocketConnected
                       [] events[1] = "closed"    -> "Disconnected"
                       [] OTHER                   -> Session!OnBytesReceived(events[1])
         /\ UNCHANGED <<waits, socket, abandoned, tokens, verdict>>
<1>1. events \in Seq(Events) /\ events # <<>> /\ events' = Tail(events)
  BY DEF SessionTypes, Session!Deliver
<1>2. /\ events' \in Seq(Events)
      /\ Len(events) \in Nat \ {0} /\ Len(events') = Len(events) - 1
      /\ \A i \in 1..Len(events') : events'[i] = events[i + 1] /\ i + 1 \in 1..Len(events)
      /\ Head(events) = events[1]
  BY <1>1
<1>3. DOMAIN events = 1..Len(events) /\ DOMAIN events' = 1..Len(events')
  BY <1>1, <1>2
<1>4. ASSUME NEW f, Session!Pending(f), f # events[1] PROVE Session!Pending(f)'
  <2>1. PICK i \in 1..Len(events) : events[i] = f
    BY <1>3, <1>4 DEF Session!Pending
  <2>2. i - 1 \in 1..Len(events') /\ i - 1 + 1 = i
    BY <2>1, <1>2, <1>4
  <2> QED
    BY <2>1, <2>2, <1>2, <1>3 DEF Session!Pending
<1> QED
  BY <1>2, <1>4 DEF Session!Deliver, Session!OnSocketClosed

(* Where each handler leads.                                               *)
LEMMA Handling ==
  ASSUME SessionTypes, Session!Deliver
  PROVE  /\ state' \in {"Disconnected", "Connecting", "Authenticating", "Ready"}
         /\ state' = "Connecting" => state = "Connecting" /\ events[1] # "connected"
         /\ state' = "Authenticating" =>
              \/ state = "Connecting" /\ events[1] = "connected"
              \/ state = "Authenticating" /\ events[1] \notin Session!Answers
         /\ state' = "Ready" =>
              state = "Ready" \/ (state = "Authenticating" /\ events[1] = "AUTH_OK")
         /\ state' # "Disconnected" => state # "Disconnected" /\ events[1] # "closed"
         /\ state' = "Disconnected" =>
              \/ state = "Disconnected" \/ events[1] = "closed"
              \/ state = "Authenticating" /\ events[1] = "AUTH_FAIL"
         /\ state = "Connecting" /\ events[1] = "connected" => state' = "Authenticating"
BY Delivering
DEF SessionTypes, Session!OnSocketConnected, Session!OnBytesReceived, Session!Answers

(* The types are an invariant of Connection.                               *)
LEMMA SessionTypesStep ==
  ASSUME SessionTypes, [Session!Next]_(Session!vars)
  PROVE  SessionTypes'
<1>1. CASE Session!Connect
  <2>1. 0 \in 0..MaxTokens
    BY ServicesAssumption
  <2> QED
    BY <1>1, <2>1 DEF Session!Connect, SessionTypes
<1>2. CASE Session!Authenticate
  BY <1>2, ServicesAssumption DEF Session!Authenticate, SessionTypes
<1>3. CASE Session!Deliver
  <2>1. Len(events') <= MaxEvents
    BY <1>3, Delivering, ServicesAssumption DEF SessionTypes
  <2> QED
    BY <1>3, <2>1, Delivering, Handling DEF SessionTypes
<1>4. CASE Session!SocketOpens
  BY <1>4, Raising DEF Session!SocketOpens, Events, SessionTypes
<1>5. CASE Session!SocketCloses
  BY <1>5, Raising DEF Session!SocketCloses, Events, SessionTypes
<1>6. CASE Session!ServerAnswers
  <2>1. PICK answer \in Session!Answers :
          Session!Raise(answer) /\ verdict' = IF verdict = "none" THEN answer ELSE verdict
    BY <1>6 DEF Session!ServerAnswers
  <2>2. events' \in Seq(Events) /\ Len(events') <= MaxEvents
    BY <2>1, Raising DEF Events, Session!Bytes
  <2> QED
    BY <1>6, <2>1, <2>2, ServicesAssumption DEF Session!ServerAnswers, SessionTypes
<1>7. CASE Session!ServerSends
  BY <1>7, Raising DEF Session!ServerSends, Events, Session!Bytes, SessionTypes
<1>8. CASE Session!AbandonedRaises
  <2>1. PICK e \in Events : Session!Raise(e)
    BY <1>8 DEF Session!AbandonedRaises, Events
  <2> QED
    BY <1>8, <2>1, Raising DEF Session!AbandonedRaises, SessionTypes
<1>9. CASE UNCHANGED Session!vars
  BY <1>9 DEF Session!vars, SessionTypes
<1> QED
  BY <1>1, <1>2, <1>3, <1>4, <1>5, <1>6, <1>7, <1>8, <1>9 DEF Session!Next

(* Whenever the callers connect, nothing is missed: no step but the        *)
(* delivery of an event takes it out of the queue, and the connection does *)
(* not stay where it waited for that event.                                *)
LEMMA MissedStep ==
  ASSUME SessionTypes, MissedInv, [Session!Next]_(Session!vars)
  PROVE  MissedInv'
<1> USE DEF MissedInv, Session!NothingMissed
<1>1. CASE Session!Connect
  BY <1>1 DEF Session!Connect
<1>2. CASE Session!Authenticate
  BY <1>2 DEF Session!Authenticate, Session!Pending
<1>3. CASE Session!Deliver
  BY <1>3, Delivering, Handling DEF SessionTypes
<1>4. CASE Session!SocketOpens
  BY <1>4, Raising DEF Session!SocketOpens, Events
<1>5. CASE Session!SocketCloses
  BY <1>5, Raising DEF Session!SocketCloses, Events
<1>6. CASE Session!ServerAnswers
  <2>1. PICK answer \in Session!Answers :
          Session!Raise(answer) /\ verdict' = IF verdict = "none" THEN answer ELSE verdict
    BY <1>6 DEF Session!ServerAnswers
  <2>2. \A f : Session!Pending(f) \/ f = answer => Session!Pending(f)'
    BY <2>1, Raising DEF Events, Session!Bytes
  <2>3. /\ tokens # 0 /\ UNCHANGED <<state, waits, socket, abandoned>>
    BY <1>6 DEF Session!ServerAnswers
  <2> QED
    BY <2>1, <2>2, <2>3
<1>7. CASE Session!ServerSends
  BY <1>7, Raising DEF Session!ServerSends, Events, Session!Bytes
<1>8. CASE Session!AbandonedRaises
  <2>1. PICK e \in Events : Session!Raise(e)
    BY <1>8 DEF Session!AbandonedRaises, Events
  <2> QED
    BY <1>8, <2>1, Raising DEF Session!AbandonedRaises
<1>9. CASE UNCHANGED Session!vars
  BY <1>9 DEF Session!vars, Session!Pending
<1> QED
  BY <1>1, <1>2, <1>3, <1>4, <1>5, <1>6, <1>7, <1>8, <1>9 DEF Session!Next

(* When the callers wait, what is to be delivered stays in order.          *)
LEMMA OneSocketStep ==
  ASSUME SessionTypes, MissedInv, waits => OneSocket, [Session!Next]_(Session!vars)
  PROVE  (waits => OneSocket)'
<1> SUFFICES ASSUME waits' PROVE OneSocket'
  OBVIOUS
<1>0. waits /\ OneSocket
  BY DEF Session!vars, Session!Next, Session!Connect, Session!Authenticate, Session!Deliver,
         Session!SocketOpens, Session!SocketCloses, Session!ServerAnswers,
         Session!ServerSends, Session!AbandonedRaises
<1>t. DOMAIN events = 1..Len(events) /\ Len(events) \in Nat
  BY DEF SessionTypes
<1>1. CASE Session!Connect
  <2>1. socket = "closed" /\ events' = <<>> /\ socket' = "opening" /\ state' = "Connecting"
    BY <1>0, <1>1 DEF Session!Connect
  <2> QED
    BY <2>1, <1>0, <1>1 DEF Session!Connect, OneSocket
<1>2. CASE Session!Authenticate
  BY <1>0, <1>2 DEF Session!Authenticate, OneSocket, FirstAnswer
<1>3. CASE Session!Deliver
  <2>1. /\ Len(events) \in Nat \ {0} /\ Len(events') = Len(events) - 1
        /\ \A i \in 1..Len(events') : events'[i] = events[i + 1] /\ i + 1 \in 1..Len(events)
        /\ UNCHANGED <<socket, abandoned, verdict>>
    BY <1>3, Delivering
  <2>2. 1 \in 1..Len(events) /\ socket # "opening"
    BY <2>1, <1>0 DEF OneSocket
  <2>3. ASSUME NEW i \in 1..Len(events'), state' = "Authenticating", FirstAnswer(i)'
        PROVE  events'[i] = verdict
    <3>1. events[i + 1] \in Session!Answers /\ i + 1 \in 1..Len(events)
      BY <2>1, <2>3 DEF FirstAnswer
    <3>2. state = "Authenticating" /\ events[1] \notin Session!Answers
      BY <1>0, <1>3, <2>3, <3>1, Handling DEF OneSocket, MissedInv
    <3>3. ASSUME NEW j \in 1..(i + 1) - 1 PROVE events[j] \notin Session!Answers
      <4>1. CASE j = 1
        BY <4>1, <3>2
      <4>2. CASE j # 1
        <5>1. j - 1 \in 1..i - 1 /\ j - 1 \in 1..Len(events') /\ (j - 1) + 1 = j
          BY <4>2, <2>1
        <5> QED
          BY <5>1, <2>1, <2>3 DEF FirstAnswer
      <4> QED
        BY <4>1, <4>2
    <3> QED
      BY <3>1, <3>2, <3>3, <2>1, <1>0 DEF OneSocket, FirstAnswer
  <2>4. ASSUME NEW i \in 1..Len(events')
        PROVE  /\ events'[i] # "connected"
               /\ events'[i] = "closed" => i = Len(events') /\ socket = "closed"
               /\ events'[i] \in Session!Answers => verdict # "none"
    BY <2>1, <1>0 DEF OneSocket
  <2>5. FirstAnswer(1) <=> events[1] \in Session!Answers
    BY DEF FirstAnswer
  <2>6. /\ state' = "Ready" => verdict = "AUTH_OK"
        /\ state' = "Disconnected" /\ socket # "closed" => verdict = "AUTH_FAIL"
    BY <2>2, <2>5, <1>0, <1>3, Handling DEF OneSocket, Session!Answers
  <2> QED
    BY <2>1, <2>2, <2>3, <2>4, <2>6, <1>0 DEF OneSocket
<1>4. CASE Session!SocketOpens
  <2>1. /\ Session!Raise("connected") /\ events = <<>> /\ state = "Connecting"
        /\ socket' = "open" /\ UNCHANGED <<state, abandoned, verdict>>
    BY <1>0, <1>4 DEF Session!SocketOpens, OneSocket
  <2>2. Len(events') = 1 /\ events'[1] = "connected"
    BY <2>1, Raising DEF Events
  <2> QED
    BY <2>1, <2>2, <1>0 DEF OneSocket, Session!Answers
(* What else is raised comes last. *)
<1>5. ASSUME NEW e \in Events \ {"connected"}, Session!Raise(e), UNCHANGED <<state, abandoned>>,
             socket # "opening", socket # "closed",
             socket' \in {socket, "closed"}, e = "closed" <=> socket' = "closed",
             verdict' = IF e \in Session!Answers /\ verdict = "none" THEN e ELSE verdict
      PROVE  OneSocket'
  <2>1. /\ Len(events') = Len(events) + 1 /\ events'[Len(events')] = e
        /\ \A i \in 1..Len(events) : events'[i] = events[i]
    BY <1>5, Raising
  <2>2. ASSUME NEW i \in 1..Len(events')
        PROVE  /\ events'[i] = "connected" => i = 1 /\ state = "Connecting"
               /\ events'[i] = "closed" => i = Len(events') /\ socket' = "closed"
               /\ events'[i] \in Session!Answers => verdict' # "none"
    <3>1. CASE i = Len(events')
      BY <3>1, <2>1, <1>5 DEF Session!Answers
    <3>2. CASE i # Len(events')
      <4>1. i \in 1..Len(events) /\ events'[i] = events[i]
        BY <3>2, <2>1, <1>t
      <4>2. e \in Session!Answers => e # "none"
        BY DEF Session!Answers
      <4> QED
        BY <4>1, <4>2, <1>0, <1>5 DEF OneSocket
    <3> QED
      BY <3>1, <3>2
  <2>3. ASSUME NEW i \in 1..Len(events'), state = "Authenticating", FirstAnswer(i)'
        PROVE  events'[i] = verdict'
    <3>1. CASE i = Len(events')
      <4>1. e \in Session!Answers /\ \A j \in 1..Len(events) : events[j] \notin Session!Answers
        BY <3>1, <2>1, <2>3, <1>t DEF FirstAnswer
      <4>2. verdict = "none"
        <5>1. verdict # "none" => verdict \in Session!Answers /\ Session!Pending(verdict)
          BY <2>3 DEF SessionTypes, MissedInv, Session!NothingMissed
        <5> QED
          BY <5>1, <4>1, <1>t DEF Session!Pending
      <4> QED
        BY <4>1, <4>2, <3>1, <2>1, <1>5
    <3>2. CASE i # Len(events')
      <4>1. i \in 1..Len(events) /\ events'[i] = events[i]
        BY <3>2, <2>1, <1>t
      <4>2. FirstAnswer(i)
        <5>1. \A j \in 1..i - 1 : j \in 1..Len(events)
          BY <4>1, <1>t
        <5> QED
          BY <5>1, <4>1, <2>1, <2>3 DEF FirstAnswer
      <4>3. events[i] \in Session!Answers => verdict # "none"
        BY <4>1, <1>0 DEF OneSocket
      <4> QED
        BY <4>1, <4>2, <4>3, <2>3, <1>0, <1>5 DEF OneSocket, FirstAnswer
    <3> QED
      BY <3>1, <3>2
  <2>4. /\ state' = "Ready" => verdict' = "AUTH_OK"
        /\ state' = "Disconnected" /\ socket' # "closed" => verdict' = "AUTH_FAIL"
    BY <1>0, <1>5 DEF OneSocket
  <2>5. socket' # "opening" /\ abandoned' = "closed"
    BY <1>0, <1>5 DEF OneSocket
  <2> QED
    BY <2>2, <2>3, <2>4, <2>5, <1>5 DEF OneSocket
<1>6. CASE Session!SocketCloses
  <2>1. socket = "opening" => OneSocket'
    <3> SUFFICES ASSUME socket = "opening" PROVE OneSocket'
      OBVIOUS
    <3>1. /\ Session!Raise("closed") /\ events = <<>> /\ state = "Connecting"
          /\ socket' = "closed" /\ UNCHANGED <<state, abandoned, verdict>>
      BY <1>0, <1>6 DEF Session!SocketCloses, OneSocket
    <3>2. Len(events') = 1 /\ events'[1] = "closed"
      BY <3>1, Raising DEF Events
    <3> QED
      BY <3>1, <3>2, <1>0 DEF OneSocket, Session!Answers
  <2> QED
    BY <2>1, <1>5, <1>6 DEF Session!SocketCloses, Events, Session!Answers
<1>7. CASE Session!ServerAnswers
  <2>1. PICK answer \in Session!Answers :
          Session!Raise(answer) /\ verdict' = IF verdict = "none" THEN answer ELSE verdict
    BY <1>7 DEF Session!ServerAnswers
  <2>2. answer \in Events \ {"connected"} /\ answer # "closed"
    BY DEF Events, Session!Bytes, Session!Answers
  <2> QED
    BY <2>1, <2>2, <1>5, <1>7 DEF Session!ServerAnswers
<1>8. CASE Session!ServerSends
  BY <1>5, <1>8 DEF Session!ServerSends, Events, Session!Bytes, Session!Answers
<1>9. CASE Session!AbandonedRaises
  BY <1>0, <1>9 DEF Session!AbandonedRaises, OneSocket
<1>10. CASE UNCHANGED Session!vars
  BY <1>0, <1>10 DEF Session!vars, OneSocket, FirstAnswer
<1> QED
  BY <1>1, <1>2, <1>3, <1>4, <1>6, <1>7, <1>8, <1>9, <1>10 DEF Session!Next

(* All three hold of every behaviour.                                      *)
LEMMA SessionInvariant == Spec => []SessionInv
<1>1. Init => SessionInv
  <2> SUFFICES ASSUME Session!Init PROVE SessionInv
    BY DEF Init
  <2> USE DEF Session!Init
  <2>1. events \in Seq(Events) /\ Len(events) = 0 /\ 1..Len(events) = {}
    OBVIOUS
  <2>2. Len(events) <= MaxEvents /\ tokens \in 0..MaxTokens
    BY <2>1, ServicesAssumption
  <2>3. SessionTypes
    BY <2>1, <2>2 DEF SessionTypes
  <2> QED
    BY <2>1, <2>3 DEF SessionInv, MissedInv, Session!NothingMissed, OneSocket
<1>2. SessionInv /\ [Next]_<<program, connection, command, routing, key>> => SessionInv'
  BY ProgramStep, SessionTypesStep, MissedStep, OneSocketStep DEF SessionInv
<1> QED
  BY <1>1, <1>2, PTL DEF Spec

(* The connection misses no event that it waits for, whenever its callers  *)
(* connect; and when they wait for the end of a socket before they connect *)
(* again, it mistakes none for one of another socket.                      *)
THEOREM FollowsSocket == Spec => []StateFollowsSocket
<1>1. SessionInv => StateFollowsSocket
  <2> SUFFICES ASSUME SessionTypes, MissedInv, waits => OneSocket PROVE StateFollowsSocket
    BY DEF SessionInv
  <2>1. DOMAIN events = 1..Len(events)
    BY DEF SessionTypes
  <2>2. waits => Session!NothingMistaken
    BY <2>1 DEF OneSocket, Session!NothingMistaken, Session!Pending
  <2> QED
    BY <2>2 DEF StateFollowsSocket, Session!StateFollowsSocket, MissedInv
<1> QED
  BY <1>1, SessionInvariant, PTL

-----------------------------------------------------------------------------
(***************************************************************************)
(* CommandQueue                                                            *)
(***************************************************************************)

Batches  == [op : {"execute_all"}, at : Nat, start : Nat]
Attempts == [op : {"execute_with_retry"}, at : Nat, start : Nat,
             cmd : Cmds, max : 0..MaxAttempts]

(* The types of CommandQueue, with the shapes of call.                     *)
QueueTypes ==
  /\ connected \in BOOLEAN
  /\ commands \in Seq(Cmds)
  /\ \A i, j \in 1..Len(commands) : commands[i] = commands[j] => i = j
  /\ applied \in Seq(Cmds) /\ Len(applied) <= MaxApplied
  /\ call \in {Queue!Idle} \cup Batches \cup Attempts
  /\ outcome \in {"none", "returned", "threw"}

(* What has been executed since a call began: the commands of a batch up   *)
(* to its next one, in order, and nothing while an attempt is retried.     *)
QueueInv ==
  /\ call.op = "execute_all" =>
       /\ call.at \in 1..Len(commands) + 1
       /\ Len(applied) = call.start + call.at - 1
       /\ call.start + Len(commands) <= MaxApplied
       /\ \A i \in 1..call.at - 1 : applied[call.start + i] = commands[i]
  /\ call.op = "execute_with_retry" =>
       /\ call.at = 1 \/ call.at \in 1..call.max
       /\ Len(applied) = call.start /\ call.start < MaxApplied

(* The shape of call follows from its operation.                           *)
LEMMA CallShapes ==
  ASSUME QueueTypes
  PROVE  /\ call = Queue!Idle => call.op = "none"
         /\ call.op = "execute_all" => call \in Batches
         /\ call.op = "execute_with_retry" => call \in Attempts
BY DEF QueueTypes, Queue!Idle, Batches, Attempts

(* A database that executes a command appends it.                          *)
LEMMA Executes ==
  ASSUME QueueTypes, NEW cmd \in Cmds, Queue!Execute(cmd)
  PROVE  /\ applied' \in Seq(Cmds) /\ Len(applied') = Len(applied) + 1
         /\ applied'[Len(applied) + 1] = cmd
         /\ \A i \in 1..Len(applied) : applied'[i] = applied[i]
BY DEF QueueTypes, Queue!Execute

(* Both are preserved by every step of CommandQueue.                       *)
LEMMA QueueStep ==
  ASSUME QueueTypes, QueueInv, [Queue!Next]_(Queue!vars)
  PROVE  QueueTypes' /\ QueueInv'
<1>t. /\ commands \in Seq(Cmds) /\ Len(commands) \in Nat
      /\ applied \in Seq(Cmds) /\ Len(applied) \in Nat
  BY DEF QueueTypes
<1>0. ASSUME call' = Queue!Idle, outcome' \in {"returned", "threw"},
             connected' \in BOOLEAN, commands' = commands \/ commands' = <<>>,
             applied' \in Seq(Cmds), Len(applied') <= MaxApplied
      PROVE  QueueTypes' /\ QueueInv'
  <2>1. \A i, j \in 1..Len(commands') : commands'[i] = commands'[j] => i = j
    BY <1>0 DEF QueueTypes
  <2>3. commands' \in Seq(Cmds)
    <3>1. <<>> \in Seq(Cmds)
      OBVIOUS
    <3> QED
      BY <3>1, <1>0, <1>t, Zenon
  <2>4. QueueTypes'
    BY <1>0, <2>1, <2>3 DEF QueueTypes
  <2>2. QueueInv'
    BY <1>0 DEF QueueInv, Queue!Idle
  <2> QED
    BY <2>2, <2>4
<1>1. ASSUME NEW cmd \in Cmds, Queue!AddCommand(cmd) PROVE QueueTypes' /\ QueueInv'
  <2>1. /\ commands' \in Seq(Cmds) /\ Len(commands') = Len(commands) + 1
        /\ commands'[Len(commands')] = cmd
        /\ \A i \in 1..Len(commands) : commands'[i] = commands[i] /\ commands[i] # cmd
    BY <1>1, <1>t DEF Queue!AddCommand
  <2>2. \A i, j \in 1..Len(commands') : commands'[i] = commands'[j] => i = j
    BY <2>1, <1>t DEF QueueTypes
  <2>3. call.op = "none" /\ UNCHANGED <<call, connected, applied, outcome>>
    BY <1>1, CallShapes DEF Queue!AddCommand
  <2>4. QueueTypes'
    BY <2>1, <2>2, <2>3 DEF QueueTypes
  <2>5. QueueInv'
    BY <2>3 DEF QueueInv
  <2> QED
    BY <2>4, <2>5
<1>2. ASSUME NEW cmd \in Cmds, NEW max_attempts \in 0..MaxAttempts,
             Queue!ExecuteWithRetry(cmd, max_attempts)
      PROVE  QueueTypes' /\ QueueInv'
  <2>1. /\ call' \in Attempts /\ call'.op = "execute_with_retry"
        /\ call'.at = 1 /\ call'.start = Len(applied) /\ Len(applied) < MaxApplied
        /\ UNCHANGED <<connected, commands, applied, outcome>>
    BY <1>2, <1>t DEF Queue!ExecuteWithRetry, Attempts
  <2> QED
    BY <2>1 DEF QueueTypes, QueueInv
<1>3. CASE Queue!ExecuteAll
  <2>1. /\ call' \in Batches /\ call'.op = "execute_all"
        /\ call'.at = 1 /\ call'.start = Len(applied)
        /\ Len(applied) + Len(commands) <= MaxApplied
        /\ UNCHANGED <<connected, commands, applied, outcome>>
    BY <1>3, <1>t DEF Queue!ExecuteAll, Batches
  <2>2. 1 \in 1..Len(commands) + 1
    BY <1>t
  <2> QED
    BY <2>1, <2>2, <1>t DEF QueueTypes, QueueInv
<1>4. CASE call.op = "execute_all" /\ Queue!BatchThrows
  BY <1>4, <1>0, <1>t DEF Queue!BatchThrows, Queue!Throws, Queue!Ends, QueueTypes
<1>5. CASE call.op = "execute_all" /\ Queue!BatchEnds
  BY <1>5, <1>0, <1>t DEF Queue!BatchEnds, Queue!Ends, QueueTypes
<1>6. CASE call.op = "execute_all" /\ Queue!BatchGoesOn
  <2>1. /\ call \in Batches /\ call.at \in Nat /\ call.start \in Nat
        /\ call.at \in 1..Len(commands)
    BY <1>6, CallShapes, <1>t DEF Queue!BatchGoesOn, Batches, QueueInv
  <2>2. /\ commands[call.at] \in Cmds /\ Queue!Execute(commands[call.at])
        /\ call' = [call EXCEPT !.at = @ + 1] /\ UNCHANGED <<connected, commands, outcome>>
    BY <1>6, <2>1, <1>t DEF Queue!BatchGoesOn
  <2>3. /\ call' \in Batches /\ call'.op = "execute_all"
        /\ call'.at = call.at + 1 /\ call'.start = call.start
    BY <2>1, <2>2 DEF Batches
  <2>4. /\ Len(applied) = call.start + call.at - 1
        /\ call.start + Len(commands) <= MaxApplied
        /\ \A i \in 1..call.at - 1 : applied[call.start + i] = commands[i]
    BY <1>6 DEF QueueInv
  <2>5. /\ applied' \in Seq(Cmds) /\ Len(applied') = call.start + call.at
        /\ applied'[call.start + call.at] = commands[call.at]
        /\ \A i \in 1..Len(applied) : applied'[i] = applied[i]
    <3>1. call.start + call.at = Len(applied) + 1
      BY <2>1, <2>4, <1>t
    <3> QED
      BY <3>1, <2>2, Executes
  <2>6. ASSUME NEW i \in 1..call.at PROVE applied'[call.start + i] = commands[i]
    <3>1. CASE i = call.at
      BY <3>1, <2>5
    <3>2. CASE i # call.at
      <4>1. i \in 1..call.at - 1 /\ call.start + i \in 1..Len(applied)
        BY <3>2, <2>1, <2>4
      <4> QED
        BY <4>1, <2>4, <2>5
    <3> QED
      BY <3>1, <3>2
  <2>7. /\ Len(applied') <= MaxApplied
        /\ call.at + 1 \in 1..Len(commands) + 1
        /\ Len(applied') = call.start + (call.at + 1) - 1
        /\ call.at + 1 - 1 = call.at
    <3>1. /\ call.at \in Nat /\ call.start \in Nat /\ Len(commands) \in Nat
          /\ 1 <= call.at /\ call.at <= Len(commands) /\ MaxApplied \in Nat
      BY <2>1, <1>t, ServicesAssumption
    <3>2. Len(applied') = call.start + call.at /\ call.start + Len(commands) <= MaxApplied
      BY <2>4, <2>5
    <3> QED
      BY <3>1, <3>2
  <2>8. QueueTypes'
    BY <2>2, <2>3, <2>5, <2>7 DEF QueueTypes
  <2>9. QueueInv'
    <3>1. /\ call'.at \in 1..Len(commands') + 1
          /\ Len(applied') = call'.start + call'.at - 1
          /\ call'.start + Len(commands') <= MaxApplied
          /\ call'.at - 1 = call.at
      BY <2>1, <2>2, <2>3, <2>4, <2>7
    <3>2. ASSUME NEW i \in 1..call'.at - 1 PROVE applied'[call'.start + i] = commands'[i]
      BY <2>2, <2>3, <2>6, <3>1
    <3>3. call'.op # "execute_with_retry"
      BY <2>3
    <3> QED
      BY <3>1, <3>2, <3>3 DEF QueueInv
  <2> QED
    BY <2>8, <2>9
<1>7. CASE call.op = "execute_with_retry" /\ Queue!AttemptSucceeds
  <2>1. /\ call.cmd \in Cmds /\ Len(applied) < MaxApplied
    BY <1>7, CallShapes DEF Attempts, QueueInv
  <2>2. Queue!Execute(call.cmd) /\ Queue!Ends("returned") /\ UNCHANGED <<connected, commands>>
    BY <1>7 DEF Queue!AttemptSucceeds
  <2>3. applied' \in Seq(Cmds) /\ Len(applied') <= MaxApplied
    BY <2>1, <2>2, <1>t, Executes, ServicesAssumption
  <2> QED
    BY <2>2, <2>3, <1>0 DEF Queue!Ends, QueueTypes
<1>8. CASE call.op = "execute_with_retry" /\ Queue!GiveUp
  BY <1>8, <1>0, <1>t DEF Queue!GiveUp, Queue!Throws, Queue!Ends, QueueTypes
<1>9. CASE call.op = "execute_with_retry" /\ Queue!Reconnect
  <2>1. /\ call \in Attempts /\ call.max \in 0..MaxAttempts /\ call.at \in Nat
        /\ call.at < call.max /\ Len(applied) = call.start /\ call.start < MaxApplied
    BY <1>9, CallShapes DEF Queue!Reconnect, QueueInv, Attempts
  <2>2. /\ call' = [call EXCEPT !.at = @ + 1] /\ connected' = TRUE
        /\ UNCHANGED <<commands, applied, outcome>>
    BY <1>9 DEF Queue!Reconnect, Queue!Throws
  <2>3. /\ call' \in Attempts /\ call'.op = "execute_with_retry"
        /\ call'.at = call.at + 1 /\ call'.start = call.start /\ call'.max = call.max
    BY <2>1, <2>2 DEF Attempts
  <2>4. call.at + 1 \in 1..call.max
    BY <2>1, ServicesAssumption
  <2>5. QueueTypes'
    BY <2>2, <2>3 DEF QueueTypes
  <2>6. QueueInv'
    BY <2>1, <2>2, <2>3, <2>4 DEF QueueInv
  <2> QED
    BY <2>5, <2>6
<1>10. CASE call.op = "execute_with_retry" /\ Queue!LoopEnds
  BY <1>10, <1>0, <1>t DEF Queue!LoopEnds, Queue!Ends, QueueTypes
<1>11. CASE Queue!ConnectionLost \/ Queue!CallerReconnects
  BY <1>11 DEF Queue!ConnectionLost, Queue!CallerReconnects, QueueTypes, QueueInv
<1>12. CASE UNCHANGED Queue!vars
  BY <1>12 DEF Queue!vars, QueueTypes, QueueInv
<1> QED
  BY <1>1, <1>2, <1>3, <1>4, <1>5, <1>6, <1>7, <1>8, <1>9, <1>10, <1>11, <1>12
     DEF Queue!Next

(* Both hold of every behaviour.                                           *)
LEMMA QueueInvariant == Spec => [](QueueTypes /\ QueueInv)
<1>1. Init => QueueTypes /\ QueueInv
  <2> SUFFICES ASSUME Queue!Init PROVE QueueTypes /\ QueueInv
    BY DEF Init
  <2> USE DEF Queue!Init
  <2>1. /\ commands \in Seq(Cmds) /\ applied \in Seq(Cmds)
        /\ Len(applied) = 0 /\ 1..Len(commands) = {}
    OBVIOUS
  <2>2. Len(applied) <= MaxApplied
    BY <2>1, ServicesAssumption
  <2> QED
    BY <2>1, <2>2 DEF QueueTypes, QueueInv, Queue!Idle
<1>2. QueueTypes /\ QueueInv /\ [Next]_<<program, connection, command, routing, key>>
        => QueueTypes' /\ QueueInv'
  BY ProgramStep, QueueStep
<1> QED
  BY <1>1, <1>2, PTL DEF Spec

(* A batch that ends has executed the queued commands, all, in order and   *)
(* once each.                                                              *)
LEMMA BatchExecuted ==
  ASSUME QueueTypes, QueueInv, call.op = "execute_all", Queue!BatchEnds
  PROVE  Queue!Executed = commands
<1>1. /\ call.at \in Nat /\ call.start \in Nat /\ call.at = Len(commands) + 1
      /\ commands \in Seq(Cmds) /\ applied' = applied /\ applied \in Seq(Cmds)
  <2>1. call \in Batches /\ call.at \in 1..Len(commands) + 1 /\ call.at > Len(commands)
    BY CallShapes DEF QueueInv, Queue!BatchEnds
  <2>2. /\ commands \in Seq(Cmds) /\ applied' = applied /\ applied \in Seq(Cmds)
        /\ Len(commands) \in Nat
    BY DEF QueueTypes, Queue!BatchEnds
  <2>3. call.at \in Nat /\ call.start \in Nat
    BY <2>1 DEF Batches
  <2> QED
    BY <2>1, <2>2, <2>3
<1>2. Len(applied) = call.start + Len(commands) /\ Len(commands) \in Nat
  BY <1>1 DEF QueueInv
<1>3. \A i \in 1..Len(commands) : applied[call.start + i] = commands[i]
  BY <1>1, <1>2 DEF QueueInv
<1> DEFINE done == SubSeq(applied, call.start + 1, Len(applied))
<1>4. /\ done \in Seq(Cmds) /\ Len(done) = Len(commands)
      /\ \A i \in 1..Len(commands) : done[i] = applied[call.start + i]
  <2>1. /\ call.start + 1 \in Int /\ Len(applied) \in Int
        /\ \A i \in call.start + 1..Len(applied) : applied[i] \in Cmds
    BY <1>1, <1>2
  <2>2. /\ done \in Seq(Cmds)
        /\ Len(done) = IF call.start + 1 <= Len(applied)
                       THEN Len(applied) - (call.start + 1) + 1 ELSE 0
        /\ \A i \in 1..Len(applied) - (call.start + 1) + 1 :
             done[i] = applied[call.start + 1 + i - 1]
    BY <2>1, SubSeqProperties
  <2> HIDE DEF done
  <2>3. Len(applied) - (call.start + 1) + 1 = Len(commands)
    BY <1>1, <1>2
  <2>4. Len(done) = Len(commands)
    <3>1. Len(done) = IF call.start + 1 <= Len(applied)
                      THEN Len(applied) - (call.start + 1) + 1 ELSE 0
      BY <2>2
    <3>2. call.start \in Nat
      BY <1>1
    <3> QED
      BY <3>1, <3>2, <1>2
  <2>5. \A i \in 1..Len(commands) : call.start + 1 + i - 1 = call.start + i
    BY <1>1, <1>2
  <2> QED
    BY <2>2, <2>3, <2>4, <2>5
<1>5. done = commands
  BY <1>1, <1>3, <1>4, SeqEqual
<1> QED
  BY <1>1, <1>5 DEF Queue!Executed

(* execute_all: whatever interrupts it, a command leaves the queue only    *)
(* when every queued command has been executed, in order and once.         *)
THEOREM KeepsUntilApplied == Spec => QueuedUntilApplied
<1> DEFINE Step == \/ Queue!IsPrefix(commands, commands')
                   \/ /\ call.op = "execute_all" /\ outcome' = "returned"
                      /\ Queue!Executed = commands /\ commands' = <<>>
<1>1. ASSUME QueueTypes, QueueInv, [Queue!Next]_(Queue!vars) PROVE [Step]_(Queue!vars)
  <2>1. commands' = commands => Queue!IsPrefix(commands, commands')
    BY <1>1 DEF Queue!IsPrefix, QueueTypes
  <2>2. ASSUME NEW cmd \in Cmds, Queue!AddCommand(cmd)
        PROVE  Queue!IsPrefix(commands, commands')
    <3>1. /\ commands \in Seq(Cmds) /\ commands' \in Seq(Cmds)
          /\ Len(commands') = Len(commands) + 1 /\ Len(commands) \in Nat
          /\ \A i \in 1..Len(commands) : commands'[i] = commands[i]
      BY <2>2, <1>1 DEF Queue!AddCommand, QueueTypes
    <3> DEFINE old == SubSeq(commands, 1, Len(commands))
               new == SubSeq(commands', 1, Len(commands))
    <3>2. /\ old \in Seq(Cmds) /\ Len(old) = Len(commands)
          /\ \A i \in 1..Len(commands) : old[i] = commands[i]
      BY <3>1, SubSeqProperties
    <3>3. /\ new \in Seq(Cmds) /\ Len(new) = Len(commands)
          /\ \A i \in 1..Len(commands) : new[i] = commands'[i]
      BY <3>1, SubSeqProperties
    <3>4. old = new
      BY <3>1, <3>2, <3>3, SeqEqual
    <3> QED
      BY <3>1, <3>4 DEF Queue!IsPrefix
  <2>3. CASE call.op = "execute_all" /\ Queue!BatchEnds
    BY <2>3, <1>1, BatchExecuted DEF Queue!BatchEnds, Queue!Ends
  <2>4. \/ commands' = commands
        \/ \E cmd \in Cmds : Queue!AddCommand(cmd)
        \/ call.op = "execute_all" /\ Queue!BatchEnds
    BY <1>1 DEF Queue!Next, Queue!vars, Queue!ExecuteWithRetry, Queue!ExecuteAll, Queue!BatchThrows,
           Queue!BatchGoesOn, Queue!AttemptSucceeds, Queue!GiveUp, Queue!Reconnect,
           Queue!LoopEnds, Queue!ConnectionLost, Queue!CallerReconnects
  <2> QED
    BY <2>1, <2>2, <2>3, <2>4
<1>2. QueueTypes /\ QueueInv /\ [Next]_<<program, connection, command, routing, key>>
        => [Step]_(Queue!vars)
  BY <1>1, ProgramStep
<1> QED
  BY <1>2, QueueInvariant, PTL DEF Spec, QueuedUntilApplied, Queue!QueuedUntilApplied

(* execute_with_retry, for any max_attempts: when it returns, the command  *)
(* has been executed once, and when it throws or no attempt is allowed,    *)
(* not at all.                                                             *)
THEOREM AppliesOnce == Spec => RetryAppliesOnce
<1> DEFINE Step == call.op = "execute_with_retry" /\ call' = Queue!Idle =>
                     Queue!Executed = IF outcome' = "returned" /\ call.max > 0
                                      THEN <<call.cmd>> ELSE <<>>
<1>1. ASSUME QueueTypes, QueueInv, [Queue!Next]_(Queue!vars) PROVE [Step]_(Queue!vars)
  <2> SUFFICES ASSUME call.op = "execute_with_retry", call' = Queue!Idle
               PROVE  Queue!Executed = IF outcome' = "returned" /\ call.max > 0
                                       THEN <<call.cmd>> ELSE <<>>
    OBVIOUS
  <2>1. /\ call \in Attempts /\ call.cmd \in Cmds /\ call.start = Len(applied)
        /\ call.max \in Nat /\ (call.at = 1 \/ call.at \in 1..call.max)
        /\ applied \in Seq(Cmds) /\ Len(applied) \in Nat
    BY <1>1, CallShapes DEF QueueTypes, QueueInv, Attempts
  <2>2. CASE Queue!AttemptSucceeds
    <3>0. call.max > 0
      BY <2>1, <2>2 DEF Queue!AttemptSucceeds
    <3>1. /\ outcome' = "returned" /\ applied' \in Seq(Cmds)
          /\ Len(applied') = Len(applied) + 1
          /\ applied'[Len(applied) + 1] = call.cmd
      BY <1>1, <2>1, <2>2, Executes DEF Queue!AttemptSucceeds, Queue!Ends
    <3> DEFINE done == SubSeq(applied', Len(applied) + 1, Len(applied) + 1)
    <3>2. done \in Seq(Cmds) /\ Len(done) = 1 /\ done[1] = call.cmd
      BY <2>1, <3>1, SubSeqProperties
    <3> HIDE DEF done
    <3>4. <<call.cmd>> \in Seq(Cmds) /\ Len(<<call.cmd>>) = 1 /\ <<call.cmd>>[1] = call.cmd
      BY <2>1
    <3>5. \A i \in 1..1 : i = 1
      OBVIOUS
    <3>6. done = <<call.cmd>>
      BY <3>2, <3>4, <3>5, SeqEqual
    <3>3. SubSeq(applied', Len(applied) + 1, Len(applied) + 1) = <<call.cmd>>
      BY <3>6 DEF done
    <3> QED
      BY <2>1, <3>0, <3>1, <3>3 DEF Queue!Executed
  <2>3. CASE Queue!GiveUp
    <3>1. outcome' = "threw" /\ applied' = applied
      BY <2>3 DEF Queue!GiveUp, Queue!Throws, Queue!Ends
    <3>2. SubSeq(applied, Len(applied) + 1, Len(applied)) = <<>>
      BY <2>1
    <3> QED
      BY <2>1, <3>1, <3>2 DEF Queue!Executed
  <2>5. CASE Queue!LoopEnds
    <3>1. call.max = 0 /\ applied' = applied
      BY <2>1, <2>5 DEF Queue!LoopEnds
    <3>2. SubSeq(applied, Len(applied) + 1, Len(applied)) = <<>>
      BY <2>1
    <3> QED
      BY <2>1, <3>1, <3>2 DEF Queue!Executed
  <2>4. Queue!AttemptSucceeds \/ Queue!GiveUp \/ Queue!LoopEnds
    <3>1. call # Queue!Idle /\ call' # call
      BY <1>1, CallShapes
    <3>2. ~Queue!Reconnect
      <4> SUFFICES ASSUME Queue!Reconnect PROVE FALSE
        OBVIOUS
      <4>1. call' = [call EXCEPT !.at = @ + 1]
        BY DEF Queue!Reconnect
      <4>2. call'.op = "execute_with_retry"
        BY <4>1, <2>1 DEF Attempts
      <4> QED
        BY <4>2 DEF Queue!Idle
    <3> QED
      BY <1>1, <3>1, <3>2 DEF Queue!Next, Queue!vars, Queue!AddCommand, Queue!ExecuteWithRetry,
           Queue!ExecuteAll, Queue!ConnectionLost, Queue!CallerReconnects
  <2> QED
    BY <2>2, <2>3, <2>4, <2>5
<1>2. QueueTypes /\ QueueInv /\ [Next]_<<program, connection, command, routing, key>>
        => [Step]_(Queue!vars)
  BY <1>1, ProgramStep
<1> QED
  BY <1>2, QueueInvariant, PTL DEF Spec, RetryAppliesOnce, Queue!RetryAppliesOnce

-----------------------------------------------------------------------------
(***************************************************************************)
(* KeyEncoding                                                             *)
(***************************************************************************)

(* What keys are made of.                                                  *)
KeyBytes == Chars \cup IntBytes \cup {0, 165}

(* Neither sequence contradicts the other: one is a prefix of the other.   *)
Agree(s, t) == \A i \in 1..Len(s) : i \in 1..Len(t) => s[i] = t[i]

(* The types of KeyEncoding.                                               *)
KeyTypes ==
  /\ keys \in Seq(KeyBytes) \X Seq(KeyBytes)
  /\ parts \in Nat
  /\ same \in BOOLEAN

(* Keys from the same values are equal, and neither of two keys from       *)
(* different values is a prefix of the other.                              *)
KeyInv ==
  /\ same => keys[1] = keys[2]
  /\ Agree(keys[1], keys[2]) => same

(* Sequences that agree do so in their first parts ...                     *)
LEMMA AgreeFirst ==
  ASSUME NEW S, NEW s \in Seq(S), NEW t \in Seq(S), NEW a \in Seq(S), NEW b \in Seq(S),
         Agree(s \o a, t \o b)
  PROVE  Agree(s, t)
<1> SUFFICES ASSUME NEW i \in 1..Len(s), i \in 1..Len(t) PROVE s[i] = t[i]
  BY DEF Agree
<1>1. /\ i \in 1..Len(s \o a) /\ (s \o a)[i] = s[i]
      /\ i \in 1..Len(t \o b) /\ (t \o b)[i] = t[i]
  OBVIOUS
<1> QED
  BY <1>1 DEF Agree

(* ... and in their last parts when the first are equal.                   *)
LEMMA AgreeLast ==
  ASSUME NEW S, NEW s \in Seq(S), NEW a \in Seq(S), NEW b \in Seq(S),
         Agree(s \o a, s \o b)
  PROVE  Agree(a, b)
<1> SUFFICES ASSUME NEW i \in 1..Len(a), i \in 1..Len(b) PROVE a[i] = b[i]
  BY DEF Agree
<1>1. /\ Len(s) + i \in 1..Len(s \o a) /\ (s \o a)[Len(s) + i] = a[i]
      /\ Len(s) + i \in 1..Len(s \o b) /\ (s \o b)[Len(s) + i] = b[i]
  OBVIOUS
<1> QED
  BY <1>1 DEF Agree

(* Sequences of one length that agree are equal.                           *)
LEMMA AgreeEqual ==
  ASSUME NEW S, NEW s \in Seq(S), NEW t \in Seq(S), Len(s) = Len(t), Agree(s, t)
  PROVE  s = t
BY SeqEqual DEF Agree

(* The delimiter ends a string that does not contain it.                   *)
LEMMA StringEnds ==
  ASSUME 0 \notin Chars, NEW v \in Seq(Chars), NEW w \in Seq(Chars),
         Agree(v \o << 0 >>, w \o << 0 >>)
  PROVE  v = w
<1> DEFINE s == v \o << 0 >>
           t == w \o << 0 >>
<1>1. /\ Len(v) \in Nat /\ Len(w) \in Nat
      /\ Len(s) = Len(v) + 1 /\ s[Len(v) + 1] = 0 /\ \A i \in 1..Len(v) : s[i] = v[i]
      /\ Len(t) = Len(w) + 1 /\ t[Len(w) + 1] = 0 /\ \A i \in 1..Len(w) : t[i] = w[i]
      /\ \A i \in 1..Len(v) : v[i] \in Chars
      /\ \A i \in 1..Len(w) : w[i] \in Chars
  OBVIOUS
<1>2. \A i \in 1..Len(s) : i \in 1..Len(t) => s[i] = t[i]
  BY DEF Agree
<1> HIDE DEF s, t
<1>3. ~(Len(v) < Len(w))
  <2> SUFFICES ASSUME Len(v) < Len(w) PROVE FALSE
    OBVIOUS
  <2>1. Len(v) + 1 \in 1..Len(s) /\ Len(v) + 1 \in 1..Len(t) /\ Len(v) + 1 \in 1..Len(w)
    BY <1>1
  <2> QED
    BY <2>1, <1>1, <1>2
<1>4. ~(Len(w) < Len(v))
  <2> SUFFICES ASSUME Len(w) < Len(v) PROVE FALSE
    OBVIOUS
  <2>1. Len(w) + 1 \in 1..Len(s) /\ Len(w) + 1 \in 1..Len(t) /\ Len(w) + 1 \in 1..Len(v)
    BY <1>1
  <2> QED
    BY <2>1, <1>1, <1>2
<1>5. Len(v) = Len(w)
  BY <1>1, <1>3, <1>4
<1>6. \A i \in 1..Len(v) : v[i] = w[i]
  <2> SUFFICES ASSUME NEW i \in 1..Len(v) PROVE v[i] = w[i]
    OBVIOUS
  <2>1. i \in 1..Len(s) /\ i \in 1..Len(t) /\ i \in 1..Len(w)
    BY <1>1, <1>5
  <2> QED
    BY <2>1, <1>1, <1>2
<1> QED
  BY <1>5, <1>6, SeqEqual

(* Two parts that do not contradict each other were made of one value.     *)
LEMMA PartsEnd ==
  ASSUME 0 \notin Chars
  PROVE  /\ \A v, w \in Key!Integer :
              /\ Key!BytesPart(v) \in Seq(KeyBytes)
              /\ Agree(Key!BytesPart(v), Key!BytesPart(w)) => v = w
         /\ \A v, w \in Key!Strings :
              /\ Key!StringPart(v) \in Seq(KeyBytes)
              /\ Agree(Key!StringPart(v), Key!StringPart(w)) => v = w
         /\ \A v, w \in Key!UserKeys :
              /\ Key!UserKeyPart(v) \in Seq(KeyBytes)
              /\ Agree(Key!UserKeyPart(v), Key!UserKeyPart(w)) => v = w
<1>1. ASSUME NEW v \in Key!Integer
      PROVE  v \in Seq(KeyBytes) /\ Len(v) = IntSize /\ Key!BytesPart(v) = v
  BY ServicesAssumption DEF Key!Integer, Key!BytesPart, KeyBytes
<1>2. ASSUME NEW v \in Key!Strings
      PROVE  /\ v \in Seq(Chars) /\ Key!StringPart(v) = v \o << 0 >>
             /\ v \o << 0 >> \in Seq(KeyBytes)
  <2>1. v \in Seq(Chars) /\ v \in Seq(KeyBytes)
    BY <1>2 DEF Key!Strings, KeyBytes
  <2>2. << 0 >> \in Seq(KeyBytes)
    BY DEF KeyBytes
  <2> QED
    BY <2>1, <2>2 DEF Key!StringPart
<1>3. ASSUME NEW v \in Key!UserKeys
      PROVE  /\ v.user_id \in Key!Integer /\ v.region \in Key!Strings
             /\ v = [user_id |-> v.user_id, region |-> v.region]
             /\ Key!UserKeyPart(v) = (<<165>> \o v.user_id) \o Key!StringPart(v.region)
  BY <1>1, <1>3 DEF Key!UserKeys, Key!UserKeyPart, Key!BytesPart
<1>4. ASSUME NEW v \in Key!Integer, NEW w \in Key!Integer, Agree(v, w) PROVE v = w
  BY <1>1, <1>4, AgreeEqual
<1>5. ASSUME NEW v \in Key!Strings, NEW w \in Key!Strings,
             Agree(Key!StringPart(v), Key!StringPart(w))
      PROVE  v = w
  BY <1>2, <1>5, StringEnds
<1>6. <<165>> \in Seq(KeyBytes)
  BY DEF KeyBytes
<1>7. ASSUME NEW v \in Key!UserKeys
      PROVE  /\ <<165>> \o v.user_id \in Seq(KeyBytes)
             /\ Key!StringPart(v.region) \in Seq(KeyBytes)
             /\ Key!UserKeyPart(v) \in Seq(KeyBytes)
  <2>1. v.user_id \in Seq(KeyBytes) /\ Key!StringPart(v.region) \in Seq(KeyBytes)
    BY <1>1, <1>2, <1>3
  <2>2. <<165>> \o v.user_id \in Seq(KeyBytes)
    BY <2>1, <1>6
  <2>3. (<<165>> \o v.user_id) \o Key!StringPart(v.region) \in Seq(KeyBytes)
    BY <2>1, <2>2, ConcatProperties
  <2> QED
    BY <2>1, <2>2, <2>3, <1>3
<1>8. ASSUME NEW v \in Key!UserKeys, NEW w \in Key!UserKeys,
             Agree(Key!UserKeyPart(v), Key!UserKeyPart(w))
      PROVE  v = w
  <2>1. Agree((<<165>> \o v.user_id) \o Key!StringPart(v.region),
              (<<165>> \o w.user_id) \o Key!StringPart(w.region))
    BY <1>3, <1>8
  <2>2. Agree(<<165>> \o v.user_id, <<165>> \o w.user_id)
    BY <2>1, <1>7, AgreeFirst
  <2>3. v.user_id \in Seq(KeyBytes) /\ w.user_id \in Seq(KeyBytes)
    BY <1>1, <1>3
  <2>4. Agree(v.user_id, w.user_id)
    BY <2>2, <2>3, <1>6, AgreeLast
  <2>5. v.user_id = w.user_id
    BY <2>4, <1>3, <1>4
  <2>6. Agree(Key!StringPart(v.region), Key!StringPart(w.region))
    BY <2>1, <2>5, <1>7, AgreeLast
  <2>7. v.region = w.region
    BY <2>6, <1>3, <1>5
  <2> QED
    BY <2>5, <2>7, <1>3
<1> QED
  BY <1>1, <1>2, <1>4, <1>5, <1>7, <1>8

(* Every append_part preserves the types and the invariant.                *)
LEMMA KeyStep ==
  ASSUME 0 \notin Chars, KeyTypes, KeyInv, [Key!Next]_(Key!vars)
  PROVE  KeyTypes' /\ KeyInv'
<1>1. ASSUME NEW v, NEW w, NEW a \in Seq(KeyBytes), NEW b \in Seq(KeyBytes),
             v = w => a = b, Agree(a, b) => v = w, Key!AppendParts(v, w, a, b)
      PROVE  KeyTypes' /\ KeyInv'
  <2>1. /\ keys[1] \in Seq(KeyBytes) /\ keys[2] \in Seq(KeyBytes)
        /\ keys' = <<keys[1] \o a, keys[2] \o b>>
        /\ parts' = parts + 1 /\ same' = (same /\ v = w)
    BY <1>1 DEF KeyTypes, Key!AppendParts
  <2>2. keys[1] \o a \in Seq(KeyBytes) /\ keys[2] \o b \in Seq(KeyBytes)
    BY <2>1
  <2>3. keys'[1] = keys[1] \o a /\ keys'[2] = keys[2] \o b
    BY <2>1
  <2>8. parts' \in Nat
    BY <2>1 DEF KeyTypes
  <2>10. keys' \in Seq(KeyBytes) \X Seq(KeyBytes)
    BY <2>1, <2>2
  <2>9. (same /\ v = w) \in BOOLEAN
    BY Zenon
  <2>4. KeyTypes'
    BY <2>1, <2>8, <2>9, <2>10 DEF KeyTypes
  <2>5. same' => keys'[1] = keys'[2]
    BY <1>1, <2>1, <2>3 DEF KeyInv
  <2>6. ASSUME Agree(keys'[1], keys'[2]) PROVE same'
    <3>1. Agree(keys[1] \o a, keys[2] \o b)
      BY <2>3, <2>6
    <3>2. Agree(keys[1], keys[2])
      BY <3>1, <2>1, AgreeFirst
    <3>3. same /\ keys[1] = keys[2]
      BY <3>2 DEF KeyInv
    <3>4. Agree(a, b)
      BY <3>1, <3>3, <2>1, AgreeLast
    <3> QED
      BY <3>3, <3>4, <1>1, <2>1
  <2>7. KeyInv'
    BY <2>5, <2>6 DEF KeyInv, Agree
  <2> QED
    BY <2>4, <2>7
<1>2. CASE Key!AppendInteger
  BY <1>1, <1>2, PartsEnd DEF Key!AppendInteger
<1>3. CASE Key!AppendString
  BY <1>1, <1>3, PartsEnd DEF Key!AppendString
<1>4. CASE Key!AppendUserKey
  BY <1>1, <1>4, PartsEnd DEF Key!AppendUserKey
<1>5. CASE UNCHANGED Key!vars
  BY <1>5 DEF Key!vars, KeyTypes, KeyInv, Agree
<1> QED
  BY <1>2, <1>3, <1>4, <1>5 DEF Key!Next

(* append_part: keys built by the same calls are equal only if they were   *)
(* built from equal values, provided that no string contains the           *)
(* delimiter.                                                              *)
THEOREM EqualKeysEqualParts == 0 \notin Chars => (Spec => []Unambiguous)
<1> SUFFICES ASSUME 0 \notin Chars PROVE Spec => []Unambiguous
  OBVIOUS
<1>1. Init => KeyTypes /\ KeyInv
  <2> SUFFICES ASSUME Key!Init PROVE KeyTypes /\ KeyInv
    BY DEF Init
  <2>1. <<>> \in Seq(KeyBytes)
    OBVIOUS
  <2> QED
    BY <2>1 DEF Key!Init, KeyTypes, KeyInv, Agree
<1>2. KeyTypes /\ KeyInv /\ [Next]_<<program, connection, command, routing, key>>
        => KeyTypes' /\ KeyInv'
  BY ProgramStep, KeyStep
<1>3. KeyTypes /\ KeyInv => Unambiguous
  BY DEF KeyTypes, KeyInv, Agree, Unambiguous, Key!Unambiguous
<1> QED
  BY <1>1, <1>2, <1>3, PTL DEF Spec

-----------------------------------------------------------------------------
(***************************************************************************)
(* Routing                                                                 *)
(***************************************************************************)

(* The types of Routing; no backend is chosen more often than requests     *)
(* were handled.                                                           *)
RouterTypes ==
  /\ strategy \in {"round_robin", "least_loaded"}
  /\ in_flight \in [Router!Backends -> Nat]
  /\ chosen \in [Router!Backends -> Nat]
  /\ next \in 0..NextMod - 1
  /\ handled \in 0..Requests
  /\ \A b \in Router!Backends : chosen[b] <= handled

(* Since next_ last wrapped round, every backend has been chosen whole     *)
(* times, and those before the next one once more; base is how often each  *)
(* had been chosen by then.                                                *)
Rounds(base, whole) ==
  /\ \A b, c \in Router!Backends : base[b] - base[c] <= handled \div NextMod
  /\ \A b \in Router!Backends :
       chosen[b] = base[b] + whole + (IF b < next % N THEN 1 ELSE 0)

(* The invariant of the round robin.                                       *)
RoundRobinInv ==
  strategy = "round_robin" =>
    /\ next = handled % NextMod
    /\ \E base \in [Router!Backends -> Nat], whole \in Nat : Rounds(base, whole)

(* A set of natural numbers has a least element.                           *)
LEMMA LeastNatural ==
  ASSUME NEW S \in SUBSET Nat, S # {}
  PROVE  \E n \in S : \A m \in S : n <= m
<1> DEFINE R == OpToRel(<, Nat)
<1>1. IsWellFoundedOn(R, Nat)
  BY NatLessThanWellFounded
<1>2. \A x, y \in Nat : <<x, y>> \in R <=> x < y
  BY DEF OpToRel
<1> HIDE DEF R
<1>3. PICK n \in S : \A m \in S : ~(<<m, n>> \in R)
  BY <1>1, WFMin
<1>4. \A m \in S : ~(m < n)
  BY <1>2, <1>3, Zenon
<1> QED
  BY <1>4

(* min_element finds a backend, and none is less loaded.                   *)
LEMMA LeastLoadedIsLeast ==
  ASSUME RouterTypes
  PROVE  /\ Router!LeastLoaded \in Router!Backends
         /\ \A c \in Router!Backends : in_flight[Router!LeastLoaded] <= in_flight[c]
<1> DEFINE S == {b \in Router!Backends : \A c \in Router!Backends : in_flight[b] <= in_flight[c]}
           F == {in_flight[b] : b \in Router!Backends}
<1>1. in_flight \in [Router!Backends -> Nat]
  BY DEF RouterTypes
<1>2. 0 \in Router!Backends /\ Router!Backends \subseteq Nat
  BY ServicesAssumption DEF Router!Backends
<1>3. F \in SUBSET Nat /\ F # {}
  BY <1>1, <1>2
<1>4. PICK n \in F : \A m \in F : n <= m
  BY <1>3, LeastNatural
<1>5. S \in SUBSET Nat /\ S # {}
  BY <1>2, <1>4
<1>6. PICK b \in S : \A c \in S : b <= c
  BY <1>5, LeastNatural
<1> HIDE DEF S
<1>7. Router!Min(S) \in S
  BY <1>6 DEF Router!Min
<1> QED
  BY <1>7 DEF S, Router!LeastLoaded

(* Counting modulo M.                                                      *)
LEMMA Successor ==
  ASSUME NEW k \in Nat, NEW M \in Nat \ {0}
  PROVE  /\ k % M \in 0..M - 1 /\ k \div M \in Nat
         /\ (k + 1) % M = IF k % M = M - 1 THEN 0 ELSE (k % M) + 1
         /\ (k + 1) \div M = IF k % M = M - 1 THEN k \div M + 1 ELSE k \div M
         /\ 0 % M = 0 /\ 0 \div M = 0
         /\ k < M => k % M = k
BY SMT

(* The backend chosen is one of the backends.                              *)
LEMMA Chooses ==
  ASSUME RouterTypes
  PROVE  Router!ChooseBackend \in Router!Backends
<1>1. next \in Nat
  BY ServicesAssumption DEF RouterTypes
<1>2. next % N \in 0..N - 1
  BY <1>1, ServicesAssumption, Successor
<1> QED
  BY <1>2, LeastLoadedIsLeast DEF Router!ChooseBackend, Router!RoundRobin, Router!Backends

(* The types are an invariant of Routing.                                  *)
LEMMA RouterTypesStep ==
  ASSUME RouterTypes, [Router!Next]_(Router!vars)
  PROVE  RouterTypes'
<1>1. CASE Router!Next
  <2>1. PICK work \in 0..MaxWork : Router!HandleRequest(work)
    BY <1>1 DEF Router!Next
  <2> DEFINE backend == Router!ChooseBackend
  <2>2. /\ backend \in Router!Backends
        /\ in_flight' = [in_flight EXCEPT ![backend] = @ + work]
        /\ chosen' = [chosen EXCEPT ![backend] = @ + 1]
        /\ next' = IF strategy = "round_robin" THEN (next + 1) % NextMod ELSE next
        /\ handled' = handled + 1 /\ strategy' = strategy /\ handled < Requests
    BY <1>1, <2>1, Chooses DEF Router!HandleRequest, Router!Next
  <2> HIDE DEF backend
  <2>3. in_flight' \in [Router!Backends -> Nat] /\ chosen' \in [Router!Backends -> Nat]
    BY <2>2 DEF RouterTypes
  <2>4. handled \in Nat /\ handled' \in 0..Requests
    BY <2>2, ServicesAssumption DEF RouterTypes
  <2>5. next' \in 0..NextMod - 1
    <3>1. next \in Nat /\ next + 1 \in Nat
      BY ServicesAssumption DEF RouterTypes
    <3>2. (next + 1) % NextMod \in 0..NextMod - 1
      BY <3>1, ServicesAssumption, Successor
    <3> QED
      BY <3>2, <2>2 DEF RouterTypes
  <2>6. \A b \in Router!Backends : chosen'[b] <= handled'
    BY <2>2, <2>4 DEF RouterTypes
  <2> QED
    BY <2>2, <2>3, <2>4, <2>5, <2>6 DEF RouterTypes
<1>2. CASE UNCHANGED Router!vars
  BY <1>2 DEF Router!vars, RouterTypes
<1> QED
  BY <1>1, <1>2

(* The steps of the round robin: another backend in this round, the first  *)
(* of the next round, or a fresh start when next_ wraps round.             *)
LEMMA RoundRobinStep ==
  ASSUME RouterTypes, RoundRobinInv, [Router!Next]_(Router!vars)
  PROVE  RoundRobinInv'
<1> SUFFICES ASSUME strategy' = "round_robin"
             PROVE  /\ next' = handled' % NextMod
                    /\ \E base \in [Router!Backends -> Nat], whole \in Nat :
                         Rounds(base, whole)'
  BY DEF RoundRobinInv
<1>1. CASE UNCHANGED Router!vars
  BY <1>1 DEF Router!vars, RoundRobinInv, Rounds
<1>2. CASE Router!Next
  <2> DEFINE at == next % N
  <2>1. /\ at \in Router!Backends
        /\ chosen' = [chosen EXCEPT ![at] = @ + 1]
        /\ next' = (next + 1) % NextMod
        /\ handled' = handled + 1 /\ strategy = "round_robin"
    <3>1. PICK work \in 0..MaxWork : Router!HandleRequest(work)
      BY <1>2 DEF Router!Next
    <3>2. strategy = "round_robin"
      BY <3>1 DEF Router!HandleRequest
    <3> QED
      BY <3>1, <3>2, Chooses DEF Router!HandleRequest, Router!ChooseBackend, Router!RoundRobin
  <2>2. /\ N \in Nat \ {0} /\ NextMod \in Nat \ {0} /\ next \in 0..NextMod - 1
        /\ next \in Nat /\ handled \in Nat
        /\ chosen \in [Router!Backends -> Nat]
        /\ Router!Backends = 0..N - 1
    BY ServicesAssumption DEF RouterTypes, Router!Backends
  <2>3. next = handled % NextMod
    BY <2>1 DEF RoundRobinInv
  <2>4. PICK base \in [Router!Backends -> Nat], whole \in Nat : Rounds(base, whole)
    BY <2>1 DEF RoundRobinInv
  <2>5. next' = handled' % NextMod
    <3>1. /\ (next + 1) % NextMod = IF next % NextMod = NextMod - 1 THEN 0 ELSE (next % NextMod) + 1
          /\ (handled + 1) % NextMod
               = IF handled % NextMod = NextMod - 1 THEN 0 ELSE (handled % NextMod) + 1
      BY <2>2, Successor
    <3>2. next % NextMod = next
      <4>1. next < NextMod
        BY <2>2
      <4> QED
        BY <4>1, <2>2, Successor
    <3> QED
      BY <3>1, <3>2, <2>1, <2>3
  <2>6. /\ at \in 0..N - 1
        /\ \A b \in Router!Backends : b \in 0..N - 1
        /\ (next + 1) % N = IF at = N - 1 THEN 0 ELSE at + 1
    BY <2>2, Successor
  <2>7. /\ handled \div NextMod \in Nat
        /\ handled' \div NextMod = IF next = NextMod - 1 THEN handled \div NextMod + 1
                                   ELSE handled \div NextMod
    BY <2>1, <2>2, <2>3, Successor
  <2>8. \A b \in Router!Backends :
          /\ chosen'[b] = chosen[b] + (IF b = at THEN 1 ELSE 0)
          /\ chosen[b] = base[b] + whole + (IF b < at THEN 1 ELSE 0)
          /\ base[b] \in Nat
    <3>1. \A b \in Router!Backends : chosen'[b] = chosen[b] + (IF b = at THEN 1 ELSE 0)
      <4> HIDE DEF at
      <4>1. /\ chosen \in [Router!Backends -> Nat] /\ at \in Router!Backends
            /\ chosen' = [chosen EXCEPT ![at] = @ + 1]
        BY <2>1, <2>2
      <4> QED
        BY <4>1
    <3>2. \A b \in Router!Backends : chosen[b] = base[b] + whole + (IF b < at THEN 1 ELSE 0)
      BY <2>4 DEF Rounds
    <3> QED
      BY <3>1, <3>2, <2>4
  <2>9. \A b, c \in Router!Backends : base[b] - base[c] <= handled \div NextMod
    BY <2>4 DEF Rounds
  <2> HIDE DEF at
  <2>10. CASE next = NextMod - 1
    <3>1. next' = 0 /\ next' % N = 0
      <4>1. next < NextMod
        BY <2>2
      <4> QED
        BY <4>1, <2>1, <2>2, <2>10, Successor
    <3>2. PICK now \in [Router!Backends -> Nat] : now = chosen'
      <4>1. /\ chosen \in [Router!Backends -> Nat] /\ at \in Router!Backends
            /\ chosen' = [chosen EXCEPT ![at] = @ + 1]
        BY <2>1, <2>2
      <4>2. chosen' \in [Router!Backends -> Nat]
        BY <4>1
      <4> QED
        BY <4>2
    <3>3. ASSUME NEW b \in Router!Backends
          PROVE  now[b] = base[b] + whole + (IF b <= at THEN 1 ELSE 0)
      <4>1. now[b] = base[b] + whole + (IF b < at THEN 1 ELSE 0) + (IF b = at THEN 1 ELSE 0)
        BY <2>8, <3>2
      <4>2. b \in Int /\ at \in Int /\ base[b] \in Nat /\ whole \in Nat
        BY <2>4, <2>6, <2>8
      <4> QED
        BY <4>1, <4>2
    <3>4. ASSUME NEW b \in Router!Backends, NEW c \in Router!Backends
          PROVE  now[b] - now[c] <= handled \div NextMod + 1
      <4>1. /\ now[b] = base[b] + whole + (IF b <= at THEN 1 ELSE 0)
            /\ now[c] = base[c] + whole + (IF c <= at THEN 1 ELSE 0)
        BY <3>3
      <4>2. /\ base[b] \in Nat /\ base[c] \in Nat /\ whole \in Nat
            /\ base[b] - base[c] <= handled \div NextMod /\ handled \div NextMod \in Nat
        BY <2>4, <2>7, <2>8, <2>9
      <4> QED
        BY <4>1, <4>2
    <3>5. ASSUME NEW b \in Router!Backends
          PROVE  now[b] = now[b] + 0 + (IF b < 0 THEN 1 ELSE 0)
      <4>1. b \in Nat /\ now[b] \in Nat
        BY <2>6, <3>2
      <4> QED
        BY <4>1
    <3>6. Rounds(now, 0)'
      BY <2>7, <2>10, <3>1, <3>2, <3>4, <3>5 DEF Rounds
    <3> QED
      BY <2>5, <3>6
  <2>11. CASE next # NextMod - 1
    <3>1. next' = next + 1
      <4>1. next < NextMod
        BY <2>2
      <4> QED
        BY <4>1, <2>1, <2>2, <2>11, Successor
    <3>2. CASE at = N - 1
      <4>1. next' % N = 0
        BY <3>1, <3>2, <2>6
      <4>2. ASSUME NEW b \in Router!Backends
            PROVE  chosen'[b] = base[b] + (whole + 1) + (IF b < 0 THEN 1 ELSE 0)
        <5>1. chosen'[b] = base[b] + whole + (IF b < at THEN 1 ELSE 0) + (IF b = at THEN 1 ELSE 0)
          BY <2>8
        <5>2. b \in 0..N - 1 /\ N \in Nat /\ base[b] \in Nat /\ whole \in Nat
          BY <2>2, <2>4, <2>6, <2>8
        <5> QED
          BY <5>1, <5>2, <3>2
      <4>3. Rounds(base, whole + 1)'
        BY <4>1, <4>2, <2>7, <2>9, <2>11 DEF Rounds
      <4> QED
        BY <4>3, <2>4, <2>5
    <3>3. CASE at # N - 1
      <4>1. next' % N = at + 1
        BY <3>1, <3>3, <2>6
      <4>2. ASSUME NEW b \in Router!Backends
            PROVE  chosen'[b] = base[b] + whole + (IF b < at + 1 THEN 1 ELSE 0)
        <5>1. chosen'[b] = base[b] + whole + (IF b < at THEN 1 ELSE 0) + (IF b = at THEN 1 ELSE 0)
          BY <2>8
        <5>2. b \in Int /\ at \in Int /\ base[b] \in Nat /\ whole \in Nat
          BY <2>4, <2>6, <2>8
        <5> QED
          BY <5>1, <5>2
      <4>3. Rounds(base, whole)'
        BY <4>1, <4>2, <2>7, <2>9, <2>11 DEF Rounds
      <4> QED
        BY <4>3, <2>4, <2>5
    <3> QED
      BY <3>2, <3>3
  <2> QED
    BY <2>10, <2>11
<1> QED
  BY <1>1, <1>2

(* With the least loaded backend: the loads of two backends differ by no   *)
(* more than the work of one request or than two did at the start.         *)
LoadsClose ==
  strategy = "least_loaded" =>
    \A b, c \in Router!Backends :
      \/ in_flight[b] - in_flight[c] <= MaxWork
      \/ \E d, e \in Router!Backends :
           in_flight[b] - in_flight[c] <= Router!Initial[d] - Router!Initial[e]

(* The least loaded backend takes the work of a request.                   *)
LEMMA LeastLoadedStep ==
  ASSUME RouterTypes, LoadsClose, [Router!Next]_(Router!vars)
  PROVE  LoadsClose'
<1>1. CASE UNCHANGED Router!vars
  BY <1>1 DEF Router!vars, LoadsClose
<1>2. CASE Router!Next
  <2> SUFFICES ASSUME strategy' = "least_loaded",
                      NEW b \in Router!Backends, NEW c \in Router!Backends
               PROVE  \/ in_flight'[b] - in_flight'[c] <= MaxWork
                      \/ \E d, e \in Router!Backends :
                           in_flight'[b] - in_flight'[c] <= Router!Initial[d] - Router!Initial[e]
    BY DEF LoadsClose
  <2>1. PICK work \in 0..MaxWork : Router!HandleRequest(work)
    BY <1>2 DEF Router!Next
  <2>2. PICK l : l = Router!LeastLoaded
    OBVIOUS
  <2>3. /\ strategy = "least_loaded" /\ l \in Router!Backends
        /\ in_flight' = [in_flight EXCEPT ![l] = @ + work]
        /\ \A d \in Router!Backends : in_flight[l] <= in_flight[d]
    BY <2>1, <2>2, LeastLoadedIsLeast DEF Router!HandleRequest, Router!ChooseBackend
  <2>4. /\ in_flight \in [Router!Backends -> Nat] /\ MaxWork \in Nat
        /\ work \in Nat /\ work <= MaxWork
    BY <2>1, ServicesAssumption DEF RouterTypes
  <2>5. /\ in_flight'[b] = IF b = l THEN in_flight[b] + work ELSE in_flight[b]
        /\ in_flight'[c] = IF c = l THEN in_flight[c] + work ELSE in_flight[c]
        /\ in_flight[b] \in Nat /\ in_flight[c] \in Nat
    BY <2>3, <2>4
  <2>6. CASE b = l
    <3>1. in_flight[b] <= in_flight[c]
      BY <2>3, <2>6
    <3> QED
      BY <3>1, <2>4, <2>5
  <2>7. CASE b # l
    <3>1. in_flight'[b] - in_flight'[c] <= in_flight[b] - in_flight[c]
      BY <2>4, <2>5, <2>7
    <3>2. /\ in_flight'[b] \in Int /\ in_flight'[c] \in Int
          /\ \A d \in Router!Backends : Router!Initial[d] \in Int
      BY <2>4, <2>5 DEF Router!Initial
    <3>3. CASE in_flight[b] - in_flight[c] <= MaxWork
      BY <3>1, <3>2, <3>3, <2>4, <2>5
    <3>4. ASSUME NEW d \in Router!Backends, NEW e \in Router!Backends,
                 in_flight[b] - in_flight[c] <= Router!Initial[d] - Router!Initial[e]
          PROVE  in_flight'[b] - in_flight'[c] <= Router!Initial[d] - Router!Initial[e]
      BY <3>1, <3>2, <3>4, <2>5
    <3> QED
      BY <3>3, <3>4, <2>3 DEF LoadsClose
  <2> QED
    BY <2>6, <2>7
<1> QED
  BY <1>1, <1>2

(* All three hold of every behaviour.                                      *)
LEMMA RouterInvariant == Spec => [](RouterTypes /\ RoundRobinInv /\ LoadsClose)
<1>1. Init => RouterTypes /\ RoundRobinInv /\ LoadsClose
  <2> SUFFICES ASSUME Router!Init PROVE RouterTypes /\ RoundRobinInv /\ LoadsClose
    BY DEF Init
  <2>1. /\ strategy \in {"round_robin", "least_loaded"}
        /\ in_flight = Router!Initial /\ next = 0 /\ handled = 0
        /\ chosen = [b \in Router!Backends |-> 0]
    BY DEF Router!Init
  <2>2. RouterTypes
    <3>1. in_flight \in [Router!Backends -> Nat]
      BY <2>1 DEF Router!Initial
    <3>2. next \in 0..NextMod - 1 /\ handled \in 0..Requests
      BY <2>1, ServicesAssumption
    <3> QED
      BY <2>1, <3>1, <3>2 DEF RouterTypes
  <2>3. RoundRobinInv
    <3>1. PICK base \in [Router!Backends -> Nat] : base = [b \in Router!Backends |-> 0]
      OBVIOUS
    <3>2. /\ 0 % NextMod = 0 /\ 0 \div NextMod = 0 /\ 0 % N = 0
          /\ \A b \in Router!Backends : b \in Nat
      BY ServicesAssumption, Successor DEF Router!Backends
    <3>3. Rounds(base, 0)
      BY <2>1, <3>1, <3>2 DEF Rounds
    <3> QED
      BY <2>1, <3>2, <3>3 DEF RoundRobinInv
  <2>4. LoadsClose
    <3>1. \A b \in Router!Backends : Router!Initial[b] \in Int
      BY DEF Router!Initial
    <3> QED
      BY <2>1, <3>1 DEF LoadsClose
  <2> QED
    BY <2>2, <2>3, <2>4
<1>2. RouterTypes /\ RoundRobinInv /\ LoadsClose
      /\ [Next]_<<program, connection, command, routing, key>>
        => RouterTypes' /\ RoundRobinInv' /\ LoadsClose'
  BY ProgramStep, RouterTypesStep, RoundRobinStep, LeastLoadedStep
<1> QED
  BY <1>1, <1>2, PTL DEF Spec

(* choose_backend: the round robin chooses two backends equally often, up  *)
(* to one request and one for each time next_ wrapped round; the least     *)
(* loaded backend keeps the loads together.                                *)
THEOREM BalancesRequests == Spec => []Balanced
<1>1. RouterTypes /\ RoundRobinInv /\ LoadsClose => Balanced
  <2> SUFFICES ASSUME RouterTypes, RoundRobinInv, strategy = "round_robin",
                      NEW b \in Router!Backends, NEW c \in Router!Backends
               PROVE  chosen[b] - chosen[c] <= 1 + handled \div NextMod
    BY DEF LoadsClose, Balanced, Router!Balanced
  <2>1. PICK base \in [Router!Backends -> Nat], whole \in Nat : Rounds(base, whole)
    BY DEF RoundRobinInv
  <2>2. /\ base[b] - base[c] <= handled \div NextMod
        /\ chosen[b] = base[b] + whole + (IF b < next % N THEN 1 ELSE 0)
        /\ chosen[c] = base[c] + whole + (IF c < next % N THEN 1 ELSE 0)
    BY <2>1 DEF Rounds
  <2>3. base[b] \in Nat /\ base[c] \in Nat /\ handled \div NextMod \in Nat
    <3>1. handled \in Nat /\ NextMod \in Nat \ {0}
      BY ServicesAssumption DEF RouterTypes
    <3> QED
      BY <3>1, <2>1, Successor
  <2> QED
    BY <2>2, <2>3
<1> QED
  BY <1>1, RouterInvariant, PTL

-----------------------------------------------------------------------------
(* The states, the calls and the counters keep their types.                *)
THEOREM TypeCorrect == Spec => []TypeOK
<1>1. SessionTypes => Session!TypeOK
  BY DEF SessionTypes, Events, Session!TypeOK, Session!BoundedSeq, Session!SeqOf
<1>2. QueueTypes /\ QueueInv => Queue!TypeOK
  <2> SUFFICES ASSUME QueueTypes, QueueInv PROVE Queue!TypeOK
    OBVIOUS
  <2>1. Queue!IsInjective(commands) /\ Queue!ToSet(commands) \subseteq Cmds
    BY DEF QueueTypes, Queue!IsInjective, Queue!ToSet
  <2>2. Queue!ToSet(applied) \subseteq Cmds
    BY DEF QueueTypes, Queue!ToSet
  <2>3. /\ call.op = "execute_all" => call.at \in 1..Len(commands) + 1
        /\ call.op = "execute_with_retry" =>
             /\ call.cmd \in Cmds /\ call.max \in 0..MaxAttempts
             /\ call.at = 1 \/ call.at \in 1..call.max
    BY CallShapes DEF QueueInv, Attempts
  <2> QED
    BY <2>1, <2>2, <2>3 DEF QueueTypes, Queue!TypeOK
<1>3. RouterTypes => Router!TypeOK
  <2> SUFFICES ASSUME RouterTypes PROVE Router!TypeOK
    OBVIOUS
  <2>1. chosen \in [Router!Backends -> 0..Requests]
    <3>1. \A b \in Router!Backends : chosen[b] \in 0..Requests
      BY ServicesAssumption DEF RouterTypes
    <3> QED
      BY <3>1 DEF RouterTypes
  <2> QED
    BY <2>1 DEF RouterTypes, Router!TypeOK
<1> QED
  BY <1>1, <1>2, <1>3, SessionInvariant, QueueInvariant, RouterInvariant, PTL DEF TypeOK, SessionInv
=============================================================================
