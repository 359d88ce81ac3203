----------------------------- MODULE Connection -----------------------------
(***************************************************************************)
(* Connection of examples/state/main.cpp with its four states, the socket  *)
(* below it and the server.  Events reach the connection one by one, some  *)
(* time after the socket raised them, and carry no identity of the socket: *)
(* when the callers connect again too early, those of the socket that was  *)
(* given up are taken for the new one's.                                   *)
(*                                                                         *)
(* Queries change no state and are left out; so are the calls and events a *)
(* state only logs, except that a logged event is consumed.                *)
(***************************************************************************)
EXTENDS Integers, Sequences, SequencesExt

CONSTANTS
  MaxEvents,  \* bound: the events waiting to be delivered
  MaxTokens   \* bound: the tokens waiting for an answer

VARIABLES
  state,     \* state_
  waits,     \* do the callers wait for the end of a socket, see Connect
  socket,    \* the socket of the last connect
  abandoned, \* the socket given up by connecting again while it was not closed
  events,    \* what the sockets raised and the connection has not been told
  tokens,    \* the tokens the server has not answered on this socket
  verdict    \* the server's first answer on this socket, or "none"

vars == <<state, waits, socket, abandoned, events, tokens, verdict>>

Answers == {"AUTH_OK", "AUTH_FAIL"}
Bytes   == Answers \cup {"other"}

Init ==
  /\ state = "Disconnected"
  /\ waits \in BOOLEAN
  /\ socket = "closed"
  /\ abandoned = "closed"
  /\ events = <<>>
  /\ tokens = 0
  /\ verdict = "none"

-----------------------------------------------------------------------------
(* connect().  Callers that wait connect again once the last socket is     *)
(* closed and everything it raised has been delivered; the code asks for   *)
(* neither.  Bound: one abandoned socket at a time.                        *)
Connect ==
  /\ state = "Disconnected"
  /\ waits => socket = "closed" /\ events = <<>>
  /\ "closed" \in {socket, abandoned}
  /\ state' = "Connecting"
  /\ abandoned' = IF socket = "closed" THEN abandoned ELSE socket
  /\ socket' = "opening"
  /\ tokens' = 0
  /\ verdict' = "none"
  /\ UNCHANGED <<waits, events>>

(* authenticate(token)                                                     *)
Authenticate ==
  /\ state = "Authenticating"
  /\ tokens < MaxTokens
  /\ tokens' = tokens + 1
  /\ UNCHANGED <<state, waits, socket, abandoned, events, verdict>>

-----------------------------------------------------------------------------
(* The state that each event leads to.                                     *)
OnSocketConnected == IF state = "Connecting" THEN "Authenticating" ELSE state

(* A variant with a plausible slip, which takes no part in the             *)
(* specification; it serves to show that a property notices the slip.      *)
AnythingButFail(bytes) ==
  CASE state = "Authenticating" /\ bytes = "AUTH_FAIL" -> "Disconnected"
    [] state = "Authenticating" /\ bytes # "AUTH_FAIL" -> "Ready"
    [] OTHER                                           -> state

OnBytesReceived(bytes) ==
  CASE state = "Authenticating" /\ bytes = "AUTH_OK"   -> "Ready"
    [] state = "Authenticating" /\ bytes = "AUTH_FAIL" -> "Disconnected"
    [] OTHER                                           -> state

OnSocketClosed == "Disconnected"

(* The handler that the next event calls in the current state.             *)
Deliver ==
  /\ events # <<>>
  /\ events' = Tail(events)
  /\ state' = CASE Head(events) = "connected" -> OnSocketConnected
                [] Head(events) = "closed"    -> OnSocketClosed
                [] OTHER                      -> OnBytesReceived(Head(events))
  /\ UNCHANGED <<waits, socket, abandoned, tokens, verdict>>

-----------------------------------------------------------------------------
(* The sockets and the server.                                             *)
Raise(event) == Len(events) < MaxEvents /\ events' = Append(events, event)

SocketOpens ==
  /\ socket = "opening"
  /\ Raise("connected")
  /\ socket' = "open"
  /\ UNCHANGED <<state, waits, abandoned, tokens, verdict>>

(* ... fails to open, or is closed by either side.                         *)
SocketCloses ==
  /\ socket # "closed"
  /\ Raise("closed")
  /\ socket' = "closed"
  /\ UNCHANGED <<state, waits, abandoned, tokens, verdict>>

(* The server answers a token ...                                          *)
ServerAnswers ==
  /\ socket = "open" /\ tokens > 0
  /\ tokens' = tokens - 1
  /\ \E answer \in Answers :
       /\ Raise(answer)
       /\ verdict' = IF verdict = "none" THEN answer ELSE verdict
  /\ UNCHANGED <<state, waits, socket, abandoned>>

(* ... or sends something else.                                            *)
ServerSends ==
  /\ socket = "open"
  /\ Raise("other")
  /\ UNCHANGED <<state, waits, socket, abandoned, tokens, verdict>>

(* An abandoned socket goes on: it opens, closes, or its server sends.     *)
AbandonedRaises ==
  /\ \/ abandoned = "opening" /\ Raise("connected") /\ abandoned' = "open"
     \/ abandoned # "closed" /\ Raise("closed") /\ abandoned' = "closed"
     \/ abandoned = "open" /\ (\E bytes \in Bytes : Raise(bytes)) /\ UNCHANGED abandoned
  /\ UNCHANGED <<state, waits, socket, tokens, verdict>>

Next ==
  \/ Connect \/ Authenticate \/ Deliver
  \/ SocketOpens \/ SocketCloses \/ ServerAnswers \/ ServerSends
  \/ AbandonedRaises

Spec == Init /\ [][Next]_vars

-----------------------------------------------------------------------------
(* state_ is one of the four states.                                       *)
TypeOK ==
  /\ state \in {"Disconnected", "Connecting", "Authenticating", "Ready"}
  /\ waits \in BOOLEAN
  /\ socket \in {"opening", "open", "closed"}
  /\ abandoned \in {"opening", "open", "closed"}
  /\ events \in BoundedSeq(Bytes \cup {"connected", "closed"}, MaxEvents)
  /\ tokens \in 0..MaxTokens
  /\ verdict \in Answers \cup {"none"}

Pending(event) == \E i \in DOMAIN events : events[i] = event

(* Nothing is missed, whenever the callers connect: the connection waits   *)
(* for its socket or for an answer only while that can still be delivered, *)
(* and it leaves its state when the socket is gone.                        *)
NothingMissed ==
  /\ state = "Connecting" /\ socket = "open" => Pending("connected")
  /\ state = "Authenticating" /\ verdict # "none" => Pending(verdict)
  /\ state # "Disconnected" /\ socket = "closed" => Pending("closed")

(* Nothing is mistaken: no event of an earlier socket, and no answer but   *)
(* the first, makes the connection Ready or gives the socket up.           *)
NothingMistaken ==
  /\ state = "Ready" => verdict = "AUTH_OK"
  /\ state = "Disconnected" /\ socket # "closed" => verdict = "AUTH_FAIL"
  /\ state \in {"Authenticating", "Ready"} => socket # "opening" /\ ~Pending("connected")

(* The connection follows its socket, up to the events it has not been     *)
(* told.  Only callers that wait may rely on the second half.              *)
StateFollowsSocket == NothingMissed /\ (waits => NothingMistaken)
=============================================================================
