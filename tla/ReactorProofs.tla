---------------------------- MODULE ReactorProofs ----------------------------
(***************************************************************************)
(* Theorems about Reactor, for every number of sources and of messages and *)
(* every size of the pipes.                                                *)
(***************************************************************************)
EXTENDS Reactor, FiniteSetTheorems, SequenceTheorems, TLAPS

(* A pipe, a descriptor and a watcher for every source, and nothing read.  *)
LEMMA TypeInit == Init => TypeOK
<1> SUFFICES ASSUME Init PROVE TypeOK
  OBVIOUS
<1> USE ReactorAssumption DEF Init
<1>1. Cardinality(Watched) = NumSources
  <2>1. Watched = 1..NumSources
    BY DEF Watched, Sources
  <2>2. 0 \in Int /\ 1 \in Int /\ NumSources \in Int
    OBVIOUS
  <2> QED
    BY <2>1, <2>2, FS_Interval
<1>2. /\ sent \in [Sources -> 0..NumEvents]
      /\ pipe \in [Sources -> Seq(Tokens)]
      /\ \A s \in Sources : Len(pipe[s]) <= PipeCapacity
      /\ revents \in [Sources -> SUBSET Events]
  OBVIOUS
<1>3. loop \in LoopPc /\ cur \in 1..(NumSources + 1) /\ message \in Seq(Tokens \ {Newline})
  BY DEF LoopPc
<1>4. delivered \in [Sources -> Seq(Seq(Tokens \ {Newline}))]
  OBVIOUS
<1> QED
  BY <1>1, <1>2, <1>3, <1>4 DEF TypeOK

(* Every step keeps the types; retiring a watcher takes one out of the     *)
(* watched ones, which active_sources counts.                              *)
LEMMA TypeNext == TypeOK /\ [Next]_vars => TypeOK'
<1> SUFFICES ASSUME TypeOK, [Next]_vars PROVE TypeOK'
  OBVIOUS
<1> USE ReactorAssumption
<1> DEFINE Text == Tokens \ {Newline}
<1>c. /\ IsFiniteSet(Watched) /\ Watched \subseteq Sources
      /\ Cardinality(Watched) \in Nat
  <2>1. 1 \in Int /\ NumSources \in Int
    OBVIOUS
  <2>2. IsFiniteSet(Sources)
    BY <2>1, FS_Interval DEF Sources
  <2> QED
    BY <2>2, FS_Subset, FS_CardinalityType DEF Watched
<1>1. ASSUME NEW s \in Sources, Write(s) PROVE TypeOK'
  <2>1. sent[s] + 1 \in Tokens /\ Newline \in Tokens /\ sent[s] + 1 \in 0..NumEvents
    BY <1>1 DEF Write, TypeOK, Tokens, Newline
  <2>2. /\ pipe[s] \o <<sent[s] + 1, Newline>> \in Seq(Tokens)
        /\ Len(pipe[s] \o <<sent[s] + 1, Newline>>) = Len(pipe[s]) + 2
    BY <2>1 DEF TypeOK
  <2>3. /\ pipe' \in [Sources -> Seq(Tokens)]
        /\ \A r \in Sources : Len(pipe'[r]) <= PipeCapacity
        /\ sent' \in [Sources -> 0..NumEvents]
    BY <1>1, <2>1, <2>2 DEF Write, TypeOK
  <2>4. Watched' = Watched
    BY <1>1 DEF Write, Watched
  <2> QED
    BY <1>1, <2>3, <2>4 DEF Write, TypeOK
<1>2. ASSUME NEW s \in Sources, WriterReturns(s) PROVE TypeOK'
  <2>1. Watched' = Watched /\ writeOpen' \in [Sources -> BOOLEAN]
    BY <1>2 DEF WriterReturns, TypeOK, Watched
  <2> QED
    BY <1>2, <2>1 DEF WriterReturns, TypeOK
<1>3. CASE Poll
  <2>1. revents' \in [Sources -> SUBSET Events] /\ cur' \in 1..(NumSources + 1)
    BY <1>3 DEF Poll, Ready, Events
  <2>2. Watched' = Watched
    BY <1>3 DEF Poll, Watched
  <2> QED
    BY <1>3, <2>1, <2>2 DEF Poll, TypeOK, LoopPc, writers
<1>4. CASE IdleTick
  <2>1. Watched' = Watched /\ revents' \in [Sources -> SUBSET Events]
    BY <1>4 DEF IdleTick, Watched
  <2> QED
    BY <1>4, <2>1 DEF IdleTick, TypeOK, writers
<1>5. CASE Skip
  <2>1. Watched' = Watched /\ cur' \in 1..(NumSources + 1)
    BY <1>5 DEF Skip, TypeOK, Watched
  <2> QED
    BY <1>5, <2>1 DEF Skip, TypeOK, writers
<1>6. CASE Dispatch
  <2>1. cur \in Watched /\ message' \in Seq(Text)
    BY <1>6 DEF Dispatch, TypeOK, Watched, Sources
  <2>2. Watched' = Watched
    BY <1>6 DEF Dispatch, Watched
  <2> QED
    BY <1>6, <2>1, <2>2 DEF Dispatch, TypeOK, LoopPc, writers
<1>7. CASE Read
  <2>1. cur \in Sources /\ cur \in Watched /\ cur + 1 \in 1..(NumSources + 1)
    BY <1>7, <1>c DEF Read, TypeOK, Sources
  <2>2. /\ Tail(pipe[cur]) \in Seq(Tokens) /\ Head(pipe[cur]) \in Tokens
        /\ Len(Tail(pipe[cur])) <= PipeCapacity
    BY <1>7, <2>1 DEF Read, TypeOK
  <2>3. /\ pipe' \in [Sources -> Seq(Tokens)]
        /\ \A r \in Sources : Len(pipe'[r]) <= PipeCapacity
    BY <1>7, <2>1, <2>2 DEF Read, TypeOK
  <2>4. message \in Seq(Text) /\ delivered[cur] \in Seq(Seq(Text))
    BY <2>1 DEF TypeOK
  <2>5. /\ message' \in Seq(Text)
        /\ delivered' \in [Sources -> Seq(Seq(Text))]
        /\ loop' \in {"reading", "scanning"} /\ cur' \in 1..(NumSources + 1)
        /\ loop' = "reading" => cur' = cur
    <3>1. CASE EndsMessage(Head(pipe[cur]))
      <4>1. Append(delivered[cur], message) \in Seq(Seq(Text))
        BY <2>4
      <4> QED
        BY <1>7, <3>1, <2>1, <2>4, <4>1 DEF Read, TypeOK
    <3>2. CASE ~EndsMessage(Head(pipe[cur]))
      <4>1. Append(message, Head(pipe[cur])) \in Seq(Text)
        BY <2>2, <2>4, <3>2 DEF EndsMessage
      <4> QED
        BY <1>7, <3>2, <4>1 DEF Read, TypeOK
    <3> QED
      BY <3>1, <3>2
  <2>6. Watched' = Watched /\ UNCHANGED <<sent, writeOpen, readOpen, watched, revents, active>>
    BY <1>7 DEF Read, Watched, writers
  <2> QED
    BY <2>1, <2>3, <2>5, <2>6 DEF TypeOK, LoopPc
<1>8. CASE ReadEof
  <2>1. cur \in Sources /\ cur \in Watched /\ cur + 1 \in 1..(NumSources + 1)
    BY <1>8, <1>c DEF ReadEof, TypeOK, Sources
  <2>2. Watched' = Watched \ {cur}
    BY <1>8, <2>1 DEF ReadEof, Retire, TypeOK, Watched
  <2>3. Cardinality(Watched') = Cardinality(Watched) - 1
    BY <1>c, <2>1, <2>2, FS_RemoveElement
  <2>4. delivered' \in [Sources -> Seq(Seq(Text))]
    <3>1. message \in Seq(Text) /\ delivered[cur] \in Seq(Seq(Text))
      BY <2>1 DEF TypeOK
    <3>2. Append(delivered[cur], message) \in Seq(Seq(Text))
      BY <3>1
    <3> QED
      BY <1>8, <2>1, <3>2 DEF ReadEof, TypeOK
  <2>5. readOpen' \in [Sources -> BOOLEAN] /\ watched' \in [Sources -> BOOLEAN]
    BY <1>8 DEF ReadEof, Retire, TypeOK
  <2> QED
    BY <1>8, <2>1, <2>3, <2>4, <2>5 DEF ReadEof, Retire, TypeOK, LoopPc, writers
<1>9. CASE ScanEnds
  <2>1. Watched' = Watched /\ loop' \in LoopPc /\ loop' # "reading"
        /\ (loop' \in {"joining", "exit"} => active = 0)
    BY <1>9, <1>c DEF ScanEnds, TypeOK, LoopPc, Watched
  <2> QED
    BY <1>9, <2>1 DEF ScanEnds, TypeOK, writers
<1>10. CASE MainReturns
  <2>1. Watched' = Watched /\ active = 0
    BY <1>10 DEF MainReturns, TypeOK, Watched
  <2> QED
    BY <1>10, <2>1 DEF MainReturns, TypeOK, LoopPc, writers
<1>11. CASE UNCHANGED vars
  BY <1>11 DEF vars, TypeOK, Watched
<1> QED
  BY <1>1, <1>2, <1>3, <1>4, <1>5, <1>6, <1>7, <1>8, <1>9, <1>10, <1>11
  DEF Next, Main, Writer

(* main()'s locals and the pipes keep their types, and active_sources      *)
(* counts the watchers that hold a descriptor.                             *)
THEOREM TypeCorrect == Spec => []TypeOK
BY TypeInit, TypeNext, PTL DEF Spec

-----------------------------------------------------------------------------
(***************************************************************************)
(* The inductive invariant                                                 *)
(***************************************************************************)

(* The token at position k of all that a writer sends.                     *)
Token(k) == IF k % 2 = 0 THEN Newline ELSE (k + 1) \div 2

(* How much of it has been read from the pipe of source s.                 *)
Consumed(s) == 2 * Len(delivered[s]) + Len(BeingRead(s))

(* The handler has logged whole messages in order and holds the text of    *)
(* the next one or nothing; the pipe holds what the writer has sent and    *)
(* the handler has not read; and a writer closes the pipe when it has sent *)
(* everything.                                                             *)
Stream(s) ==
  /\ \A i \in 1..Len(delivered[s]) : delivered[s][i] = <<i>>
  /\ BeingRead(s) \in {<<>>, <<Len(delivered[s]) + 1>>}
  /\ Len(pipe[s]) = 2 * sent[s] - Consumed(s)
  /\ \A i \in 1..Len(pipe[s]) : pipe[s][i] = Token(Consumed(s) + i)
  /\ ~writeOpen[s] => sent[s] = NumEvents

(* What poll reported of the watchers the loop has not come to still       *)
(* holds: a pipe with data keeps it until its own handler runs, and a      *)
(* closed pipe stays closed.                                               *)
HasInput(s) == pipe[s] # <<>> \/ ~writeOpen[s]

StillReady ==
  \A s \in Sources :
    /\ loop \in {"scanning", "reading"}
    /\ cur < s \/ (cur = s /\ loop = "scanning")
    /\ watched[s]
    /\ revents[s] \cap Relevant # {}
    => HasInput(s)

IInv ==
  /\ TypeOK
  /\ \A s \in Sources : Stream(s)
  /\ StillReady
  /\ NeverBlocksInRead
  /\ RetiredWhenDrained

(* The invariant holds before anything is sent.                            *)
LEMMA InitIInv == Init => IInv
<1> SUFFICES ASSUME Init PROVE IInv
  OBVIOUS
<1>1. ASSUME NEW s \in Sources PROVE Stream(s)
  BY ReactorAssumption DEF Init, Stream, BeingRead, Consumed
<1>2. StillReady /\ NeverBlocksInRead /\ RetiredWhenDrained
  BY DEF Init, StillReady, NeverBlocksInRead, RetiredWhenDrained
<1> QED
  BY <1>1, <1>2, TypeInit DEF IInv

(* Line n + 1 is the tokens 2n + 1, its text, and 2n + 2, its newline.     *)
LEMMA TokenOfLine ==
  ASSUME NEW n \in Nat
  PROVE  Token(2 * n + 1) = n + 1 /\ Token(2 * n + 2) = Newline
BY DEF Token

(* The types of what belongs to one source.                                *)
LEMMA SourceTypes ==
  ASSUME TypeOK, NEW s \in Sources
  PROVE  /\ sent[s] \in Nat /\ sent[s] <= NumEvents
         /\ pipe[s] \in Seq(Tokens) /\ Len(pipe[s]) \in Nat
         /\ delivered[s] \in Seq(Seq(Tokens \ {Newline})) /\ Len(delivered[s]) \in Nat
         /\ message \in Seq(Tokens \ {Newline})
         /\ cur \in Nat
         /\ Tokens \subseteq Nat
BY ReactorAssumption DEF TypeOK, Tokens

(* An open stream: what it says of the number of tokens.                   *)
LEMMA StreamLength ==
  ASSUME TypeOK, NEW s \in Sources, Stream(s)
  PROVE  \/ BeingRead(s) = <<>> /\ Consumed(s) = 2 * Len(delivered[s])
         \/ /\ BeingRead(s) = <<Len(delivered[s]) + 1>>
            /\ Consumed(s) = 2 * Len(delivered[s]) + 1
            /\ pipe[s] # <<>>
<1>1. CASE BeingRead(s) = <<>>
  BY <1>1, SourceTypes DEF Consumed
<1>2. CASE BeingRead(s) = <<Len(delivered[s]) + 1>>
  <2>1. Consumed(s) = 2 * Len(delivered[s]) + 1
    BY <1>2, SourceTypes DEF Consumed
  <2>2. Len(pipe[s]) # 0
    BY <2>1, SourceTypes DEF Stream
  <2> QED
    BY <1>2, <2>1, <2>2
<1> QED
  BY <1>1, <1>2 DEF Stream

(* At the end of file the handler holds no text, and every message of the  *)
(* source has been logged.                                                 *)
LEMMA EofDrained ==
  ASSUME TypeOK, cur \in Sources, Stream(cur), ReadEof
  PROVE  message = <<>> /\ Len(delivered[cur]) = NumEvents
<1>1. BeingRead(cur) = message /\ pipe[cur] = <<>> /\ ~writeOpen[cur]
  BY DEF ReadEof, AtEof, BeingRead
<1>2. BeingRead(cur) = <<>> /\ Consumed(cur) = 2 * Len(delivered[cur])
  BY <1>1, StreamLength
<1>3. 0 = 2 * sent[cur] - 2 * Len(delivered[cur]) /\ sent[cur] = NumEvents
  BY <1>1, <1>2 DEF Stream
<1>4. sent[cur] \in Nat /\ Len(delivered[cur]) \in Nat
  BY SourceTypes
<1> QED
  BY <1>1, <1>2, <1>3, <1>4

(* The step of one read: text joins the message, a newline ends it.        *)
LEMMA ReadStream ==
  ASSUME TypeOK, NEW s \in Sources, cur = s, Stream(s), Read
  PROVE  Stream(s)'
<1> DEFINE d == Len(delivered[s])
           c == Consumed(s)
<1>t. /\ sent[s] \in Nat /\ d \in Nat
      /\ pipe[s] \in Seq(Tokens) /\ Len(pipe[s]) \in Nat
      /\ delivered[s] \in Seq(Seq(Tokens \ {Newline}))
      /\ message \in Seq(Tokens \ {Newline})
  BY SourceTypes
<1>n. pipe[s] # <<>> /\ loop = "reading" /\ BeingRead(s) = message
  BY DEF Read, BeingRead
<1>f. /\ pipe \in [Sources -> Seq(Tokens)]
      /\ delivered \in [Sources -> Seq(Seq(Tokens \ {Newline}))]
      /\ cur \in Nat
  BY ReactorAssumption DEF TypeOK
<1>s. /\ \A i \in 1..d : delivered[s][i] = <<i>>
      /\ Len(pipe[s]) = 2 * sent[s] - c
      /\ \A i \in 1..Len(pipe[s]) : pipe[s][i] = Token(c + i)
      /\ ~writeOpen[s] => sent[s] = NumEvents
  BY DEF Stream
<1>l. \/ message = <<>> /\ c = 2 * d
      \/ message = <<d + 1>> /\ c = 2 * d + 1
  BY <1>n, StreamLength
<1>c. c \in Nat
  BY <1>l, <1>t
<1>p. /\ pipe'[s] = Tail(pipe[s])
      /\ Len(pipe'[s]) = Len(pipe[s]) - 1
      /\ \A i \in 1..Len(pipe'[s]) : pipe'[s][i] = pipe[s][i + 1]
      /\ Head(pipe[s]) = pipe[s][1] /\ Len(pipe[s]) # 0
      /\ UNCHANGED <<sent, writeOpen>>
  BY <1>t, <1>n, <1>f DEF Read, writers
<1>h. Head(pipe[s]) = Token(c + 1)
  <2> HIDE DEF c
  <2>1. 1 \in 1..Len(pipe[s])
    BY <1>t, <1>p
  <2> QED
    BY <2>1, <1>s, <1>p
<1>q. Len(pipe'[s]) = 2 * sent[s] - (c + 1)
  <2> HIDE DEF c
  <2>1. Len(pipe[s]) = 2 * sent[s] - c /\ Len(pipe'[s]) = Len(pipe[s]) - 1
    BY <1>s, <1>p
  <2>2. sent[s] \in Nat /\ c \in Nat
    BY <1>c, <1>t
  <2> QED
    BY <2>1, <2>2
<1>r. \A i \in 1..Len(pipe'[s]) : pipe'[s][i] = Token((c + 1) + i)
  <2> SUFFICES ASSUME NEW i \in 1..Len(pipe'[s]) PROVE pipe'[s][i] = Token((c + 1) + i)
    OBVIOUS
  <2> HIDE DEF c
  <2>1. i + 1 \in 1..Len(pipe[s]) /\ c + (i + 1) = (c + 1) + i
    BY <1>c, <1>p, <1>t
  <2> QED
    BY <2>1, <1>p, <1>s
<1>1. CASE message = <<>>
  <2>1. c = 2 * d
    BY <1>1, <1>l
  <2>2. Head(pipe[s]) = d + 1 /\ Head(pipe[s]) # Newline
    BY <2>1, <1>h, <1>t, TokenOfLine DEF Newline
  <2>3. message' = <<d + 1>> /\ UNCHANGED <<delivered, loop, cur>>
    BY <1>1, <2>2 DEF Read, EndsMessage
  <2>4. BeingRead(s)' = <<d + 1>> /\ Consumed(s)' = c + 1
    BY <2>1, <2>3, <1>n, <1>t DEF BeingRead, Consumed
  <2> HIDE DEF c
  <2> QED
    BY <2>3, <2>4, <1>p, <1>q, <1>r, <1>s DEF Stream
<1>2. CASE message # <<>>
  <2>1. message = <<d + 1>> /\ c = 2 * d + 1
    BY <1>2, <1>l
  <2>2. Head(pipe[s]) = Newline
    <3>1. c + 1 = 2 * d + 2
      BY <2>1, <1>t
    <3> HIDE DEF c, d
    <3> QED
      BY <3>1, <1>h, <1>t, TokenOfLine
  <2>3. /\ delivered'[s] = Append(delivered[s], message)
        /\ loop' = "scanning" /\ cur' = cur + 1
    BY <2>2, <1>f DEF Read, EndsMessage
  <2>4. /\ Len(delivered'[s]) = d + 1
        /\ \A i \in 1..(d + 1) : delivered'[s][i] = <<i>>
    BY <2>1, <2>3, <1>t, <1>s
  <2>5. BeingRead(s)' = <<>>
    BY <2>3 DEF BeingRead
  <2>6. Consumed(s)' = c + 1
    <3>1. Consumed(s)' = 2 * (d + 1)
      BY <2>4, <2>5, <1>t DEF Consumed
    <3> HIDE DEF c, d
    <3> QED
      BY <3>1, <2>1, <1>t
  <2> HIDE DEF c
  <2> QED
    BY <2>4, <2>5, <2>6, <1>p, <1>q, <1>r, <1>s DEF Stream
<1> QED
  BY <1>1, <1>2

(* The step of one write: a line joins the end of the pipe.                *)
LEMMA WriteStream ==
  ASSUME TypeOK, NEW s \in Sources, Stream(s), Write(s)
  PROVE  Stream(s)'
<1> DEFINE c == Consumed(s)
           n == sent[s]
           p == pipe[s]
<1>t. /\ n \in Nat /\ p \in Seq(Tokens) /\ Len(p) \in Nat
      /\ Len(delivered[s]) \in Nat
  BY SourceTypes
<1>f. sent \in [Sources -> 0..NumEvents] /\ pipe \in [Sources -> Seq(Tokens)]
  BY DEF TypeOK
<1>s. /\ Len(p) = 2 * n - c
      /\ \A i \in 1..Len(p) : p[i] = Token(c + i)
      /\ \A i \in 1..Len(delivered[s]) : delivered[s][i] = <<i>>
      /\ BeingRead(s) \in {<<>>, <<Len(delivered[s]) + 1>>}
  BY DEF Stream
<1>c. c \in Nat
  BY <1>t, StreamLength
<1>u. BeingRead(s)' = BeingRead(s) /\ Consumed(s)' = c /\ UNCHANGED <<delivered, writeOpen>>
  BY DEF Write, BeingRead, Consumed
<1>w. writeOpen[s]
  BY DEF Write
<1>1. sent'[s] = n + 1 /\ pipe'[s] = p \o <<n + 1, Newline>>
  BY <1>f DEF Write
<1>2. /\ Len(pipe'[s]) = Len(p) + 2
      /\ \A i \in 1..Len(p) : pipe'[s][i] = p[i]
      /\ pipe'[s][Len(p) + 1] = n + 1
      /\ pipe'[s][Len(p) + 2] = Newline
  BY <1>1, <1>t
<1> HIDE DEF c, n, p
<1>3. Len(pipe'[s]) = 2 * (n + 1) - c
  BY <1>2, <1>s, <1>c, <1>t
<1>4. \A i \in 1..Len(pipe'[s]) : pipe'[s][i] = Token(c + i)
  <2> SUFFICES ASSUME NEW i \in 1..Len(pipe'[s]) PROVE pipe'[s][i] = Token(c + i)
    OBVIOUS
  <2>1. CASE i <= Len(p)
    <3>1. i \in 1..Len(p)
      BY <2>1, <1>2, <1>t
    <3> QED
      BY <3>1, <1>2, <1>s
  <2>2. CASE i = Len(p) + 1
    <3>1. c + i = 2 * n + 1
      BY <2>2, <1>s, <1>c, <1>t
    <3> QED
      BY <3>1, <2>2, <1>2, <1>t, TokenOfLine
  <2>3. CASE i = Len(p) + 2
    <3>1. c + i = 2 * n + 2
      BY <2>3, <1>s, <1>c, <1>t
    <3> QED
      BY <3>1, <2>3, <1>2, <1>t, TokenOfLine
  <2> QED
    BY <2>1, <2>2, <2>3, <1>2, <1>t
<1> QED
  BY <1>1, <1>3, <1>4, <1>s, <1>u, <1>w DEF Stream

(* Every step keeps every source's stream.                                 *)
LEMMA StreamNext ==
  ASSUME IInv, [Next]_vars, NEW s \in Sources
  PROVE  Stream(s)'
<1>t. TypeOK /\ Stream(s)
  BY DEF IInv
<1>f. /\ sent \in [Sources -> 0..NumEvents] /\ pipe \in [Sources -> Seq(Tokens)]
      /\ delivered \in [Sources -> Seq(Seq(Tokens \ {Newline}))]
      /\ writeOpen \in [Sources -> BOOLEAN]
      /\ loop = "reading" => cur \in Sources
      /\ cur \in Nat
  BY ReactorAssumption DEF IInv, TypeOK, Watched
(* A step that leaves the source, its pipe and its handler alone.          *)
<1>1. ASSUME sent'[s] = sent[s], writeOpen'[s] = writeOpen[s], pipe'[s] = pipe[s],
             delivered'[s] = delivered[s], BeingRead(s)' = BeingRead(s)
      PROVE  Stream(s)'
  BY <1>1, <1>t DEF Stream, Consumed
<1>2. ASSUME NEW r \in Sources, Write(r) PROVE Stream(s)'
  <2>1. CASE r = s
    BY <2>1, <1>2, <1>t, WriteStream
  <2>2. CASE r # s
    BY <2>2, <1>2, <1>1, <1>f DEF Write, BeingRead
  <2> QED
    BY <2>1, <2>2
<1>3. ASSUME NEW r \in Sources, WriterReturns(r) PROVE Stream(s)'
  BY <1>3, <1>t, <1>f DEF WriterReturns, Stream, Consumed, BeingRead
<1>4. CASE Poll \/ IdleTick \/ Skip \/ ScanEnds \/ MainReturns
  BY <1>4, <1>1 DEF Poll, IdleTick, Skip, ScanEnds, MainReturns, writers, BeingRead
<1>5. CASE Dispatch
  BY <1>5, <1>1 DEF Dispatch, writers, BeingRead
<1>6. CASE Read
  <2>1. CASE cur = s
    BY <2>1, <1>6, <1>t, ReadStream
  <2>2. CASE cur # s
    <3>1. cur \in Sources
      BY <1>6, <1>f DEF Read
    <3>2. pipe'[s] = pipe[s] /\ delivered'[s] = delivered[s]
      BY <1>6, <1>f, <2>2, <3>1 DEF Read
    <3>3. BeingRead(s) = <<>> /\ BeingRead(s)' = <<>>
      BY <1>6, <2>2 DEF Read, BeingRead
    <3> QED
      BY <1>6, <3>2, <3>3, <1>1 DEF Read, writers
  <2> QED
    BY <2>1, <2>2
<1>7. CASE ReadEof
  <2>1. cur \in Sources /\ Stream(cur)
    BY <1>7, <1>f DEF ReadEof, IInv
  <2>2. message = <<>>
    BY <1>7, <1>t, <2>1, EofDrained
  <2>3. BeingRead(s) = <<>> /\ BeingRead(s)' = <<>>
    BY <1>7, <2>2 DEF ReadEof, BeingRead
  <2>4. delivered' = delivered
    BY <1>7, <2>2 DEF ReadEof
  <2> QED
    BY <1>7, <2>3, <2>4, <1>1 DEF ReadEof, writers
<1>8. CASE UNCHANGED vars
  BY <1>8, <1>1 DEF vars, BeingRead
<1> QED
  BY <1>2, <1>3, <1>4, <1>5, <1>6, <1>7, <1>8 DEF Next, Main, Writer

(* Every step keeps what poll reported true of the watchers to come, and   *)
(* the running handler with something to read.                             *)
LEMMA ReadyNext == IInv /\ [Next]_vars => StillReady' /\ NeverBlocksInRead'
<1> SUFFICES ASSUME IInv, [Next]_vars PROVE StillReady' /\ NeverBlocksInRead'
  OBVIOUS
<1>t. TypeOK /\ StillReady /\ NeverBlocksInRead
  BY DEF IInv
<1>f. /\ pipe \in [Sources -> Seq(Tokens)] /\ writeOpen \in [Sources -> BOOLEAN]
      /\ watched \in [Sources -> BOOLEAN]
      /\ cur \in Nat /\ Sources \subseteq Nat
      /\ loop = "reading" => cur \in Sources
  BY ReactorAssumption DEF IInv, TypeOK, Watched, Sources
(* A writer's step leaves input where there is some.                       *)
<1>1. ASSUME NEW r \in Sources, Writer(r) PROVE StillReady' /\ NeverBlocksInRead'
  <2>1. \A s \in Sources : HasInput(s) => HasInput(s)'
    <3>1. CASE Write(r)
      <4>1. pipe'[r] = pipe[r] \o <<sent[r] + 1, Newline>> /\ pipe[r] \in Seq(Tokens)
        BY <3>1, <1>f DEF Write
      <4>2. Len(pipe'[r]) = Len(pipe[r]) + 2 /\ Len(pipe[r]) \in Nat
        BY <4>1
      <4>3. pipe'[r] # <<>>
        BY <4>2
      <4> QED
        BY <3>1, <4>3, <1>f DEF Write, HasInput
    <3>2. CASE WriterReturns(r)
      BY <3>2, <1>f DEF WriterReturns, HasInput
    <3> QED
      BY <1>1, <3>1, <3>2 DEF Writer
  <2>2. UNCHANGED <<loop, cur, watched, revents>>
    BY <1>1 DEF Writer, Write, WriterReturns
  <2>3. StillReady'
    BY <2>1, <2>2, <1>t DEF StillReady, Relevant
  <2>4. NeverBlocksInRead'
    BY <2>1, <2>2, <1>t, <1>f DEF NeverBlocksInRead, HasInput
  <2> QED
    BY <2>3, <2>4
<1>2. CASE Poll
  <2>1. \A s \in Sources : revents'[s] # {} => HasInput(s)'
    BY <1>2 DEF Poll, Ready, HasInput, writers
  <2> QED
    BY <1>2, <2>1 DEF Poll, StillReady, NeverBlocksInRead
<1>3. CASE IdleTick \/ ScanEnds \/ MainReturns
  BY <1>3 DEF IdleTick, ScanEnds, MainReturns, StillReady, NeverBlocksInRead
<1>4. CASE Skip
  BY <1>4, <1>t, <1>f DEF Skip, writers, StillReady, HasInput, NeverBlocksInRead, Relevant
<1>5. CASE Dispatch
  <2>1. HasInput(cur)
    BY <1>5, <1>t, <1>f, ReactorAssumption DEF Dispatch, StillReady, TypeOK, Sources
  <2>2. NeverBlocksInRead'
    BY <1>5, <2>1 DEF Dispatch, writers, NeverBlocksInRead, HasInput
  <2>3. StillReady'
    BY <1>5, <1>t, <1>f DEF Dispatch, writers, StillReady, HasInput, Relevant
  <2> QED
    BY <2>2, <2>3
<1>6. CASE Read
  <2>1. /\ cur \in Sources /\ UNCHANGED <<writeOpen, watched, revents>>
        /\ \A s \in Sources \ {cur} : pipe'[s] = pipe[s]
        /\ \/ loop' = "reading" /\ cur' = cur /\ message' = Append(message, Head(pipe[cur]))
           \/ loop' = "scanning" /\ cur' = cur + 1
    BY <1>6, <1>f DEF Read, writers
  <2>2. StillReady'
    <3> SUFFICES ASSUME NEW s \in Sources, cur < s, watched[s], revents[s] \cap Relevant # {}
                 PROVE  HasInput(s)'
      BY <2>1, <1>f DEF StillReady, Relevant
    <3>1. HasInput(s)
      BY <1>6, <1>t DEF Read, StillReady
    <3> QED
      BY <2>1, <3>1, <1>f DEF HasInput
  <2>3. NeverBlocksInRead'
    <3> SUFFICES ASSUME loop' = "reading" PROVE pipe'[cur'] # <<>>
      BY DEF NeverBlocksInRead
    <3>1. PICK s \in Sources : s = cur
      BY <2>1
    <3>2. /\ cur' = s /\ BeingRead(s)' = Append(message, Head(pipe[cur]))
          /\ message \in Seq(Tokens \ {Newline})
      BY <2>1, <3>1, <1>t DEF BeingRead, TypeOK
    <3>3. BeingRead(s)' # <<>>
      BY <3>2
    <3>4. Stream(s)' /\ TypeOK'
      BY StreamNext, TypeNext DEF IInv
    <3>5. /\ BeingRead(s)' = <<Len(delivered'[s]) + 1>>
          /\ Len(pipe'[s]) = 2 * sent'[s] - Consumed(s)'
      BY <3>3, <3>4 DEF Stream
    <3>6. sent'[s] \in Nat /\ pipe'[s] \in Seq(Tokens) /\ Len(delivered'[s]) \in Nat
      BY <3>4, ReactorAssumption DEF TypeOK
    <3>7. Consumed(s)' = 2 * Len(delivered'[s]) + 1
      BY <3>5, <3>6 DEF Consumed
    <3>8. Len(pipe'[s]) # 0
      BY <3>5, <3>6, <3>7
    <3> QED
      BY <3>2, <3>8
  <2> QED
    BY <2>2, <2>3
<1>7. CASE ReadEof
  <2>1. /\ loop = "reading" /\ loop' = "scanning" /\ cur' = cur + 1 /\ cur \in Sources
        /\ UNCHANGED <<writeOpen, pipe, revents>>
        /\ \A s \in Sources : watched'[s] => watched[s]
    BY <1>7, <1>f DEF ReadEof, Retire, writers
  <2>2. StillReady'
    <3> SUFFICES ASSUME NEW s \in Sources, cur < s, watched[s], revents[s] \cap Relevant # {}
                 PROVE  HasInput(s)'
      BY <2>1, <1>f DEF StillReady, Relevant
    <3> QED
      BY <2>1, <1>t DEF StillReady, HasInput
  <2> QED
    BY <2>1, <2>2 DEF NeverBlocksInRead
<1>8. CASE UNCHANGED vars
  BY <1>8, <1>t DEF vars, StillReady, HasInput, NeverBlocksInRead, Relevant
<1> QED
  BY <1>1, <1>2, <1>3, <1>4, <1>5, <1>6, <1>7, <1>8 DEF Next, Main

(* Every step retires drained watchers only and leaves a watched one open. *)
LEMMA RetiredNext == IInv /\ [Next]_vars => RetiredWhenDrained'
<1> SUFFICES ASSUME IInv, [Next]_vars PROVE RetiredWhenDrained'
  OBVIOUS
<1>t. TypeOK /\ RetiredWhenDrained
  BY DEF IInv
<1>f. /\ writeOpen \in [Sources -> BOOLEAN] /\ watched \in [Sources -> BOOLEAN]
      /\ readOpen \in [Sources -> BOOLEAN]
      /\ delivered \in [Sources -> Seq(Seq(Tokens \ {Newline}))]
      /\ loop = "reading" => cur \in Sources /\ watched[cur]
  BY DEF IInv, TypeOK, Watched
<1>1. ASSUME NEW s \in Sources, Writer(s) PROVE RetiredWhenDrained'
  BY <1>1, <1>t, <1>f DEF Writer, Write, WriterReturns, RetiredWhenDrained
<1>2. CASE Poll \/ IdleTick \/ Skip \/ Dispatch \/ ScanEnds
  BY <1>2, <1>t DEF Poll, IdleTick, Skip, Dispatch, ScanEnds, writers, RetiredWhenDrained
<1>3. CASE Read
  <2>1. /\ cur \in Sources /\ watched[cur] /\ UNCHANGED <<writeOpen, watched, readOpen>>
        /\ \A s \in Sources \ {cur} : delivered'[s] = delivered[s]
    BY <1>3, <1>f DEF Read, writers
  <2> QED
    BY <2>1, <1>t DEF RetiredWhenDrained
<1>4. CASE ReadEof
  <2>1. cur \in Sources /\ Stream(cur)
    BY <1>4, <1>f DEF ReadEof, IInv
  <2>2. /\ message = <<>> /\ Len(delivered[cur]) = NumEvents
    BY <1>4, <1>t, <2>1, EofDrained
  <2>3. /\ delivered' = delivered /\ writeOpen' = writeOpen /\ ~writeOpen[cur]
        /\ ~watched'[cur]
        /\ \A s \in Sources \ {cur} : watched'[s] = watched[s] /\ readOpen'[s] = readOpen[s]
    BY <1>4, <2>1, <2>2, <1>f DEF ReadEof, AtEof, Retire, writers
  <2> QED
    BY <2>2, <2>3, <1>t DEF RetiredWhenDrained
<1>5. CASE MainReturns
  <2>1. Cardinality(Watched) = 0
    BY <1>5 DEF MainReturns, IInv, TypeOK
  <2>2. IsFiniteSet(Watched)
    <3>1. 1 \in Int /\ NumSources \in Int
      BY ReactorAssumption
    <3>2. IsFiniteSet(Sources)
      BY <3>1, FS_Interval DEF Sources
    <3> QED
      BY <3>2, FS_Subset DEF Watched
  <2>3. \A s \in Sources : ~watched[s]
    BY <2>1, <2>2, FS_EmptySet DEF Watched
  <2> QED
    BY <1>5, <2>3, <1>t DEF MainReturns, writers, RetiredWhenDrained
<1>6. CASE UNCHANGED vars
  BY <1>6, <1>t DEF vars, RetiredWhenDrained
<1> QED
  BY <1>1, <1>2, <1>3, <1>4, <1>5, <1>6 DEF Next, Main

(* The invariant is inductive, hence holds in every reachable state.       *)
LEMMA InductiveInv == Spec => []IInv
<1>1. IInv /\ [Next]_vars => IInv'
  BY TypeNext, StreamNext, ReadyNext, RetiredNext DEF IInv
<1> QED
  BY InitIInv, <1>1, PTL DEF Spec

-----------------------------------------------------------------------------
(***************************************************************************)
(* The theorems                                                            *)
(***************************************************************************)

(* A read of the handler returns at once: what poll reported of the        *)
(* watcher still holds when the handler starts, and a message whose text   *)
(* has been read has its newline in the pipe, as a line is written whole.  *)
THEOREM NeverBlocks == Spec => []NeverBlocksInRead
<1>1. IInv => NeverBlocksInRead
  BY DEF IInv
<1> QED
  BY <1>1, InductiveInv, PTL

(* A watcher is retired when its writer has closed the pipe and all its    *)
(* messages have been logged, and a watched descriptor is open.            *)
THEOREM RetiredDrained == Spec => []RetiredWhenDrained
<1>1. IInv => RetiredWhenDrained
  BY DEF IInv
<1> QED
  BY <1>1, InductiveInv, PTL

(* The lines of n messages are the first 2n tokens.                        *)
LEMMA LinesAreTokens ==
  ASSUME NEW n \in Nat
  PROVE  /\ Lines(n) \in Seq(Nat) /\ Len(Lines(n)) = 2 * n
         /\ \A i \in 1..(2 * n) : Lines(n)[i] = Token(i)
<1>1. \A i \in 1..(2 * n) : Token(i) \in Nat
  BY DEF Token, Newline
<1>2. Lines(n) = [i \in 1..(2 * n) |-> Token(i)]
  BY DEF Lines, Token
<1> QED
  BY <1>1, <1>2

(* No message is lost, repeated, split, merged or handed to the wrong      *)
(* handler: what the handler of a source has logged, then what it is       *)
(* reading, then what is in the pipe are the lines its writer has sent.    *)
THEOREM DeliversInOrder == Spec => []DeliveredInOrder
<1>1. IInv => DeliveredInOrder
  <2> SUFFICES ASSUME IInv, NEW s \in Sources
               PROVE  /\ delivered[s] = [i \in 1..Len(delivered[s]) |-> <<i>>]
                      /\ Lines(Len(delivered[s])) \o BeingRead(s) \o pipe[s] = Lines(sent[s])
    BY DEF DeliveredInOrder
  <2> DEFINE d == Len(delivered[s])
             b == BeingRead(s)
             c == Consumed(s)
             p == pipe[s]
  <2>t. /\ sent[s] \in Nat /\ d \in Nat /\ p \in Seq(Tokens) /\ Len(p) \in Nat
        /\ delivered[s] \in Seq(Seq(Tokens \ {Newline})) /\ Tokens \subseteq Nat
    BY SourceTypes DEF IInv
  <2>s. /\ \A i \in 1..d : delivered[s][i] = <<i>>
        /\ Len(p) = 2 * sent[s] - c
        /\ \A i \in 1..Len(p) : p[i] = Token(c + i)
    BY DEF IInv, Stream
  <2>l. (b = <<>> /\ c = 2 * d) \/ (b = <<d + 1>> /\ c = 2 * d + 1)
    BY StreamLength DEF IInv
  <2>1. delivered[s] = [i \in 1..d |-> <<i>>]
    <3>1. delivered[s] \in [1..d -> Seq(Tokens \ {Newline})]
      BY <2>t, LenProperties
    <3>2. delivered[s] = [i \in 1..d |-> delivered[s][i]]
      BY <3>1
    <3>3. [i \in 1..d |-> delivered[s][i]] = [i \in 1..d |-> <<i>>]
      BY <2>s
    <3> QED
      BY <3>2, <3>3
  <2> HIDE DEF d, b, c, p
  <2>2. b \in Seq(Nat) /\ p \in Seq(Nat) /\ c \in Nat /\ Len(b) = c - 2 * d
    <3>1. p \in Seq(Nat)
      BY <2>t, SeqMonotonic
    <3>2. c \in Nat /\ Len(b) = c - 2 * d
      <4>1. CASE b = <<>> /\ c = 2 * d
        BY <4>1, <2>t
      <4>2. CASE b = <<d + 1>> /\ c = 2 * d + 1
        BY <4>2, <2>t
      <4> QED
        BY <4>1, <4>2, <2>l
    <3>3. b \in Seq(Nat)
      <4>1. CASE b = <<>>
        BY <4>1
      <4>2. CASE b = <<d + 1>>
        <5>1. d + 1 \in Nat
          BY <2>t
        <5> QED
          BY <4>2, <5>1
      <4> QED
        BY <4>1, <4>2, <2>l
    <3> QED
      BY <3>1, <3>2, <3>3
  <2>3. \A i \in 1..Len(b) : b[i] = Token(2 * d + i)
    <3>1. Token(2 * d + 1) = d + 1
      BY <2>t, TokenOfLine
    <3> QED
      BY <2>l, <2>t, <3>1
  <2>4. /\ Lines(d) \in Seq(Nat) /\ Len(Lines(d)) = 2 * d
        /\ \A i \in 1..(2 * d) : Lines(d)[i] = Token(i)
    BY <2>t, LinesAreTokens
  <2>5. /\ Lines(sent[s]) \in Seq(Nat) /\ Len(Lines(sent[s])) = 2 * sent[s]
        /\ \A i \in 1..(2 * sent[s]) : Lines(sent[s])[i] = Token(i)
    BY <2>t, LinesAreTokens
  <2> DEFINE u == Lines(d) \o b
  <2>6. /\ u \in Seq(Nat) /\ Len(u) = c
        /\ \A i \in 1..c : u[i] = Token(i)
    <3>1. /\ u \in Seq(Nat) /\ Len(u) = 2 * d + Len(b)
          /\ \A i \in 1..(2 * d + Len(b)) : u[i] = IF i <= 2 * d THEN Lines(d)[i] ELSE b[i - 2 * d]
      <4> DEFINE l == Lines(d)
      <4>1. l \in Seq(Nat) /\ Len(l) = 2 * d
        BY <2>4
      <4> HIDE DEF l
      <4>2. /\ l \o b \in Seq(Nat) /\ Len(l \o b) = Len(l) + Len(b)
            /\ \A i \in 1..(Len(l) + Len(b)) :
                 (l \o b)[i] = IF i <= Len(l) THEN l[i] ELSE b[i - Len(l)]
        BY <4>1, <2>2, ConcatProperties, Zenon
      <4> QED
        BY <4>1, <4>2 DEF l
    <3>2. 2 * d + Len(b) = c
      BY <2>2, <2>t
    <3>3. ASSUME NEW i \in 1..c PROVE u[i] = Token(i)
      <4>1. CASE i <= 2 * d
        BY <4>1, <3>1, <3>2, <2>4
      <4>2. CASE ~(i <= 2 * d)
        <5>1. i - 2 * d \in 1..Len(b) /\ 2 * d + (i - 2 * d) = i
          BY <4>2, <3>2, <2>2, <2>t
        <5>2. b[i - 2 * d] = Token(2 * d + (i - 2 * d))
          BY <5>1, <2>3, Zenon
        <5> QED
          BY <4>2, <5>1, <5>2, <3>1, <3>2
      <4> QED
        BY <4>1, <4>2
    <3> QED
      BY <3>1, <3>2, <3>3
  <2> HIDE DEF u
  <2>7. /\ u \o p \in Seq(Nat) /\ Len(u \o p) = 2 * sent[s]
        /\ \A i \in 1..(2 * sent[s]) : (u \o p)[i] = Token(i)
    <3>1. /\ u \o p \in Seq(Nat) /\ Len(u \o p) = c + Len(p)
          /\ \A i \in 1..(c + Len(p)) : (u \o p)[i] = IF i <= c THEN u[i] ELSE p[i - c]
      BY <2>2, <2>6, ConcatProperties, Zenon
    <3>2. c + Len(p) = 2 * sent[s]
      BY <2>2, <2>s, <2>t
    <3>3. ASSUME NEW i \in 1..(2 * sent[s]) PROVE (u \o p)[i] = Token(i)
      <4>1. CASE i <= c
        <5>1. i \in 1..c
          BY <4>1, <2>2, <2>t
        <5> QED
          BY <4>1, <5>1, <3>1, <3>2, <2>6
      <4>2. CASE ~(i <= c)
        <5>1. i - c \in 1..Len(p) /\ c + (i - c) = i
          BY <4>2, <3>2, <2>2, <2>t
        <5>2. p[i - c] = Token(c + (i - c))
          BY <5>1, <2>s, Zenon
        <5> QED
          BY <4>2, <5>1, <5>2, <3>1, <3>2
      <4> QED
        BY <4>1, <4>2
    <3> QED
      BY <3>1, <3>2, <3>3
  <2>8. u \o p = Lines(sent[s])
    BY <2>5, <2>7, SeqEqual
  <2> QED
    BY <2>1, <2>8 DEF u, d, b, p
<1> QED
  BY <1>1, InductiveInv, PTL
==============================================================================
