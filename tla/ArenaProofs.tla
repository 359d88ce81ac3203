---------------------------- MODULE ArenaProofs ----------------------------
(***************************************************************************)
(* Theorems about Arena, for any number of arenas and addresses.           *)
(***************************************************************************)
EXTENDS Arena, SequenceTheorems, TLAPS

(* A string has a length, its bytes, and is neither of the two markers.    *)
LEMMA StringFacts ==
  ASSUME NEW n \in 0..MaxSize, NEW s \in [1..n -> Byte]
  PROVE  s \in Strings /\ s \in Seq(Byte) /\ Len(s) = n /\ s # Unallocated /\ s # Dead
<1>1. n \in Nat
  BY ArenaAssumption
<1>2. s \in Seq(Byte)
  BY <1>1
<1> QED
  BY <1>1, <1>2, ArenaAssumption DEF Strings

LEMMA StringLength ==
  ASSUME NEW s \in Strings
  PROVE  Len(s) \in 0..MaxSize /\ s \in [1..Len(s) -> Byte] /\ s # Unallocated /\ s # Dead
<1>1. PICK n \in 0..MaxSize : s \in [1..n -> Byte]
  BY DEF Strings
<1> QED
  BY <1>1, StringFacts

(* The empty string is the string of an arena without a block.             *)
LEMMA EmptyString == <<>> \in [1..0 -> Byte]
  OBVIOUS

(* The inductive invariant: the types need that blocks are not shared, and *)
(* that blocks are not shared needs that dead arenas hold none.            *)
IInv == TypeOK /\ OneOwner

(* A step of ArenaValues, one of the excepted writes, or none.             *)
ValueStep == V!Next \/ Wraps \/ UNCHANGED Values

(* A sum that fits size_t is in bounds modulo its width when it is.        *)
LEMMA NoWrap ==
  ASSUME NEW offset \in Offsets, NEW n \in 0..MaxSize, offset + n <= SizeMax
  PROVE  (offset + n) % (SizeMax + 1) = offset + n
  BY ArenaAssumption

(* What a live arena holds is a string of its size in a block of the heap, *)
(* and an arena without a block holds the empty string.                    *)
LEMMA ContentsFacts ==
  ASSUME TypeOK, OneOwner, NEW a \in Names
  PROVE  /\ Contents(a) \in Strings /\ Len(Contents(a)) = size[a]
         /\ Contents(a) # Unallocated /\ Contents(a) # Dead
         /\ data[a] # Null => a \in alive /\ data[a] \in Addr /\ heap[data[a]] # Unallocated
<1>1. size[a] \in 0..MaxSize /\ Contents(a) \in [1..size[a] -> Byte]
  BY DEF TypeOK
<1>2. data[a] # Null => a \in alive /\ data[a] \in Addr /\ heap[data[a]] # Unallocated
  BY DEF TypeOK, OneOwner
<1> QED
  BY <1>1, <1>2, StringFacts

(* Writing over part of a string leaves its length as it is.               *)
LEMMA OverwriteFacts ==
  ASSUME NEW s \in Strings, NEW t \in Strings, NEW offset \in Int
  PROVE  Overwrite(s, offset, t) \in [1..Len(s) -> Byte]
<1>1. Len(s) \in Nat /\ Len(t) \in Nat
  BY StringLength, ArenaAssumption
<1>2. s \in [1..Len(s) -> Byte] /\ t \in [1..Len(t) -> Byte]
  BY StringLength
<1> QED
  BY <1>1, <1>2 DEF Overwrite

(* There are no arenas and no blocks in the beginning.                     *)
LEMMA InitIInv == Init => IInv
<1> SUFFICES ASSUME Init PROVE IInv
  OBVIOUS
<1>1. TypeOK
  <2>1. \A a \in Names : Contents(a) = <<>>
    BY DEF Init, Contents
  <2>2. \A a \in Names : Contents(a) \in [1..size[a] -> Byte] /\ (data[a] = Null <=> size[a] = 0)
    BY <2>1, EmptyString DEF Init
  <2> QED
    BY <2>2, ArenaAssumption DEF Init, TypeOK
<1>2. OneOwner
  BY DEF Init, OneOwner
<1> QED
  BY <1>1, <1>2 DEF IInv

(* Every action keeps the invariant: the contents of the arenas it does    *)
(* not name stay, as their blocks are others than the ones it touches.     *)
LEMMA StepIInv == IInv /\ [Next]_vars => IInv' /\ ValueStep
<1> SUFFICES ASSUME TypeOK, OneOwner, [Next]_vars PROVE TypeOK' /\ OneOwner' /\ ValueStep
  BY DEF IInv
<1> USE DEF Become
<1>a. Null \notin Addr /\ MaxSize \in Nat
  BY ArenaAssumption
<1>1. ASSUME NEW a \in Names, Construct(a) PROVE TypeOK' /\ OneOwner' /\ ValueStep
  <2>1. PICK s \in Strings, p \in Addr \cup {Null} :
          /\ Allocates(heap, p, s)
          /\ Become(a, Len(s), p)
          /\ heap' = With(heap, p, s)
    BY <1>1 DEF Construct
  <2>2. a \notin alive /\ alive' = alive \cup {a}
    BY <1>1 DEF Construct
  <2>3. Len(s) \in 0..MaxSize /\ s \in [1..Len(s) -> Byte] /\ s # Unallocated
    BY StringLength
  <2>4. OneOwner'
    BY <1>a, <2>1, <2>2, <2>3 DEF OneOwner, TypeOK, Allocates, With
  <2>5. \A c \in Names : c # a => Contents(c)' = Contents(c)
    BY <1>a, <2>1, <2>2, <2>3, ContentsFacts DEF Contents, TypeOK, Allocates, With
  <2>6. Contents(a)' \in [1..Len(s) -> Byte]
    BY <1>a, <2>1, <2>3, EmptyString DEF Contents, TypeOK, Allocates, With
  <2>7. TypeOK'
    BY <1>a, <2>1, <2>2, <2>3, <2>5, <2>6 DEF TypeOK, Allocates, With
  <2>10. ValueStep
    <3>1. Contents(a)' \in Strings
      BY <2>3, <2>6, StringFacts
    <3>2. Values[a] = Dead /\ Values' = [Values EXCEPT ![a] = Contents(a)']
      BY <2>2, <2>5 DEF Values, TypeOK
    <3>3. V!Create(a)
      BY <3>1, <3>2 DEF V!Create, V!Strings, Strings, Values
    <3> QED
      BY <3>3 DEF ValueStep, V!Next
  <2> QED
    BY <2>4, <2>7, <2>10
<1>2. ASSUME NEW a \in Names, Destroy(a) PROVE TypeOK' /\ OneOwner' /\ ValueStep
  <2>1. OneOwner'
    BY <1>a, <1>2 DEF Destroy, Free, OneOwner, TypeOK
  <2>2. \A c \in Names : c # a => Contents(c)' = Contents(c)
    BY <1>a, <1>2, ContentsFacts DEF Destroy, Free, OneOwner, TypeOK, Contents
  <2>3. Contents(a)' \in [1..0 -> Byte]
    BY <1>2, EmptyString DEF Destroy, TypeOK, Contents
  <2>4. /\ size' = [size EXCEPT ![a] = 0] /\ data' = [data EXCEPT ![a] = Null]
        /\ alive' = alive \ {a}
        /\ heap' \in [Addr -> Strings \cup {Unallocated}]
    BY <1>2 DEF Destroy, Free, TypeOK
  <2>5. \A c \in Names :
          (Contents(c)' \in [1..size'[c] -> Byte]) /\ (data'[c] = Null <=> size'[c] = 0)
    BY <2>2, <2>3, <2>4 DEF TypeOK
  <2>6. TypeOK'
    BY <1>a, <2>4, <2>5 DEF TypeOK
  <2>10. ValueStep
    <3>1. Values[a] # Dead
      BY <1>2, ContentsFacts DEF Destroy, Values
    <3>2. Values' = [Values EXCEPT ![a] = Dead]
      BY <2>2, <2>4 DEF Values
    <3>3. V!Destroy(a)
      BY <3>1, <3>2 DEF V!Destroy, Values
    <3> QED
      BY <3>3 DEF ValueStep, V!Next
  <2> QED
    BY <2>1, <2>6, <2>10
<1>3. ASSUME NEW a \in Names, NEW b \in Names, CopyConstruct(a, b) PROVE TypeOK' /\ OneOwner' /\ ValueStep
  <2>1. PICK p \in Addr \cup {Null} :
          /\ Allocates(heap, p, Contents(b))
          /\ Become(a, size[b], p)
          /\ heap' = With(heap, p, Contents(b))
    BY <1>3 DEF CopyConstruct
  <2>2. a \notin alive /\ alive' = alive \cup {a}
    BY <1>3 DEF CopyConstruct
  <2>3. /\ Contents(b) \in Strings /\ Contents(b) # Unallocated
        /\ Len(Contents(b)) = size[b] /\ size[b] \in 0..MaxSize
        /\ Contents(b) \in [1..size[b] -> Byte]
    BY ContentsFacts DEF TypeOK
  <2>4. OneOwner'
    BY <1>a, <2>1, <2>2, <2>3 DEF OneOwner, TypeOK, Allocates, With
  <2>5. \A c \in Names : c # a => Contents(c)' = Contents(c)
    BY <1>a, <2>1, <2>2, <2>3, ContentsFacts DEF Contents, TypeOK, Allocates, With
  <2>6. Contents(a)' \in [1..size[b] -> Byte]
    BY <1>a, <2>1, <2>3, EmptyString DEF Contents, TypeOK, Allocates, With
  <2>7. TypeOK'
    BY <1>a, <2>1, <2>2, <2>3, <2>5, <2>6 DEF TypeOK, Allocates, With
  <2>10. ValueStep
    <3>1. Contents(a)' = Contents(b)
      BY <1>a, <2>1, <2>3, ContentsFacts DEF Contents, TypeOK, Allocates, With
    <3>2. a # b /\ Values[b] # Dead /\ Values' = [Values EXCEPT ![a] = Values[b]]
      <4>1. a # b /\ b \in alive /\ alive' = alive \cup {a}
        BY <1>3, <2>2 DEF CopyConstruct
      <4>2. Values[b] = Contents(b) /\ Values[b] # Dead
        BY <4>1, ContentsFacts DEF Values
      <4> QED
        BY <2>5, <3>1, <4>1, <4>2 DEF Values
    <3>3. V!Copy(a, b)
      BY <3>2 DEF V!Copy, Values
    <3> QED
      BY <3>2, <3>3 DEF ValueStep, V!Next
  <2> QED
    BY <2>4, <2>7, <2>10
<1>4. ASSUME NEW a \in Names, NEW b \in Names, CopyAssign(a, b) PROVE TypeOK' /\ OneOwner' /\ ValueStep
  <2>1. PICK p \in Addr \cup {Null} :
          /\ Allocates(heap, p, Contents(b))
          /\ Become(a, size[b], p)
          /\ heap' = Free(With(heap, p, Contents(b)), data[a])
    BY <1>4 DEF CopyAssign
  <2>2. a \in alive /\ a # b /\ alive' = alive
    BY <1>4 DEF CopyAssign
  <2>3. /\ Contents(b) \in Strings /\ Contents(b) # Unallocated
        /\ Len(Contents(b)) = size[b] /\ size[b] \in 0..MaxSize
        /\ Contents(b) \in [1..size[b] -> Byte]
    BY ContentsFacts DEF TypeOK
  <2>4. p # Null => p # data[a]
    BY <2>1, <2>3, ContentsFacts DEF Allocates
  <2>5. OneOwner'
    BY <1>a, <2>1, <2>2, <2>3, <2>4 DEF OneOwner, TypeOK, Allocates, With, Free
  <2>6. \A c \in Names : c # a => Contents(c)' = Contents(c)
    BY <1>a, <2>1, <2>2, <2>3, ContentsFacts DEF Contents, TypeOK, Allocates, With, Free, OneOwner
  <2>7. Contents(a)' \in [1..size[b] -> Byte]
    BY <1>a, <2>1, <2>3, <2>4, EmptyString DEF Contents, TypeOK, Allocates, With, Free
  <2>8. /\ heap' \in [Addr -> Strings \cup {Unallocated}]
        /\ p = Null <=> size[b] = 0
    BY <2>1, <2>3, <1>a DEF With, Free, TypeOK, Allocates
  <2>9. TypeOK'
    BY <1>a, <2>1, <2>2, <2>3, <2>6, <2>7, <2>8 DEF TypeOK
  <2>10. ValueStep
    <3>1. Contents(a)' = Contents(b)
      BY <1>a, <2>1, <2>3, <2>4, ContentsFacts DEF Contents, TypeOK, Allocates, With, Free
    <3>2. a # b /\ Values[b] # Dead /\ Values' = [Values EXCEPT ![a] = Values[b]]
      <4>1. a # b /\ b \in alive /\ alive' = alive \cup {a}
        BY <1>4, <2>2 DEF CopyAssign
      <4>2. Values[b] = Contents(b) /\ Values[b] # Dead
        BY <4>1, ContentsFacts DEF Values
      <4> QED
        BY <2>6, <3>1, <4>1, <4>2 DEF Values
    <3>3. V!Copy(a, b)
      BY <3>2 DEF V!Copy, Values
    <3> QED
      BY <3>2, <3>3 DEF ValueStep, V!Next
  <2> QED
    BY <2>5, <2>9, <2>10
<1>5. ASSUME NEW a \in Names, NEW b \in Names, MoveConstruct(a, b) PROVE TypeOK' /\ OneOwner' /\ ValueStep
  <2>1. /\ size' = [size EXCEPT ![a] = size[b], ![b] = 0]
        /\ data' = [data EXCEPT ![a] = data[b], ![b] = Null]
        /\ alive' = alive \cup {a} /\ heap' = heap
        /\ a \notin alive /\ b \in alive /\ a # b
    BY <1>5 DEF MoveConstruct, TakeOver
  <2>2. OneOwner'
    <3>1. \A c \in Names : data'[c] = IF c = a THEN data[b] ELSE IF c = b THEN Null ELSE data[c]
      BY <2>1 DEF TypeOK
    <3>2. \A c, d \in alive' : c # d /\ data'[c] = data'[d] => data'[c] = Null
      BY <2>1, <3>1 DEF OneOwner, TypeOK
    <3>3. ASSUME NEW p \in Addr, NEW c \in alive', data'[c] = p
          PROVE  heap'[p] # Unallocated
      BY <1>a, <2>1, <3>1, <3>3 DEF OneOwner, TypeOK
    <3>4. ASSUME NEW p \in Addr, heap'[p] # Unallocated
          PROVE  \E c \in alive' : data'[c] = p
      <4>1. PICK c \in alive : data[c] = p
        BY <2>1, <3>4 DEF OneOwner
      <4>2. data'[IF c = b THEN a ELSE c] = p
        BY <1>a, <2>1, <3>1, <4>1 DEF TypeOK
      <4> QED
        BY <2>1, <4>1, <4>2
    <3> QED
      BY <3>2, <3>3, <3>4 DEF OneOwner
  <2>3. /\ Contents(a)' = Contents(b) /\ Contents(b)' = <<>>
        /\ \A c \in Names : c \notin {a, b} => Contents(c)' = Contents(c)
    BY <2>1 DEF Contents, TypeOK
  <2>4. TypeOK'
    BY <1>a, <2>1, <2>3, EmptyString DEF TypeOK
  <2>10. ValueStep
    <3>1. Values[b] # Dead /\ Values' = [Values EXCEPT ![a] = Values[b], ![b] = <<>>]
      BY <2>1, <2>3, ContentsFacts DEF Values, TypeOK
    <3>2. V!Move(a, b)
      BY <3>1 DEF V!Move, Values
    <3> QED
      BY <2>1, <3>2 DEF ValueStep, V!Next
  <2> QED
    BY <2>2, <2>4, <2>10
<1>6. ASSUME NEW a \in Names, NEW b \in Names, MoveAssign(a, b) PROVE TypeOK' /\ OneOwner' /\ ValueStep
  <2>1. /\ size' = [size EXCEPT ![a] = size[b], ![b] = 0]
        /\ data' = [data EXCEPT ![a] = data[b], ![b] = Null]
        /\ alive' = alive /\ heap' = Free(heap, data[a])
        /\ a \in alive /\ b \in alive /\ a # b
    BY <1>6 DEF MoveAssign, TakeOver
  <2>2. OneOwner'
    <3>1. \A c \in Names : data'[c] = IF c = a THEN data[b] ELSE IF c = b THEN Null ELSE data[c]
      BY <2>1 DEF TypeOK
    <3>2. \A c, d \in alive' : c # d /\ data'[c] = data'[d] => data'[c] = Null
      BY <2>1, <3>1 DEF OneOwner, TypeOK
    <3>3. ASSUME NEW p \in Addr, NEW c \in alive', data'[c] = p
          PROVE  heap'[p] # Unallocated
      BY <1>a, <2>1, <3>1, <3>3 DEF OneOwner, TypeOK, Free
    <3>4. ASSUME NEW p \in Addr, heap'[p] # Unallocated
          PROVE  \E c \in alive' : data'[c] = p
      <4>1. PICK c \in alive : data[c] = p /\ c # a
        BY <2>1, <3>4 DEF OneOwner, Free
      <4>2. data'[IF c = b THEN a ELSE c] = p
        BY <1>a, <2>1, <3>1, <4>1 DEF TypeOK
      <4> QED
        BY <2>1, <4>1, <4>2
    <3> QED
      BY <3>2, <3>3, <3>4 DEF OneOwner
  <2>3. /\ Contents(a)' = Contents(b) /\ Contents(b)' = <<>>
        /\ \A c \in Names : c \notin {a, b} => Contents(c)' = Contents(c)
    BY <1>a, <2>1, ContentsFacts DEF Contents, TypeOK, OneOwner, Free
  <2>4. heap' \in [Addr -> Strings \cup {Unallocated}]
    BY <2>1 DEF TypeOK, Free
  <2>5. \A c \in Names :
          (Contents(c)' \in [1..size'[c] -> Byte]) /\ (data'[c] = Null <=> size'[c] = 0)
    <3> TAKE c \in Names
    <3>1. CASE c = a
      BY <2>1, <2>3, <3>1 DEF TypeOK
    <3>2. CASE c = b
      BY <2>1, <2>3, <3>2, EmptyString DEF TypeOK
    <3>3. CASE c \notin {a, b}
      BY <2>1, <2>3, <3>3 DEF TypeOK
    <3> QED
      BY <3>1, <3>2, <3>3
  <2>6. /\ alive' \subseteq Names /\ size' \in [Names -> 0..MaxSize]
        /\ data' \in [Names -> Addr \cup {Null}]
        /\ \A c \in Names \ alive' : data'[c] = Null
    <3>1. alive' \subseteq Names /\ \A c \in Names \ alive' : data'[c] = Null
      BY <2>1 DEF TypeOK
    <3>2. size \in [Names -> 0..MaxSize] /\ 0 \in 0..MaxSize
      BY <1>a DEF TypeOK
    <3>3. size' \in [Names -> 0..MaxSize]
      BY <2>1, <3>2
    <3>4. data' \in [Names -> Addr \cup {Null}]
      BY <2>1 DEF TypeOK
    <3> QED
      BY <3>1, <3>3, <3>4
  <2>7. TypeOK'
    BY <2>4, <2>5, <2>6 DEF TypeOK
  <2>10. ValueStep
    <3>1. Values[b] # Dead /\ Values' = [Values EXCEPT ![a] = Values[b], ![b] = <<>>]
      BY <2>1, <2>3, ContentsFacts DEF Values, TypeOK
    <3>2. V!Move(a, b)
      BY <3>1 DEF V!Move, Values
    <3> QED
      BY <2>1, <3>2 DEF ValueStep, V!Next
  <2> QED
    BY <2>2, <2>7, <2>10
<1>7. ASSUME NEW a \in Names, NEW b \in Names, Swap(a, b) PROVE TypeOK' /\ OneOwner' /\ ValueStep
  <2>1. OneOwner'
    <3>1. /\ data'[a] = data[b] /\ data'[b] = data[a]
          /\ \A c \in Names : c \notin {a, b} => data'[c] = data[c]
          /\ alive' = alive /\ heap' = heap /\ a \in alive /\ b \in alive
      <4>1. data \in [Names -> Addr \cup {Null}]
        BY DEF TypeOK
      <4>2. /\ a # b /\ data' = [data EXCEPT ![a] = data[b], ![b] = data[a]]
            /\ alive' = alive /\ heap' = heap /\ a \in alive /\ b \in alive
        BY <1>7 DEF Swap
      <4> QED
        BY <4>1, <4>2
    <3>2. \A c, d \in alive' : c # d /\ data'[c] = data'[d] => data'[c] = Null
      <4> DEFINE other(c) == IF c = a THEN b ELSE IF c = b THEN a ELSE c
      <4>1. \A c \in alive' : other(c) \in alive /\ data'[c] = data[other(c)]
        BY <3>1 DEF TypeOK
      <4>2. \A c, d \in alive' : c # d => other(c) # other(d)
        OBVIOUS
      <4> HIDE DEF other
      <4> QED
        BY <4>1, <4>2 DEF OneOwner
    <3>3. ASSUME NEW p \in Addr, NEW c \in alive', data'[c] = p
          PROVE  heap'[p] # Unallocated
      BY <3>1, <3>3 DEF OneOwner, TypeOK
    <3>4. ASSUME NEW p \in Addr, heap'[p] # Unallocated
          PROVE  \E c \in alive' : data'[c] = p
      <4>1. PICK c \in alive : data[c] = p
        BY <3>1, <3>4 DEF OneOwner
      <4>2. CASE c = a
        BY <3>1, <4>1, <4>2 DEF TypeOK
      <4>3. CASE c = b
        BY <3>1, <4>1, <4>3 DEF TypeOK
      <4>4. CASE c \notin {a, b}
        BY <3>1, <4>1, <4>4 DEF TypeOK
      <4> QED
        BY <4>2, <4>3, <4>4
    <3> QED
      BY <3>2, <3>3, <3>4 DEF OneOwner
  <2>2. /\ Contents(a)' = Contents(b) /\ Contents(b)' = Contents(a)
        /\ \A c \in Names : c \notin {a, b} => Contents(c)' = Contents(c)
    BY <1>7 DEF Swap, Contents, TypeOK
  <2>3. TypeOK'
    BY <1>7, <2>2 DEF Swap, TypeOK
  <2>10. ValueStep
    <3>1. a # b /\ a \in alive /\ b \in alive /\ alive' = alive
      BY <1>7 DEF Swap
    <3>2. Values[a] # Dead /\ Values[b] # Dead
      BY <3>1, ContentsFacts DEF Values
    <3>3. Values' = [Values EXCEPT ![a] = Values[b], ![b] = Values[a]]
      BY <2>2, <3>1 DEF Values
    <3>4. V!Swap(a, b)
      BY <3>2, <3>3 DEF V!Swap, Values
    <3> QED
      BY <3>1, <3>4 DEF ValueStep, V!Next
  <2> QED
    BY <2>1, <2>3, <2>10
<1>8. ASSUME NEW a \in Names, NEW offset \in Offsets, NEW s \in Strings, Write(a, offset, s)
      PROVE  TypeOK' /\ OneOwner' /\ ValueStep
  <2> DEFINE t == Overwrite(Contents(a), offset, s)
  <2>1. t \in [1..size[a] -> Byte]
    BY ContentsFacts, OverwriteFacts, ArenaAssumption
  <2>2. t \in Strings /\ t # Unallocated
    BY <2>1, StringFacts DEF TypeOK
  <2> HIDE DEF t
  <2>3. a \in alive /\ heap' = With(heap, data[a], t) /\ UNCHANGED <<alive, size, data>>
    BY <1>8 DEF Write, t
  <2>4. OneOwner'
    BY <2>2, <2>3 DEF OneOwner, TypeOK, With
  <2>5. /\ Contents(a)' = IF data[a] = Null THEN <<>> ELSE t
        /\ \A c \in Names : c # a => Contents(c)' = Contents(c)
    BY <2>3, ContentsFacts DEF With, Contents, TypeOK, OneOwner
  <2>6. heap' \in [Addr -> Strings \cup {Unallocated}]
    BY <2>2, <2>3 DEF With, TypeOK
  <2>7. TypeOK'
    BY <2>1, <2>3, <2>5, <2>6, EmptyString DEF TypeOK
  <2>10. ValueStep
    <3>1. Contents(a)' = t
      BY <2>1, <2>5, EmptyString DEF TypeOK
    <3>2. Values[a] = Contents(a) /\ Values[a] # Dead
      BY <2>3, ContentsFacts DEF Values
    <3>3. Values' = [Values EXCEPT ![a] = t]
      BY <2>3, <2>5, <3>1 DEF Values
    <3>4. offset + Len(s) <= Len(Contents(a)) /\ offset \in 0..MaxSize
      <4>1. Len(s) \in 0..MaxSize /\ Len(Contents(a)) = size[a] /\ size[a] \in 0..MaxSize
        BY StringLength, ContentsFacts DEF TypeOK
      <4>2. (offset + Len(s)) % (SizeMax + 1) <= size[a]
        BY <1>8 DEF Write, InBounds
      <4>3. offset + Len(s) <= size[a] /\ offset \in Nat
        BY <4>1, <4>2, <1>8, NoWrap, ArenaAssumption DEF Write
      <4> HIDE DEF t
      <4> QED
        BY <4>1, <4>3, <1>a
    <3>5. t = V!Overwrite(Values[a], offset, s)
      BY <3>2 DEF t, Overwrite, V!Overwrite
    <3>6. V!Write(a, offset, s)
      BY <3>2, <3>3, <3>4, <3>5 DEF V!Write, Values
    <3> QED
      BY <3>4, <3>6 DEF ValueStep, V!Next, V!Strings, Strings
  <2> QED
    BY <2>4, <2>7, <2>10
<1>10. ASSUME NEW a \in Names, NEW offset \in Offsets, NEW s \in Strings, WriteWraps(a, offset, s)
       PROVE  TypeOK' /\ OneOwner' /\ ValueStep
  <2> DEFINE u == Overwrite(Contents(a), offset - (SizeMax + 1), s)
  <2>1. u \in [1..size[a] -> Byte]
    <3>1. offset - (SizeMax + 1) \in Int
      BY ArenaAssumption
    <3> QED
      BY <3>1, ContentsFacts, OverwriteFacts
  <2>2. u \in Strings /\ u # Unallocated
    BY <2>1, StringFacts DEF TypeOK
  <2>3. PICK p \in Addr, t \in Strings \cup {Unallocated} :
          /\ SameSize(t, heap[p])
          /\ heap' = With(With(heap, p, t), data[a], u)
    BY <1>10 DEF WriteWraps
  <2>4. a \in alive /\ UNCHANGED <<alive, size, data>>
    BY <1>10 DEF WriteWraps
  <2> HIDE DEF u
  (* A block keeps its size, and no address gains or loses one. *)
  <2>5. ASSUME NEW q \in Addr
        PROVE  /\ heap'[q] = IF q = data[a] THEN u ELSE IF q = p THEN t ELSE heap[q]
               /\ heap'[q] = Unallocated <=> heap[q] = Unallocated
               /\ heap[q] # Unallocated => Len(heap'[q]) = Len(heap[q]) /\ heap'[q] \in Strings
    <3>1. heap'[q] = IF q = data[a] THEN u ELSE IF q = p THEN t ELSE heap[q]
      BY <2>3 DEF With
    <3>2. CASE q = data[a]
      <4>1. heap[q] = Contents(a) /\ heap[q] # Unallocated
        BY <3>2, <1>a, ContentsFacts DEF Contents
      <4>2. Len(u) = size[a] /\ Len(heap[q]) = size[a]
        BY <2>1, <4>1, StringFacts, ContentsFacts DEF TypeOK
      <4> QED
        BY <3>1, <3>2, <4>1, <4>2, <2>2
    <3>3. CASE q # data[a] /\ q = p
      BY <3>1, <3>3, <2>3 DEF SameSize, TypeOK
    <3>4. CASE q # data[a] /\ q # p
      BY <3>1, <3>4 DEF TypeOK
    <3> QED
      BY <3>2, <3>3, <3>4
  <2>6. heap' \in [Addr -> Strings \cup {Unallocated}]
    <3>1. \A q \in Addr : heap'[q] \in Strings \cup {Unallocated}
      BY <2>5 DEF TypeOK
    <3> QED
      BY <3>1, <2>3 DEF With
  <2>7. OneOwner'
    BY <2>4, <2>5 DEF OneOwner, TypeOK
  <2>8. ASSUME NEW c \in Names PROVE Contents(c)' \in [1..size[c] -> Byte]
    <3>1. CASE data[c] = Null
      BY <3>1, <2>4 DEF TypeOK, Contents
    <3>2. CASE data[c] # Null
      <4>1. /\ data[c] \in Addr /\ heap[data[c]] # Unallocated
            /\ Contents(c) = heap[data[c]] /\ Len(Contents(c)) = size[c]
        BY <3>2, ContentsFacts DEF Contents
      <4>2. Contents(c)' = heap'[data[c]]
        BY <3>2, <2>4 DEF Contents
      <4> QED
        BY <4>1, <4>2, <2>5, StringLength
    <3> QED
      BY <3>1, <3>2
  <2>9. TypeOK'
    BY <2>4, <2>6, <2>8 DEF TypeOK
  <2> QED
    BY <1>10, <2>7, <2>9 DEF ValueStep, Wraps
<1>9. CASE UNCHANGED vars
  BY <1>9 DEF vars, TypeOK, OneOwner, Contents, ValueStep, Values
<1> QED
  BY <1>1, <1>2, <1>3, <1>4, <1>5, <1>6, <1>7, <1>8, <1>9, <1>10 DEF Next, Wraps

-----------------------------------------------------------------------------
(* Whatever was copied, moved or swapped before, the members of every      *)
(* arena keep their types and size_ is the size of its block.              *)
THEOREM TypeCorrect == Spec => []TypeOK
<1>1. IInv => TypeOK
  BY DEF IInv
<1> QED
  BY <1>1, InitIInv, StepIInv, PTL DEF Spec

(* Every block has exactly one live owner: none is freed twice or leaked.  *)
THEOREM EveryBlockOwnedOnce == Spec => []OneOwner
<1>1. IInv => OneOwner
  BY DEF IInv
<1> QED
  BY <1>1, InitIInv, StepIInv, PTL DEF Spec

(* With the blocks hidden every step of Arena is one of ArenaValues: no    *)
(* operation on an arena shows in another, and each has the effect on its  *)
(* arenas that it has on values.  Offsets are any values of size_t; the    *)
(* write whose offset + s.size() wraps is excepted by name.                *)
THEOREM ValuesRefinement == Spec => ImplementsValues
<1>1. Init => V!Init
  BY DEF Init, V!Init, Values
<1>2. IInv /\ [Next]_vars => [V!Next \/ Wraps]_Values
  BY StepIInv DEF ValueStep
<1> QED
  BY <1>1, <1>2, InitIInv, StepIInv, PTL DEF Spec, ImplementsValues
=============================================================================
