------------------------------- MODULE Arena -------------------------------
(***************************************************************************)
(* Arena of examples/rule_of_0_5/main.cpp: arenas that own a malloc'ed     *)
(* block each, under any sequence of constructions, copies, moves, swaps,  *)
(* writes and destructions.                                                *)
(*                                                                         *)
(* A malloc that fails makes a constructor throw before anything has       *)
(* changed, and so does a write that is out of bounds; neither is a step.  *)
(***************************************************************************)
EXTENDS Integers, Sequences

CONSTANTS
  Names,        \* the variables of type Arena
  Addr,         \* the addresses malloc may return
  Null,         \* nullptr
  Byte,         \* the values of a byte
  MaxSize,      \* bound: the size of the largest arena
  Offsets,      \* the offsets that callers pass to write and read
  SizeMax,      \* the largest size_t
  Unallocated,  \* what an address that holds no block holds
  Dead          \* no arena

(* Sizes and offsets are of type size_t; the markers are no strings.       *)
ASSUME ArenaAssumption ==
  /\ SizeMax \in Nat /\ MaxSize \in 0..SizeMax /\ Offsets \subseteq 0..SizeMax
  /\ Null \notin Addr
  /\ \A n \in 0..MaxSize : Unallocated \notin [1..n -> Byte] /\ Dead \notin [1..n -> Byte]

VARIABLES
  alive,  \* the arenas within their lifetime
  size,   \* size_
  data,   \* data_
  heap    \* the contents of each block, or Unallocated

vars == <<alive, size, data, heap>>

Strings == UNION {[1..n -> Byte] : n \in 0..MaxSize}

Init ==
  /\ alive = {}
  /\ size = [a \in Names |-> 0]
  /\ data = [a \in Names |-> Null]
  /\ heap = [p \in Addr |-> Unallocated]

(* malloc(n) in heap h returns p, which holds s; no block for n = 0.       *)
Allocates(h, p, s) == IF Len(s) = 0 THEN p = Null ELSE p \in Addr /\ h[p] = Unallocated

With(h, p, s) == [q \in Addr |-> IF q = p THEN s ELSE h[q]]

(* A variant of Free with a plausible slip, which takes no part in the     *)
(* specification; it serves to show that a property notices the slip.      *)
KeepingOldBlock(h, p) == h

(* std::free(p), which ignores Null.                                       *)
Free(h, p) == [q \in Addr |-> IF q = p THEN Unallocated ELSE h[q]]

Overwrite(s, offset, t) ==
  [i \in 1..Len(s) |-> IF i - offset \in 1..Len(t) THEN t[i - offset] ELSE s[i]]

(* offset + n > size_ is false, in the arithmetic of size_t.               *)
InBounds(a, offset, n) == (offset + n) % (SizeMax + 1) <= size[a]

(* read(0, size_)                                                          *)
Contents(a) == IF data[a] = Null THEN <<>> ELSE heap[data[a]]

Become(a, n, p) == size' = [size EXCEPT ![a] = n] /\ data' = [data EXCEPT ![a] = p]

(* Variants with one plausible slip each, which take no part in the        *)
(* specification; they serve to show that a property notices the slip.     *)
ShallowCopy(a, b) ==
  /\ a \notin alive /\ b \in alive
  /\ Become(a, size[b], data[b])
  /\ alive' = alive \cup {a}
  /\ UNCHANGED heap
MoveLeavingSize(a, b) ==
  /\ a # b /\ {a, b} \subseteq alive
  /\ size' = [size EXCEPT ![a] = size[b]]
  /\ data' = [data EXCEPT ![a] = data[b], ![b] = Null]
  /\ heap' = Free(heap, data[a])
  /\ UNCHANGED alive

-----------------------------------------------------------------------------
(* Arena(n).  What malloc returns is not initialised.                      *)
Construct(a) ==
  /\ a \notin alive
  /\ \E s \in Strings, p \in Addr \cup {Null} :
       /\ Allocates(heap, p, s)
       /\ Become(a, Len(s), p)
       /\ heap' = With(heap, p, s)
  /\ alive' = alive \cup {a}

(* ~Arena()                                                                *)
Destroy(a) ==
  /\ a \in alive
  /\ alive' = alive \ {a}
  /\ Become(a, 0, Null)
  /\ heap' = Free(heap, data[a])

(* Arena(const Arena& other)                                               *)
CopyConstruct(a, b) ==
  /\ a \notin alive /\ b \in alive
  /\ \E p \in Addr \cup {Null} :
       /\ Allocates(heap, p, Contents(b))
       /\ Become(a, size[b], p)
       /\ heap' = With(heap, p, Contents(b))
  /\ alive' = alive \cup {a}

(* operator=(const Arena& other): tmp copies other, swaps with *this and   *)
(* takes the old block along when it is destroyed.                         *)
CopyAssign(a, b) ==
  /\ a # b /\ {a, b} \subseteq alive
  /\ \E p \in Addr \cup {Null} :
       /\ Allocates(heap, p, Contents(b))
       /\ Become(a, size[b], p)
       /\ heap' = Free(With(heap, p, Contents(b)), data[a])
  /\ UNCHANGED alive

(* size_ and data_ go from b to a; b is left empty.                        *)
TakeOver(a, b) ==
  /\ size' = [size EXCEPT ![a] = size[b], ![b] = 0]
  /\ data' = [data EXCEPT ![a] = data[b], ![b] = Null]

(* Arena(Arena&& other)                                                    *)
MoveConstruct(a, b) ==
  /\ a \notin alive /\ b \in alive
  /\ TakeOver(a, b)
  /\ alive' = alive \cup {a}
  /\ UNCHANGED heap

(* operator=(Arena&& other)                                                *)
MoveAssign(a, b) ==
  /\ a # b /\ {a, b} \subseteq alive
  /\ heap' = Free(heap, data[a])
  /\ TakeOver(a, b)
  /\ UNCHANGED alive

(* swap(other)                                                             *)
Swap(a, b) ==
  /\ a # b /\ {a, b} \subseteq alive
  /\ size' = [size EXCEPT ![a] = size[b], ![b] = size[a]]
  /\ data' = [data EXCEPT ![a] = data[b], ![b] = data[a]]
  /\ UNCHANGED <<alive, heap>>

(* write(offset, s)                                                        *)
Write(a, offset, s) ==
  /\ a \in alive
  /\ InBounds(a, offset, Len(s)) /\ offset + Len(s) <= SizeMax
  /\ heap' = With(heap, data[a], Overwrite(Contents(a), offset, s))
  /\ UNCHANGED <<alive, size, data>>

SameSize(s, t) == s = t \/ (Unallocated \notin {s, t} /\ Len(s) = Len(t))

(* ... when the sum of the bounds test wraps and passes it: memcpy writes  *)
(* from before the block on, to memory that is nobody's or a block's, and  *)
(* over the first bytes of the block.  malloc's own data is left out.      *)
WriteWraps(a, offset, s) ==
  /\ a \in alive
  /\ InBounds(a, offset, Len(s)) /\ offset + Len(s) > SizeMax
  /\ \E p \in Addr, t \in Strings \cup {Unallocated} :
       /\ SameSize(t, heap[p])
       /\ heap' = With(With(heap, p, t), data[a],
                       Overwrite(Contents(a), offset - (SizeMax + 1), s))
  /\ UNCHANGED <<alive, size, data>>

Wraps == \E a \in Names, offset \in Offsets, s \in Strings : WriteWraps(a, offset, s)

-----------------------------------------------------------------------------
Next ==
  \/ \E a \in Names : Construct(a) \/ Destroy(a)
  \/ \E a \in Names, b \in Names :
       \/ CopyConstruct(a, b) \/ CopyAssign(a, b)
       \/ MoveConstruct(a, b) \/ MoveAssign(a, b)
       \/ Swap(a, b)
  \/ \E a \in Names, offset \in Offsets, s \in Strings : Write(a, offset, s)
  \/ Wraps

Spec == Init /\ [][Next]_vars

-----------------------------------------------------------------------------
(***************************************************************************)
(* Properties                                                              *)
(***************************************************************************)

(* The members of Arena keep their types, and size_ is the size of the     *)
(* block that data_ points to: zero with nullptr.                          *)
TypeOK ==
  /\ alive \subseteq Names
  /\ size \in [Names -> 0..MaxSize]
  /\ data \in [Names -> Addr \cup {Null}]
  /\ heap \in [Addr -> Strings \cup {Unallocated}]
  /\ \A a \in Names \ alive : data[a] = Null
  /\ \A a \in Names : Contents(a) \in [1..size[a] -> Byte] /\ (data[a] = Null <=> size[a] = 0)

(* Every block is owned by exactly one live arena, so each is freed once   *)
(* and none is leaked, whatever was copied, moved or swapped before.       *)
OneOwner ==
  /\ \A a, b \in alive : a # b /\ data[a] = data[b] => data[a] = Null
  /\ \A p \in Addr : heap[p] # Unallocated <=> \E a \in alive : data[a] = p

Values == [a \in Names |-> IF a \in alive THEN Contents(a) ELSE Dead]

V == INSTANCE ArenaValues WITH value <- Values

(* With the blocks hidden arenas are values: writing one never shows in    *)
(* another, and every operation ends with the contents it promises.  The   *)
(* one exception is a write whose offset + s.size() wraps.                 *)
ImplementsValues == V!Init /\ [][V!Next \/ Wraps]_Values
=============================================================================
