---------------------------- MODULE ArenaValues ----------------------------
(***************************************************************************)
(* What Arena of examples/rule_of_0_5/main.cpp promises: an arena is a     *)
(* value, a sequence of bytes of its own.  Copies are independent, a moved *)
(* from arena is empty, and there are no pointers.                         *)
(***************************************************************************)
EXTENDS Integers, Sequences

CONSTANTS
  Names,    \* the variables of type Arena
  Byte,     \* the values of a byte
  MaxSize,  \* bound: the size of the largest arena
  Dead      \* no arena: not constructed yet, or destroyed

VARIABLE value  \* the bytes of each arena, or Dead

Strings == UNION {[1..n -> Byte] : n \in 0..MaxSize}

(* s with t written over it from offset on.                                *)
Overwrite(s, offset, t) ==
  [i \in 1..Len(s) |-> IF i - offset \in 1..Len(t) THEN t[i - offset] ELSE s[i]]

Init == value = [a \in Names |-> Dead]

(* A new arena holds whatever the memory held before.                      *)
Create(a) == value[a] = Dead /\ \E s \in Strings : value' = [value EXCEPT ![a] = s]

Destroy(a) == value[a] # Dead /\ value' = [value EXCEPT ![a] = Dead]

(* Copy construction and copy assignment.                                  *)
Copy(a, b) == value[b] # Dead /\ value' = [value EXCEPT ![a] = value[b]]

(* Move construction and move assignment.                                  *)
Move(a, b) == value[b] # Dead /\ value' = [value EXCEPT ![a] = value[b], ![b] = <<>>]

Swap(a, b) ==
  /\ value[a] # Dead /\ value[b] # Dead
  /\ value' = [value EXCEPT ![a] = value[b], ![b] = value[a]]

(* A write in bounds; one out of bounds throws and changes nothing.        *)
Write(a, offset, s) ==
  /\ value[a] # Dead
  /\ offset + Len(s) <= Len(value[a])
  /\ value' = [value EXCEPT ![a] = Overwrite(value[a], offset, s)]

Next ==
  \/ \E a \in Names : Create(a) \/ Destroy(a)
  \/ \E a \in Names, b \in Names : a # b /\ (Copy(a, b) \/ Move(a, b) \/ Swap(a, b))
  \/ \E a \in Names, offset \in 0..MaxSize, s \in Strings : Write(a, offset, s)

Spec == Init /\ [][Next]_value
=============================================================================
