---------------------------- MODULE KeyEncoding ----------------------------
(***************************************************************************)
(* The cache keys of examples/traits_tag_dispatch/main.cpp.  Two keys are  *)
(* built by the same sequence of append_part calls, with the same types    *)
(* and perhaps other values.                                               *)
(***************************************************************************)
EXTENDS Integers, Sequences

CONSTANTS
  Chars,      \* the characters of strings
  MaxLength,  \* bound: the length of a string
  IntBytes,   \* the values of a byte of an integer
  IntSize,    \* sizeof of an integer
  MaxParts    \* bound: the parts of a key

VARIABLES
  keys,   \* the two Bytes
  parts,  \* the number of parts appended
  same    \* the values appended to the two keys were the same

vars == <<keys, parts, same>>

Strings  == UNION {[1..n -> Chars] : n \in 0..MaxLength}
Integer  == [1..IntSize -> IntBytes]
UserKeys == [user_id : Integer, region : Strings]

Init ==
  /\ keys = << <<>>, <<>> >>
  /\ parts = 0
  /\ same = TRUE

(* Variants with one plausible slip each, which take no part in the        *)
(* specification; they serve to show that a property notices the slip.     *)
WithoutDelimiter(s) == s

(* append_part for each tag: what it appends.                              *)
BytesPart(value) == value
StringPart(s) == s \o <<0>>
UserKeyPart(key) == <<165>> \o BytesPart(key.user_id) \o StringPart(key.region)

(* One append_part for each key, with the values v and w.                  *)
AppendParts(v, w, part_v, part_w) ==
  /\ keys' = <<keys[1] \o part_v, keys[2] \o part_w>>
  /\ parts' = parts + 1
  /\ same' = (same /\ v = w)

AppendInteger == \E v, w \in Integer : AppendParts(v, w, BytesPart(v), BytesPart(w))
AppendString  == \E v, w \in Strings : AppendParts(v, w, StringPart(v), StringPart(w))
AppendUserKey == \E v, w \in UserKeys : AppendParts(v, w, UserKeyPart(v), UserKeyPart(w))

Next == parts < MaxParts /\ (AppendInteger \/ AppendString \/ AppendUserKey)

Spec == Init /\ [][Next]_vars

-----------------------------------------------------------------------------
(* Equal keys have been built from equal parts, whatever the boundaries    *)
(* between the parts.                                                      *)
Unambiguous == keys[1] = keys[2] => same
=============================================================================
