---------------------------- MODULE ReadThrough ----------------------------
(***************************************************************************)
(* What the read-through caches of abstract_factory and proxy promise:     *)
(* every lookup is answered as the source would answer it, but for the     *)
(* keys the cache was made with, which are answered as they were given     *)
(* then; and the source is not asked about a key whose answer is kept.     *)
(***************************************************************************)
CONSTANTS
  Keys,
  Source,    \* the source's answer for each key
  Worthless, \* answers that are not kept
  Seeded     \* the answers the cache was made with, for some of the keys

VARIABLES
  kept,  \* the keys whose answers are kept
  reply  \* the last key, its answer and whether the source was asked

Answer(k) == IF k \in DOMAIN Seeded THEN Seeded[k] ELSE Source[k]

Init == kept = DOMAIN Seeded /\ reply = <<>>

Hit(k) ==
  /\ k \in kept
  /\ reply' = <<k, Answer(k), "kept">>
  /\ UNCHANGED kept

Miss(k) ==
  /\ k \notin kept
  /\ reply' = <<k, Source[k], "asked">>
  /\ kept' = IF Source[k] \in Worthless THEN kept ELSE kept \cup {k}

Next == \E k \in Keys : Hit(k) \/ Miss(k)

Spec == Init /\ [][Next]_<<kept, reply>>
=============================================================================
