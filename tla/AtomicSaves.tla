----------------------------- MODULE AtomicSaves -----------------------------
(***************************************************************************)
(* What a plugin may rely on from save_put and save_get: under each key is *)
(* nothing or one whole value that was put there.  A put replaces it at    *)
(* once or not at all.  When the machine loses power, a key may go back to *)
(* something it held before.                                               *)
(***************************************************************************)
CONSTANTS Keys, Values, NoFile

VARIABLES
  store,  \* what save_get reads under each key
  past    \* all that each key has held

Init ==
  /\ store = [k \in Keys |-> NoFile]
  /\ past = [k \in Keys |-> {NoFile}]

Replace(k, v) ==
  /\ store' = [store EXCEPT ![k] = v]
  /\ past' = [past EXCEPT ![k] = @ \cup {v}]

Revert ==
  /\ store' \in [Keys -> UNION {past[k] : k \in Keys}]
  /\ \A k \in Keys : store'[k] \in past[k]
  /\ UNCHANGED past

Next == (\E k \in Keys, v \in Values : Replace(k, v)) \/ Revert

Spec == Init /\ [][Next]_<<store, past>>
=============================================================================
