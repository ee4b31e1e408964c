--------------------------- MODULE DoubtfulStore ---------------------------
(***************************************************************************)
(* What a store of settings promises to survive a restart, for             *)
(* storage/nvs_storage.c: a write that is reported done is there from then *)
(* on; a write that is reported failed is in doubt, it may come to light   *)
(* with any later write until its key is written again; a deletion that is *)
(* reported done without a write leaves the key as it is.                  *)
(***************************************************************************)
CONSTANTS Keys, Values, Absent

VARIABLES
  store,   \* key -> the value a restart would find
  doubt,   \* key -> the values of the failed writes that may still come to light
  outcome  \* key -> what the last call said of it

Init ==
  /\ store \in [Keys -> Values]
  /\ doubt = [k \in Keys |-> {}]
  /\ outcome = [k \in Keys |-> "none"]

(* A write of key k is reported done. *)
Done(k, v) ==
  /\ store' \in [Keys -> Values]
  /\ store'[k] = v
  /\ \A x \in Keys \ {k} : store'[x] \in {store[x]} \cup doubt[x]
  /\ doubt' = [doubt EXCEPT ![k] = {}]
  /\ outcome' = [outcome EXCEPT ![k] = "done"]

(* A restart cuts a write of key k off: it may have come to light, and so  *)
(* may the ones in doubt.                                                  *)
CutOff(k, v) ==
  /\ store' \in [Keys -> Values]
  /\ \A x \in Keys : store'[x] \in {store[x]} \cup doubt[x] \cup (IF x = k THEN {v} ELSE {})
  /\ UNCHANGED <<doubt, outcome>>

(* A write of key k is reported failed. *)
Failed(k, v) ==
  /\ doubt' = [doubt EXCEPT ![k] = @ \cup {v}]
  /\ outcome' = [outcome EXCEPT ![k] = "failed"]
  /\ UNCHANGED store

(* A deletion of key k finds nothing to delete and is reported done: the   *)
(* key is gone, or a deletion in doubt has made it look so.                *)
Missing(k) ==
  /\ Absent \in {store[k]} \cup doubt[k]
  /\ outcome' = [outcome EXCEPT ![k] = "missing"]
  /\ UNCHANGED <<store, doubt>>

(* The partition is erased. *)
Erased ==
  /\ store' = [k \in Keys |-> Absent]
  /\ doubt' = [k \in Keys |-> {}]
  /\ UNCHANGED outcome

Next ==
  \/ \E k \in Keys, v \in Values : Done(k, v) \/ CutOff(k, v) \/ Failed(k, v)
  \/ \E k \in Keys : Missing(k)
  \/ Erased

Spec == Init /\ [][Next]_<<store, doubt, outcome>>
=============================================================================
