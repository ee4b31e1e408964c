-------------------------- MODULE NvsStorageProofs --------------------------
(***************************************************************************)
(* Theorems about the settings in flash, for any number of tasks, keys and *)
(* values: the mutex keeps unfinished writes from being read, and the      *)
(* setters implement DoubtfulStore across restarts.                        *)
(***************************************************************************)
EXTENDS NvsStorage, TLAPS

LEMMA InitIInv == Init => IInv
BY DEF Init, IInv, TypeOK, Coherent, MissingAsked, Values

(* A write leaves its own key to its commit and the others as they were. *)
LEMMA WriteIInv ==
  ASSUME IInv, NEW c \in Callers, NEW k \in Keys, NEW v \in Values, Write(c, k, v)
  PROVE  IInv'
<1> USE DEF IInv, TypeOK, Write
<1>1. TypeOK'
  <2>1. \A d \in Callers : pc[d] = "idle"
    BY StorageAssumption
  <2> QED  BY <2>1
<1>2. Coherent'
  <2>1. \A d \in Callers : pc[d] = "idle"
    BY StorageAssumption
  <2>2. asked'[c] = <<k, v>> /\ written'[k] = v /\ pc'[c] = "commit"
    OBVIOUS
  <2>3. ASSUME NEW d \in Callers, pc'[d] # "idle"
        PROVE  written'[asked'[d][1]] = asked'[d][2]
    BY <2>1, <2>2, <2>3
  <2>4. ASSUME NEW x \in Keys
        PROVE  \/ written'[x] \in {flash'[x]} \cup doubt'[x]
               \/ \E d \in Callers : pc'[d] = "commit" /\ asked'[d] = <<x, written'[x]>>
    <3>1. CASE x = k
      BY <3>1, <2>2
    <3>2. CASE x # k
      BY <3>2, <2>1 DEF Coherent
    <3> QED  BY <3>1, <3>2
  <2> QED  BY <2>3, <2>4 DEF Coherent
<1>3. MissingAsked'
  BY StorageAssumption DEF MissingAsked
<1> QED  BY <1>1, <1>2, <1>3

(* The deletion that found nothing has what the handle reads as its value. *)
LEMMA DeleteMissingIInv ==
  ASSUME IInv, NEW c \in Callers, NEW k \in Keys, DeleteMissing(c, k)
  PROVE  IInv'
<1> USE DEF IInv, TypeOK, DeleteMissing
<1>1. \A d \in Callers : pc[d] = "idle"
  BY StorageAssumption
<1>2. asked'[c] = <<k, Absent>> /\ written'[k] = Absent /\ pc'[c] = "missing"
  OBVIOUS
<1>3. TypeOK'
  BY <1>1 DEF Values
<1>4. ASSUME NEW d \in Callers, pc'[d] # "idle"
      PROVE  written'[asked'[d][1]] = asked'[d][2]
  BY <1>1, <1>2, <1>4
<1>5. \A x \in Keys : written'[x] \in {flash'[x]} \cup doubt'[x]
  BY <1>1 DEF Coherent
<1>6. Coherent'
  BY <1>4, <1>5 DEF Coherent
<1>7. MissingAsked'
  BY <1>1, <1>2 DEF MissingAsked
<1> QED  BY <1>3, <1>6, <1>7

(* What the caller that holds the mutex knows: nobody else does, so every  *)
(* other key reads what is durable or in doubt.                            *)
LEMMA Holder ==
  ASSUME IInv, NEW c \in Callers, pc[c] # "idle"
  PROVE  /\ \A d \in Callers : pc[d] # "idle" => d = c
         /\ asked[c][1] \in Keys /\ asked[c][2] \in Values
         /\ asked[c] = <<asked[c][1], asked[c][2]>>
         /\ written[asked[c][1]] = asked[c][2]
         /\ \A x \in Keys :
              ~ (x = asked[c][1] /\ pc[c] = "commit") =>
                written[x] \in {flash[x]} \cup doubt[x]
<1>1. \A d \in Callers : pc[d] # "idle" => d = c
  BY DEF IInv, TypeOK
<1>2. asked[c] \in Keys \X Values
  BY DEF IInv, TypeOK
<1>3. ASSUME NEW x \in Keys, ~ (x = asked[c][1] /\ pc[c] = "commit")
      PROVE  written[x] \in {flash[x]} \cup doubt[x]
  <2>1. ~ \E d \in Callers : pc[d] = "commit" /\ asked[d] = <<x, written[x]>>
    BY <1>1, <1>2, <1>3
  <2> QED  BY <2>1 DEF IInv, Coherent
<1> QED  BY <1>1, <1>2, <1>3 DEF IInv, Coherent

LEMMA CommitIInv ==
  ASSUME IInv, NEW c \in Callers, Commit(c)
  PROVE  IInv'
<1> USE DEF Commit, Return
<1>1. \A d \in Callers : pc'[d] = "idle"
  BY Holder DEF IInv, TypeOK
<1>2. TypeOK'
  BY <1>1, Holder DEF IInv, TypeOK
<1>3. Coherent'
  BY <1>1 DEF Coherent
<1>4. MissingAsked'
  BY <1>1 DEF MissingAsked
<1> QED  BY <1>2, <1>3, <1>4 DEF IInv

(* Giving the mutex back after a deletion that found nothing leaves every  *)
(* key durable or in doubt.                                                *)
LEMMA ReturnMissingIInv ==
  ASSUME IInv, NEW c \in Callers, ReturnMissing(c)
  PROVE  IInv'
<1> USE DEF ReturnMissing, Return
<1>1. \A d \in Callers : pc'[d] = "idle"
  BY Holder DEF IInv, TypeOK
<1>2. TypeOK'
  BY <1>1, Holder DEF IInv, TypeOK
<1>3. \A x \in Keys : written'[x] \in {flash'[x]} \cup doubt'[x]
  BY Holder
<1>4. Coherent'
  BY <1>1, <1>3 DEF Coherent
<1>5. MissingAsked'
  BY <1>1 DEF MissingAsked
<1> QED  BY <1>2, <1>4, <1>5 DEF IInv

LEMMA CommitFailsIInv ==
  ASSUME IInv, NEW c \in Callers, CommitFails(c)
  PROVE  IInv'
<1> USE DEF CommitFails, Return
<1> DEFINE key == asked[c][1]
<1>0. doubt \in [Keys -> SUBSET Values] /\ key \in Keys
  BY Holder DEF IInv, TypeOK
<1>1. \A d \in Callers : pc'[d] = "idle"
  BY Holder DEF IInv, TypeOK
<1>2. TypeOK'
  BY <1>0, <1>1, Holder DEF IInv, TypeOK
<1>3. ASSUME NEW x \in Keys PROVE written'[x] \in {flash'[x]} \cup doubt'[x]
  <2>1. CASE x = key
    BY <2>1, <1>0, Holder
  <2>2. CASE x # key
    BY <2>2, <1>0, Holder
  <2> QED  BY <2>1, <2>2
<1>4. Coherent'
  BY <1>1, <1>3 DEF Coherent
<1>5. MissingAsked'
  BY <1>1 DEF MissingAsked
<1> QED  BY <1>2, <1>4, <1>5 DEF IInv

LEMMA RestartIInv ==
  ASSUME IInv, Restart
  PROVE  IInv'
<1>1. TypeOK'
  BY DEF IInv, TypeOK, Restart, Values
<1>2. Coherent'
  BY DEF Coherent, Restart
<1>3. MissingAsked'
  BY DEF MissingAsked, Restart
<1> QED  BY <1>1, <1>2, <1>3 DEF IInv

LEMMA NextIInv == IInv /\ [Next]_vars => IInv'
<1> SUFFICES ASSUME IInv, [Next]_vars PROVE IInv'
  OBVIOUS
<1>1. ASSUME NEW c \in Callers, NEW k \in Keys, DeleteKey(c, k) PROVE IInv'
  BY <1>1, WriteIInv DEF DeleteKey, Values
<1>2. ASSUME NEW c \in Callers, NEW k \in Keys, NEW v \in Settings, Set(c, k, v) PROVE IInv'
  BY <1>2, WriteIInv DEF Set, Values
<1>3. ASSUME UNCHANGED vars PROVE IInv'
  BY <1>3 DEF vars, callers, IInv, TypeOK, Coherent, MissingAsked
<1>4. ASSUME NEW c \in Callers, NEW k \in Keys, DeleteMissing(c, k) PROVE IInv'
  BY <1>4, DeleteMissingIInv
<1> QED
  BY <1>1, <1>2, <1>3, <1>4, CommitIInv, CommitFailsIInv, ReturnMissingIInv, RestartIInv
  DEF Next

LEMMA Invariance == Spec => []IInv
BY InitIInv, NextIInv, PTL DEF Spec

(* The globals of storage/nvs_storage.c keep their types, and nvs_mutex is *)
(* held by every caller inside a call.                                     *)
THEOREM TypeCorrect == Spec => []TypeOK
<1>1. IInv => TypeOK
  BY DEF IInv
<1> QED  BY <1>1, Invariance, PTL

(* The getters, which take nvs_mutex, never read the unfinished write of   *)
(* another caller.                                                         *)
THEOREM NothingUnfinishedIsRead == Spec => []ReadableIsCommitted
<1>1. IInv => ReadableIsCommitted
  <2>1. ASSUME IInv, nvs_mutex = "free" PROVE \A c \in Callers : pc[c] = "idle"
    BY <2>1, StorageAssumption DEF IInv, TypeOK
  <2> QED  BY <2>1 DEF IInv, Coherent, ReadableIsCommitted
<1> QED  BY <1>1, Invariance, PTL

(* A write the setters report done is found by every later restart, and a  *)
(* failed one comes to light only before its key is written again; a       *)
(* deletion that found nothing promises no more than that.                 *)
THEOREM StorageImplementsStore == Spec => ImplementsStore
<1>1. Init => Store!Init
  BY DEF Init, Store!Init
<1>2. IInv /\ [Next]_vars => [Store!Next]_<<flash, doubt, outcome>>
  <2> SUFFICES ASSUME IInv, [Next]_vars PROVE [Store!Next]_<<flash, doubt, outcome>>
    OBVIOUS
  <2>1. ASSUME NEW c \in Callers, NEW k \in Keys, NEW v \in Values, Write(c, k, v)
        PROVE  UNCHANGED <<flash, doubt, outcome>>
    BY <2>1 DEF Write
  <2>2. ASSUME NEW c \in Callers, Commit(c) PROVE Store!Next
    <3>1. Store!Done(asked[c][1], asked[c][2])
      BY <2>2, Holder DEF Commit, Return, Store!Done, IInv, TypeOK
    <3> QED  BY <2>2, <3>1, Holder DEF Commit, Store!Next
  <2>3. ASSUME NEW c \in Callers, CommitFails(c) PROVE Store!Next
    <3>1. Store!Failed(asked[c][1], asked[c][2])
      BY <2>3 DEF CommitFails, Return, Store!Failed
    <3> QED  BY <2>3, <3>1, Holder DEF CommitFails, Store!Next
  <2>4. ASSUME Restart PROVE Store!Next
    <3>1. CASE /\ flash' \in [Keys -> Values]
               /\ \A k \in Keys : flash'[k] \in {flash[k], written[k]}
               /\ UNCHANGED <<doubt, outcome>>
      <4>1. PICK k \in Keys, v \in Values :
              \A x \in Keys : written[x] \in {flash[x]} \cup doubt[x] \/ (x = k /\ written[x] = v)
        <5>1. CASE \E c \in Callers : pc[c] = "commit"
          <6>1. PICK c \in Callers : pc[c] = "commit"
            BY <5>1
          <6>2. \A x \in Keys :
                  \/ written[x] \in {flash[x]} \cup doubt[x]
                  \/ x = asked[c][1] /\ written[x] = asked[c][2]
            BY <6>1, Holder
          <6>3. asked[c][1] \in Keys /\ asked[c][2] \in Values
            BY <6>1, Holder
          <6> QED  BY <6>2, <6>3
        <5>2. CASE ~ \E c \in Callers : pc[c] = "commit"
          BY <5>2, StorageAssumption DEF IInv, Coherent, Values
        <5> QED  BY <5>1, <5>2
      <4>2. Store!CutOff(k, v)
        <5>1. ASSUME NEW x \in Keys
              PROVE  flash'[x] \in {flash[x]} \cup doubt[x] \cup (IF x = k THEN {v} ELSE {})
          <6>1. CASE flash'[x] = flash[x]
            BY <6>1
          <6>2. CASE flash'[x] = written[x]
            BY <6>2, <4>1
          <6> QED  BY <6>1, <6>2, <3>1
        <5> QED  BY <3>1, <5>1 DEF Store!CutOff
      <4> QED  BY <4>2 DEF Store!Next
    <3>2. CASE /\ flash' = [k \in Keys |-> Absent]
               /\ doubt' = [k \in Keys |-> {}]
      <4>1. Store!Erased
        BY <3>2, <2>4 DEF Store!Erased, Restart
      <4> QED  BY <4>1 DEF Store!Next
    <3> QED  BY <2>4, <3>1, <3>2 DEF Restart
  <2>5. ASSUME NEW c \in Callers, ReturnMissing(c) PROVE Store!Next
    <3>1. asked[c] = <<asked[c][1], Absent>> /\ asked[c][1] \in Keys
      <4>1. asked[c][2] = Absent
        BY <2>5 DEF ReturnMissing, IInv, MissingAsked
      <4> QED  BY <4>1, <2>5, Holder DEF ReturnMissing
    <3>2. Absent \in {flash[asked[c][1]]} \cup doubt[asked[c][1]]
      BY <3>1, <2>5, Holder DEF ReturnMissing
    <3>3. Store!Missing(asked[c][1])
      BY <3>2, <2>5 DEF ReturnMissing, Return, Store!Missing
    <3> QED  BY <3>1, <3>3 DEF Store!Next
  <2> QED
    BY <2>1, <2>2, <2>3, <2>4, <2>5 DEF Next, DeleteKey, DeleteMissing, Set, Values, vars
<1> QED  BY <1>1, <1>2, Invariance, PTL DEF Spec, ImplementsStore, Store!Spec
=============================================================================
