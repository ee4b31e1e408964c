---------------------------- MODULE NvsStorage ----------------------------
(***************************************************************************)
(* storage/nvs_storage.c: settings kept in flash.  Every setter writes     *)
(* through the one open handle and commits it, under nvs_mutex.  The NVS   *)
(* library is external: its handle reads what was written to it, and a     *)
(* commit makes all of that durable, the writes of others included.  The   *)
(* power may fail between any two steps.  The statistics are left out.     *)
(***************************************************************************)
CONSTANTS
  Callers,   \* the tasks that use the store
  Keys,
  Settings   \* the values they set

Absent == "absent"
Values == Settings \cup {Absent}

ASSUME StorageAssumption ==
  /\ Keys # {}
  /\ Absent \notin Settings
  /\ "free" \notin Callers

VARIABLES
  nvs_mutex,  \* who holds it, or "free"
  pc,         \* each caller: "idle", at its "commit", or its key was "missing"
  asked,      \* what that caller writes: <<key, value>>; Absent deletes
  written,    \* external: key -> what the handle reads
  flash,      \* external: key -> what a restart finds
  doubt,      \* history: key -> what failed calls have written since the last commit of it
  outcome     \* history: key -> what the last call that returned said of it

callers == <<nvs_mutex, pc, asked>>
vars == <<callers, written, flash, doubt, outcome>>

Init ==
  /\ nvs_mutex = "free"
  /\ pc = [c \in Callers |-> "idle"]
  /\ asked \in [Callers -> Keys \X {Absent}]
  /\ flash \in [Keys -> Values]
  /\ written = flash
  /\ doubt = [k \in Keys |-> {}]
  /\ outcome = [k \in Keys |-> "none"]

(* Mutation: the setter gives the mutex back before it commits. *)
WriteUnlocked(c, k, v) ==
  /\ pc[c] = "idle" /\ nvs_mutex = "free"
  /\ pc' = [pc EXCEPT ![c] = "commit"]
  /\ asked' = [asked EXCEPT ![c] = <<k, v>>]
  /\ written' = [written EXCEPT ![k] = v]
  /\ UNCHANGED <<nvs_mutex, flash, doubt, outcome>>

(* A write of the handle, under the mutex.  One that the library refuses,  *)
(* or a mutex that is not free in time, returns an error and changes       *)
(* nothing.                                                                *)
Write(c, k, v) ==
  /\ pc[c] = "idle" /\ nvs_mutex = "free"
  /\ nvs_mutex' = c
  /\ pc' = [pc EXCEPT ![c] = "commit"]
  /\ asked' = [asked EXCEPT ![c] = <<k, v>>]
  /\ written' = [written EXCEPT ![k] = v]
  /\ UNCHANGED <<flash, doubt, outcome>>

(* nvs_storage_set_u8, _set_u32, _set_bool and _set_str. *)
Set(c, k, v) == Write(c, k, v)

(* nvs_storage_delete_key of a key the handle has. *)
DeleteKey(c, k) == written[k] # Absent /\ Write(c, k, Absent)

(* nvs_storage_delete_key of a key the handle does not find: it goes       *)
(* straight to its return, without a commit.                               *)
DeleteMissing(c, k) ==
  /\ written[k] = Absent
  /\ pc[c] = "idle" /\ nvs_mutex = "free"
  /\ nvs_mutex' = c
  /\ pc' = [pc EXCEPT ![c] = "missing"]
  /\ asked' = [asked EXCEPT ![c] = <<k, Absent>>]
  /\ UNCHANGED <<written, flash, doubt, outcome>>

(* A call gives the mutex back and says how its key fared. *)
Return(c, said) ==
  /\ nvs_mutex' = "free"
  /\ pc' = [pc EXCEPT ![c] = "idle"]
  /\ outcome' = [outcome EXCEPT ![asked[c][1]] = said]
  /\ UNCHANGED <<asked, written>>

(* The deletion that found nothing returns ESP_OK. *)
ReturnMissing(c) ==
  /\ pc[c] = "missing"
  /\ Return(c, "missing")
  /\ UNCHANGED <<flash, doubt>>

(* Mutation: the result of nvs_commit is not looked at. *)
CommitUnchecked(c) ==
  /\ pc[c] = "commit"
  /\ Return(c, "done")
  /\ \/ flash' = written
     \/ UNCHANGED flash
  /\ doubt' = [doubt EXCEPT ![asked[c][1]] = {}]

(* nvs_commit succeeds, the call returns ESP_OK. *)
Commit(c) ==
  /\ pc[c] = "commit"
  /\ Return(c, "done")
  /\ flash' = written
  /\ doubt' = [doubt EXCEPT ![asked[c][1]] = {}]

(* Mutation: the error path returns with the mutex taken. *)
CommitFailsLocked(c) ==
  /\ pc[c] = "commit"
  /\ pc' = [pc EXCEPT ![c] = "idle"]
  /\ doubt' = [doubt EXCEPT ![asked[c][1]] = @ \cup {asked[c][2]}]
  /\ outcome' = [outcome EXCEPT ![asked[c][1]] = "failed"]
  /\ UNCHANGED <<nvs_mutex, asked, written, flash>>

(* nvs_commit fails, the call returns its error; the handle goes on        *)
(* reading what was written.                                               *)
CommitFails(c) ==
  /\ pc[c] = "commit"
  /\ Return(c, "failed")
  /\ doubt' = [doubt EXCEPT ![asked[c][1]] = @ \cup {asked[c][2]}]
  /\ UNCHANGED flash

(* The power fails: which of the writes that were not committed a restart  *)
(* finds is open.  A call under way never returns.  app_main opens the     *)
(* store again, and erases a partition without free pages or of another    *)
(* version.                                                                *)
Restart ==
  /\ nvs_mutex' = "free"
  /\ pc' = [c \in Callers |-> "idle"]
  /\ \/ /\ flash' \in [Keys -> Values]
        /\ \A k \in Keys : flash'[k] \in {flash[k], written[k]}
        /\ UNCHANGED doubt
     \/ /\ flash' = [k \in Keys |-> Absent]
        /\ doubt' = [k \in Keys |-> {}]
  /\ written' = flash'
  /\ UNCHANGED <<asked, outcome>>

Next ==
  \/ \E c \in Callers :
       \/ \E k \in Keys :
            \/ DeleteKey(c, k)
            \/ DeleteMissing(c, k)
            \/ \E v \in Settings : Set(c, k, v)
       \/ ReturnMissing(c)
       \/ Commit(c)
       \/ CommitFails(c)
  \/ Restart

Spec == Init /\ [][Next]_vars

(* A call that holds the mutex goes on to its return. *)
FairSpec ==
  Spec /\ \A c \in Callers : WF_vars(Commit(c) \/ CommitFails(c) \/ ReturnMissing(c))
-----------------------------------------------------------------------------
(* Every variable keeps its type: storage/nvs_storage.c's globals and the  *)
(* library's two views of the partition.  A caller that is not idle holds  *)
(* the mutex.                                                              *)
TypeOK ==
  /\ nvs_mutex \in Callers \cup {"free"}
  /\ pc \in [Callers -> {"idle", "commit", "missing"}]
  /\ \A c \in Callers : pc[c] # "idle" => nvs_mutex = c
  /\ asked \in [Callers -> Keys \X Values]
  /\ written \in [Keys -> Values]
  /\ flash \in [Keys -> Values]
  /\ doubt \in [Keys -> SUBSET Values]
  /\ outcome \in [Keys -> {"none", "done", "failed", "missing"}]

(* nvs_storage_get_u8 and its companions take the mutex, so what they read *)
(* is durable, or the value of a call that reported failure: never the     *)
(* unfinished write of another caller.                                     *)
ReadableIsCommitted ==
  nvs_mutex = "free" => \A k \in Keys : written[k] \in {flash[k]} \cup doubt[k]

(* The inductive invariant: a setting the handle reads and a restart would *)
(* not find is the write of a failed call, or of the call under way.       *)
Coherent ==
  /\ \A c \in Callers : pc[c] # "idle" => written[asked[c][1]] = asked[c][2]
  /\ \A k \in Keys :
       \/ written[k] \in {flash[k]} \cup doubt[k]
       \/ \E c \in Callers : pc[c] = "commit" /\ asked[c] = <<k, written[k]>>
MissingAsked == \A c \in Callers : pc[c] = "missing" => asked[c][2] = Absent
IInv == TypeOK /\ Coherent /\ MissingAsked

(* The setters keep their promise across restarts: what they commit and    *)
(* report done is what a restart finds, until the key is written again.  A *)
(* deletion that reports done because the handle no longer has the key     *)
(* promises less: after a deletion whose commit failed, a restart may      *)
(* still find the value.                                                   *)
Store == INSTANCE DoubtfulStore WITH store <- flash
ImplementsStore == Store!Spec

(* Every path of the setters gives the mutex back, the error paths too. *)
MutexIsReleased == nvs_mutex # "free" ~> nvs_mutex = "free"
=============================================================================
