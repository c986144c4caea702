------------------------------ MODULE UdfClient ------------------------------
(***************************************************************************)
(* The client of the sandbox (Roma) that runs the user defined functions    *)
(* (components/udf/udf_client.cc): code objects are replaced while requests  *)
(* run, both wait for the sandbox with a timeout, and the sandbox may answer *)
(* after the wait is over.                                                  *)
(***************************************************************************)
EXTENDS Integers, FiniteSets, Sequences

CONSTANTS
  Updaters,         \* threads that read a UDF config record
  Config,           \* updater -> [version, handler_name, logical_commit_time]
  DefaultCode,      \* the config the server sets before it serves
  Slots,            \* the asynchronous executions of one request
  MaxInvocations    \* bound on the invocations whose state is in use

Codes == {DefaultCode} \cup {Config[u] : u \in Updaters}

ASSUME CodesAssumption ==
  /\ DOMAIN Config = Updaters
  /\ \A code \in Codes : /\ code.version \in Nat \ {0}
                         /\ code.logical_commit_time \in Nat
  /\ Slots \subseteq Nat \ {0}
  /\ MaxInvocations \in Nat

Versions == {code.version : code \in Codes}
Invocations == 1..MaxInvocations

VARIABLES
  mutex_,                 \* the updater that holds it, {} when free
  code_object_metadata_,  \* the code object requests are built for
  update,                 \* updater -> what its call of SetCodeObject is doing
  loaded,                 \* in the sandbox: version -> code, at most one
  loads,                  \* in the sandbox: updaters whose code it has yet to load
  queue,                  \* in the sandbox: invocations not yet run
  cell,                   \* invocation -> status, result and notification
  task                    \* slot -> the execution of a partition's UDF

updateVars == <<mutex_, code_object_metadata_, update, loaded, loads>>
invokeVars == <<queue, cell, task>>

NotNotified == [notified |-> FALSE]
NoTask == [pc |-> "none"]

InitClient ==
  /\ mutex_ = {}
  /\ code_object_metadata_ = DefaultCode
  /\ update = [u \in Updaters |-> "idle"]
  /\ loaded = [v \in Versions |-> IF v = DefaultCode.version THEN {DefaultCode} ELSE {}]
  /\ loads = {}
  /\ queue = {}
  /\ cell = [i \in Invocations |-> NotNotified]
  /\ task = [s \in Slots |-> NoTask]

-----------------------------------------------------------------------------
(* SetCodeObject keeps its mutex until it returns. *)

(* The code is not newer than the one in use. *)
KeepCode(u) ==
  /\ code_object_metadata_.logical_commit_time >= Config[u].logical_commit_time
  /\ update' = [update EXCEPT ![u] = "done"]
  /\ UNCHANGED <<mutex_, loads>>

(* The sandbox takes the code, or refuses the call. *)
LoadCodeObj(u) ==
  /\ code_object_metadata_.logical_commit_time < Config[u].logical_commit_time
  /\ \/ /\ mutex_' = mutex_ \cup {u}
        /\ update' = [update EXCEPT ![u] = "loading"]
        /\ loads' = loads \cup {u}
     \/ /\ update' = [update EXCEPT ![u] = "done"]
        /\ UNCHANGED <<mutex_, loads>>

SetCodeObject(u) ==
  /\ update[u] = "idle"
  /\ mutex_ = {}
  /\ KeepCode(u) \/ LoadCodeObj(u)
  /\ UNCHANGED <<code_object_metadata_, loaded, invokeVars>>

(* The sandbox compiles the code, in time or late, and notifies the call     *)
(* that waits for it, if it still does.                                      *)
RunLoad(u) ==
  /\ u \in loads
  /\ loads' = loads \ {u}
  /\ \E ok \in BOOLEAN :
       /\ loaded' = IF ok THEN [loaded EXCEPT ![Config[u].version] = {Config[u]}] ELSE loaded
       /\ update' = IF update[u] = "loading"
                      THEN [update EXCEPT ![u] = IF ok THEN "loaded" ELSE "failed"] ELSE update
  /\ UNCHANGED <<mutex_, code_object_metadata_, invokeVars>>

Return(u) ==
  /\ mutex_' = mutex_ \ {u}
  /\ update' = [update EXCEPT ![u] = "done"]
  /\ UNCHANGED <<loaded, loads, invokeVars>>

SetMetadata(u) ==
  /\ update[u] = "loaded"
  /\ code_object_metadata_' = Config[u]
  /\ Return(u)

(* The code does not compile. *)
LoadFails(u) ==
  /\ update[u] = "failed"
  /\ UNCHANGED code_object_metadata_
  /\ Return(u)

NoUpdateTimeout(u) == FALSE /\ UNCHANGED <<updateVars, invokeVars>>

SetMetadataOnTimeout(u) ==
  /\ update[u] = "loading"
  /\ code_object_metadata_' = Config[u]
  /\ Return(u)

(* udf_update_timeout_ is over; the sandbox keeps the request. *)
UpdateTimesOut(u) ==
  /\ update[u] = "loading"
  /\ UNCHANGED code_object_metadata_
  /\ Return(u)

UpdateStep(u) == SetMetadata(u) \/ LoadFails(u) \/ UpdateTimesOut(u)

-----------------------------------------------------------------------------
(* ExecuteCode, on a thread of its own when the request has more partitions. *)

StateOfSlot(s) == {s}

(* Status, result and notification of an invocation, on the heap and shared  *)
(* with its callback: not the ones of an invocation that somebody waits for  *)
(* or that the sandbox still has.                                            *)
NewState(s) ==
  LET used == {invocation.state : invocation \in queue} \cup
              {task[t].state : t \in {u \in Slots : task[u].pc = "waiting"}}
  IN {i \in Invocations \ used : \A j \in Invocations \ used : i <= j}

Finish(s, result) ==
  task' = [task EXCEPT ![s] = [pc |-> "done", input |-> @.input, code |-> @.code, result |-> result]]

Failed == [ok |-> FALSE]

(* BuildInvocationRequest reads the version and the handler under the reader *)
(* lock.                                                                     *)
BuildInvocationRequest(s, state) ==
  [input |-> task[s].input, state |-> state,
   version |-> code_object_metadata_.version, handler_name |-> code_object_metadata_.handler_name]

(* The sandbox takes the invocation, or its queue is full.  Code that is     *)
(* replaced before the call reaches the sandbox might as well be replaced    *)
(* while the invocation is in its queue.                                     *)
Execute(s) ==
  /\ task[s].pc = "start"
  /\ mutex_ = {}
  /\ \/ \E state \in NewState(s) :
          /\ queue' = queue \cup {BuildInvocationRequest(s, state)}
          /\ task' = [task EXCEPT ![s] = [pc |-> "waiting", input |-> @.input,
                                          code |-> code_object_metadata_, state |-> state]]
     \/ /\ task' = [task EXCEPT ![s] = [pc |-> "done", input |-> @.input,
                                        code |-> code_object_metadata_, result |-> Failed]]
        /\ UNCHANGED queue
  /\ UNCHANGED <<updateVars, cell>>

(* The sandbox has run the function, or failed to, and calls back; what it   *)
(* writes is freed with it when nobody waits any more.                       *)
Callback(invocation, result) ==
  /\ queue' = queue \ {invocation}
  /\ cell' = IF \E s \in Slots : task[s].pc = "waiting" /\ task[s].state = invocation.state
               THEN [cell EXCEPT ![invocation.state] = [notified |-> TRUE, result |-> result]]
               ELSE cell
  /\ UNCHANGED <<updateVars, task>>

(* The code that runs: the one the sandbox has for the version, when it has  *)
(* the handler.                                                              *)
CodeOf(invocation) ==
  {code \in loaded[invocation.version] : code.handler_name = invocation.handler_name}

Notified(s) ==
  /\ task[s].pc = "waiting"
  /\ cell[task[s].state].notified
  /\ Finish(s, cell[task[s].state].result)
  /\ cell' = [cell EXCEPT ![task[s].state] = NotNotified]
  /\ UNCHANGED <<updateVars, queue>>

(* udf_timeout_ is over; the sandbox may still run the function. *)
ExecutionTimesOut(s) ==
  /\ task[s].pc = "waiting"
  /\ ~cell[task[s].state].notified
  /\ Finish(s, Failed)
  /\ UNCHANGED <<updateVars, queue, cell>>

ExecuteCode(s) ==
  \/ Execute(s)
  \/ Notified(s)
  \/ ExecutionTimesOut(s)

(* BatchExecuteCode: the results of the executions that did not fail. *)
BatchExecuteCode ==
  [s \in {t \in Slots : task[t].pc = "done" /\ task[t].result.ok} |-> task[s].result.output]
=============================================================================
