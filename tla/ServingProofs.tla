---------------------------- MODULE ServingProofs ----------------------------
(* Proofs about the requests and the code updates of GetValuesHandlers and    *)
(* UdfClient, for any requests, code objects, updaters and number of slots.   *)
EXTENDS GetValuesHandlers, TLAPS

(* One call of SetCodeObject at a time is between its check of the commit    *)
(* time and its return; what it has seen loaded stays loaded.                *)
UpdateInv ==
  /\ TypeOK
  /\ update \in [Updaters -> {"idle", "loading", "loaded", "failed", "done"}]
  /\ mutex_ \subseteq Updaters
  /\ loads \subseteq Updaters
  /\ loaded \in [Versions -> SUBSET Codes]
  /\ \A u, w \in mutex_ : u = w
  /\ \A u \in mutex_ : code_object_metadata_.logical_commit_time < Config[u].logical_commit_time
  /\ loaded[code_object_metadata_.version] # {}
  /\ \A u \in Updaters : update[u] = "loaded" => loaded[Config[u].version] # {}

(* A result is about an input and by the code of a version and handler.      *)
IsOwn(result, input, version, handler_name) ==
  result.ok => /\ result.for = input
               /\ result.by.version = version
               /\ result.by.handler_name = handler_name

Waits(s) == task[s].pc = "waiting"

(* The state of an invocation is shared by the execution that waits for it   *)
(* and its callback: what is queued or has been answered under that state is *)
(* what the execution asked for, and without it nothing is notified.         *)
InvokeInv ==
  /\ task = [s \in Slots |-> task[s]]
  /\ cell = [i \in Invocations |-> cell[i]]
  /\ \A s \in Slots : task[s].pc \in {"none", "start", "waiting", "done"}
  /\ \A s \in Slots : Waits(s) => task[s].state \in Invocations
  /\ \A invocation \in queue : invocation.version \in Versions
  /\ \A s \in Slots, invocation \in queue : Waits(s) /\ invocation.state = task[s].state =>
       /\ invocation.input = task[s].input
       /\ invocation.version = task[s].code.version
       /\ invocation.handler_name = task[s].code.handler_name
  /\ \A s \in Slots : Waits(s) /\ cell[task[s].state].notified =>
       IsOwn(cell[task[s].state].result, task[s].input, task[s].code.version, task[s].code.handler_name)
  /\ \A i \in Invocations : cell[i].notified => \E s \in Slots : Waits(s) /\ task[s].state = i
  /\ call.pc # "run" => \A s \in Slots : task[s].pc \in {"none", "done"}
  /\ \A s \in Slots : task[s].pc = "done" =>
       IsOwn(task[s].result, task[s].input, task[s].code.version, task[s].code.handler_name)

ServingInv == UpdateInv /\ InvokeInv

(* The code objects and their versions.                                      *)
LEMMA CodeFacts ==
  /\ \A u \in Updaters : Config[u] \in Codes
  /\ \A code \in Codes : code.version \in Versions
  /\ \A code \in Codes : code.logical_commit_time \in Nat
  /\ DefaultCode \in Codes
BY CodesAssumption DEF Codes, Versions

(* A server begins with the default code and without requests.               *)
LEMMA ServingInit == Init => ServingInv
<1> SUFFICES ASSUME Init PROVE ServingInv
  OBVIOUS
<1>1. /\ mutex_ = {} /\ code_object_metadata_ = DefaultCode
      /\ update = [u \in Updaters |-> "idle"] /\ loads = {} /\ queue = {}
      /\ loaded = [v \in Versions |-> IF v = DefaultCode.version THEN {DefaultCode} ELSE {}]
      /\ cell = [i \in Invocations |-> NotNotified] /\ task = [s \in Slots |-> NoTask]
      /\ call.pc = "idle" /\ NoTask.pc = "none" /\ NotNotified.notified = FALSE
  BY DEF Init, InitClient, NoCall, NoTask, NotNotified
<1>2. /\ \A v \in Versions : loaded[v] = IF v = DefaultCode.version THEN {DefaultCode} ELSE {}
      /\ DefaultCode.version \in Versions /\ DefaultCode \in Codes
  BY <1>1, CodeFacts
<1>3. UpdateInv
  BY <1>1, <1>2 DEF UpdateInv, TypeOK
<1>4. /\ \A s \in Slots : task[s].pc = "none"
      /\ \A i \in Invocations : cell[i].notified = FALSE
  BY <1>1
<1>5. task = [s \in Slots |-> task[s]] /\ cell = [i \in Invocations |-> cell[i]]
  BY <1>1
<1> QED BY <1>1, <1>3, <1>4, <1>5 DEF ServingInv, InvokeInv, Waits

(***************************************************************************)
(* Updates of the code.                                                    *)
(***************************************************************************)

(* The invariants about updates do not depend on the requests.               *)
LEMMA UpdateKeep ==
  ASSUME UpdateInv, UNCHANGED updateVars,
         \A invocation \in queue' : invocation.state \in Invocations,
         call'.pc \in {"idle", "run", "reply"}
  PROVE  UpdateInv'
BY DEF UpdateInv, TypeOK, updateVars

(* What holds for the requests does not depend on the updates.               *)
LEMMA InvokeKeep ==
  ASSUME InvokeInv, UNCHANGED <<queue, cell, task>>, call'.pc = call.pc
  PROVE  InvokeInv'
BY DEF InvokeInv, Waits

(* SetCodeObject compares commit times and hands the code to the sandbox     *)
(* under its mutex, and returns in one of three ways.                        *)
LEMMA UpdateSteps ==
  ASSUME ServingInv, NEW u \in Updaters, SetCodeObject(u) \/ RunLoad(u) \/ UpdateStep(u),
         UNCHANGED handlerVars
  PROVE  ServingInv' /\ code_object_metadata_'.logical_commit_time >= code_object_metadata_.logical_commit_time
<1>0. UpdateInv /\ InvokeInv
  BY DEF ServingInv
<1>1. UNCHANGED <<queue, cell, task, call>>
  BY DEF SetCodeObject, RunLoad, UpdateStep, SetMetadata, LoadFails, UpdateTimesOut, Return, invokeVars, handlerVars
<1>2. InvokeInv'
  BY <1>0, <1>1, InvokeKeep
<1>3. /\ code_object_metadata_ \in Codes /\ code_object_metadata_.logical_commit_time \in Nat
      /\ code_object_metadata_.version \in Versions
      /\ Config[u] \in Codes /\ Config[u].version \in Versions /\ Config[u].logical_commit_time \in Nat
  BY <1>0, CodeFacts DEF UpdateInv, TypeOK
<1>4. CASE SetCodeObject(u)
  <2>1. /\ update[u] = "idle" /\ mutex_ = {}
        /\ UNCHANGED <<code_object_metadata_, loaded>>
    BY <1>4 DEF SetCodeObject
  <2>2. ASSUME update' = [update EXCEPT ![u] = "done"], UNCHANGED <<mutex_, loads>>
        PROVE  UpdateInv'
    <3>1. /\ update' \in [Updaters -> {"idle", "loading", "loaded", "failed", "done"}]
          /\ \A w \in Updaters : update'[w] = IF w = u THEN "done" ELSE update[w]
      BY <1>0, <2>2 DEF UpdateInv
    <3> QED BY <1>0, <1>1, <2>1, <2>2, <3>1 DEF UpdateInv, TypeOK
  <2>3. ASSUME code_object_metadata_.logical_commit_time < Config[u].logical_commit_time,
               mutex_' = mutex_ \cup {u},
               update' = [update EXCEPT ![u] = "loading"],
               loads' = loads \cup {u}
        PROVE  UpdateInv'
    <3>1. /\ update' \in [Updaters -> {"idle", "loading", "loaded", "failed", "done"}]
          /\ \A w \in Updaters : update'[w] = IF w = u THEN "loading" ELSE update[w]
      BY <1>0, <2>3 DEF UpdateInv
    <3>2. mutex_' = {u} /\ loads' \subseteq Updaters
      BY <1>0, <2>1, <2>3 DEF UpdateInv
    <3> QED BY <1>0, <1>1, <2>1, <2>3, <3>1, <3>2 DEF UpdateInv, TypeOK
  <2>4. UpdateInv'
    <3>1. \/ update' = [update EXCEPT ![u] = "done"] /\ UNCHANGED <<mutex_, loads>>
          \/ /\ code_object_metadata_.logical_commit_time < Config[u].logical_commit_time
             /\ mutex_' = mutex_ \cup {u}
             /\ update' = [update EXCEPT ![u] = "loading"]
             /\ loads' = loads \cup {u}
      BY <1>4 DEF SetCodeObject, KeepCode, LoadCodeObj
    <3> QED BY <2>2, <2>3, <3>1
  <2> QED BY <1>2, <1>3, <2>1, <2>4 DEF ServingInv
<1>5. CASE RunLoad(u)
  <2>1. PICK ok \in BOOLEAN :
          /\ loaded' = IF ok THEN [loaded EXCEPT ![Config[u].version] = {Config[u]}] ELSE loaded
          /\ update' = IF update[u] = "loading"
                         THEN [update EXCEPT ![u] = IF ok THEN "loaded" ELSE "failed"] ELSE update
    BY Zenon, <1>5 DEF RunLoad
  <2>2. /\ u \in loads /\ loads' = loads \ {u} /\ UNCHANGED <<mutex_, code_object_metadata_>>
    BY <1>5 DEF RunLoad
  <2>3. /\ loaded' \in [Versions -> SUBSET Codes]
        /\ \A v \in Versions : loaded'[v] = loaded[v] \/ (loaded'[v] = {Config[u]} /\ v = Config[u].version)
        /\ ok => loaded'[Config[u].version] = {Config[u]}
    <3>1. loaded \in [Versions -> SUBSET Codes]
      BY <1>0 DEF UpdateInv
    <3> QED BY <1>3, <2>1, <3>1
  <2>4. /\ update' \in [Updaters -> {"idle", "loading", "loaded", "failed", "done"}]
        /\ \A w \in Updaters : update'[w] \in {"loading", "loaded", "failed"} <=> update[w] \in {"loading", "loaded", "failed"}
        /\ \A w \in Updaters : update'[w] = "loaded" => update[w] = "loaded" \/ (w = u /\ ok)
    <3>1. update \in [Updaters -> {"idle", "loading", "loaded", "failed", "done"}]
      BY <1>0 DEF UpdateInv
    <3> QED BY <2>1, <3>1
  <2>5. \A v \in Versions : loaded[v] # {} => loaded'[v] # {}
    BY <2>3
  <2>6. \A w \in Updaters : Config[w].version \in Versions
    BY CodeFacts
  <2>7. \A w \in Updaters : update'[w] = "loaded" => loaded'[Config[w].version] # {}
    BY Zenon, <1>0, <2>3, <2>4, <2>5, <2>6 DEF UpdateInv
  <2>8. \A v \in Versions : loaded'[v] \subseteq {code \in Codes : code.version = v}
    BY <1>0, <1>3, <2>3 DEF UpdateInv, TypeOK
  <2>9. UpdateInv'
    BY <1>0, <1>1, <1>3, <2>2, <2>3, <2>4, <2>5, <2>7, <2>8 DEF UpdateInv, TypeOK
  <2> QED BY <1>2, <1>3, <2>2, <2>9 DEF ServingInv
<1>6. CASE UpdateStep(u)
  <2>1. /\ update[u] \in {"loading", "loaded", "failed"}
        /\ \/ code_object_metadata_' = Config[u] /\ update[u] = "loaded"
           \/ code_object_metadata_' = code_object_metadata_
        /\ mutex_' = mutex_ \ {u}
        /\ update' = [update EXCEPT ![u] = "done"]
        /\ UNCHANGED <<loaded, loads>>
    BY <1>6 DEF UpdateStep, SetMetadata, LoadFails, UpdateTimesOut, Return
  <2>2. u \in mutex_
    BY <1>0, <2>1 DEF UpdateInv, TypeOK
  <2>3. mutex_' = {} /\ \A w \in Updaters : update'[w] \notin {"loading", "loaded", "failed"}
    <3>1. \A w \in mutex_ : w = u
      BY <1>0, <2>2 DEF UpdateInv
    <3>2. \A w \in Updaters : update[w] \in {"loading", "loaded", "failed"} => w = u
      BY <1>0, <3>1 DEF UpdateInv, TypeOK
    <3> QED BY <1>0, <2>1, <3>1, <3>2 DEF UpdateInv
  <2>4. code_object_metadata_' \in Codes /\ loaded[code_object_metadata_'.version] # {}
    BY <1>0, <1>3, <2>1 DEF UpdateInv
  <2>5. update' \in [Updaters -> {"idle", "loading", "loaded", "failed", "done"}]
    BY <1>0, <2>1 DEF UpdateInv
  <2>6. UpdateInv'
    BY <1>0, <1>1, <2>1, <2>3, <2>4, <2>5 DEF UpdateInv, TypeOK
  <2>7. code_object_metadata_.logical_commit_time < Config[u].logical_commit_time
    BY <1>0, <2>2 DEF UpdateInv
  <2>8. code_object_metadata_'.logical_commit_time >= code_object_metadata_.logical_commit_time
    BY <1>3, <2>1, <2>7
  <2> QED BY <1>2, <2>6, <2>8 DEF ServingInv
<1> QED BY <1>4, <1>5, <1>6

(***************************************************************************)
(* Executions.                                                             *)
(***************************************************************************)

(* Execute takes a state that nobody waits for and the sandbox has not.      *)
LEMMA ExecuteStep ==
  ASSUME ServingInv, NEW s \in Slots, Execute(s), UNCHANGED handlerVars
  PROVE  ServingInv'
<1>0. UpdateInv /\ InvokeInv
  BY DEF ServingInv
<1>1. /\ task[s].pc = "start" /\ UNCHANGED updateVars /\ UNCHANGED <<cell, call>>
  BY DEF Execute, handlerVars
<1>2. call.pc = "run" /\ call.pc \in {"idle", "run", "reply"}
  BY <1>0, <1>1 DEF InvokeInv, UpdateInv, TypeOK
<1> DEFINE code == code_object_metadata_
           input == task[s].input
<1>3. CASE /\ task' = [task EXCEPT ![s] = [pc |-> "done", input |-> input, code |-> code, result |-> Failed]]
           /\ UNCHANGED queue
  <2> DEFINE new == [pc |-> "done", input |-> input, code |-> code, result |-> Failed]
  <2>1. new.pc = "done" /\ new.result.ok = FALSE /\ task' = [task EXCEPT ![s] = new]
    BY <1>3 DEF Failed
  <2> HIDE DEF new
  <2>2. /\ task' = [t \in Slots |-> task'[t]]
        /\ \A t \in Slots : task'[t] = IF t = s THEN new ELSE task[t]
    BY <1>0, <2>1 DEF InvokeInv
  <2>3. \A t \in Slots : Waits(t)' <=> Waits(t)
    BY <1>1, <2>1, <2>2 DEF Waits
  <2>4. \A t \in Slots : Waits(t) => task'[t] = task[t]
    BY <1>1, <2>2 DEF Waits
  <2>5. InvokeInv'
    <3>1. queue' = queue
      BY <1>3
    <3>2. ASSUME NEW t \in Slots, task'[t].pc = "done"
          PROVE  IsOwn(task'[t].result, task'[t].input, task'[t].code.version, task'[t].code.handler_name)
      <4>1. CASE t = s
        BY <2>1, <2>2, <4>1 DEF IsOwn
      <4>2. CASE t # s
        BY <1>0, <2>2, <3>2, <4>2 DEF InvokeInv
      <4> QED BY <4>1, <4>2
    <3>3. \A t \in Slots : task'[t].pc \in {"none", "start", "waiting", "done"}
      BY <1>0, <2>1, <2>2 DEF InvokeInv
    <3>4. /\ \A t \in Slots, invocation \in queue : Waits(t)' /\ invocation.state = task'[t].state =>
               /\ invocation.input = task'[t].input
               /\ invocation.version = task'[t].code.version
               /\ invocation.handler_name = task'[t].code.handler_name
          /\ \A t \in Slots : Waits(t)' => task'[t].state \in Invocations
      BY <1>0, <2>3, <2>4 DEF InvokeInv
    <3>5. ASSUME NEW t \in Slots, Waits(t)', cell[task'[t].state].notified
          PROVE  IsOwn(cell[task'[t].state].result, task'[t].input, task'[t].code.version, task'[t].code.handler_name)
      BY <1>0, <2>3, <2>4, <3>5 DEF InvokeInv
    <3>6. \A j \in Invocations : cell[j].notified => \E t \in Slots : Waits(t)' /\ task'[t].state = j
      BY <1>0, <2>3, <2>4 DEF InvokeInv
    <3> QED BY <1>0, <1>1, <1>2, <2>2, <3>1, <3>2, <3>3, <3>4, <3>5, <3>6 DEF InvokeInv
  <2>6. UpdateInv'
    BY <1>0, <1>1, <1>2, <1>3, UpdateKeep DEF UpdateInv, TypeOK
  <2> QED BY <2>5, <2>6 DEF ServingInv
<1>4. ASSUME NEW i \in NewState(s),
             queue' = queue \cup {BuildInvocationRequest(s, i)},
             task' = [task EXCEPT ![s] = [pc |-> "waiting", input |-> input, code |-> code, state |-> i]]
      PROVE  ServingInv'
  <2> DEFINE new == [pc |-> "waiting", input |-> input, code |-> code, state |-> i]
             request == BuildInvocationRequest(s, i)
  <2>1. /\ new.pc = "waiting" /\ new.input = input /\ new.code = code /\ new.state = i
        /\ task' = [task EXCEPT ![s] = new]
    BY <1>4
  <2>2. /\ request.input = input /\ request.state = i
        /\ request.version = code.version /\ request.handler_name = code.handler_name
        /\ queue' = queue \cup {request}
    BY <1>4 DEF BuildInvocationRequest
  <2>3. /\ i \in Invocations
        /\ \A invocation \in queue : invocation.state # i
        /\ \A t \in Slots : Waits(t) => task[t].state # i
    BY <1>4 DEF NewState, Waits
  <2>4. code.version \in Versions
    BY <1>0, CodeFacts DEF UpdateInv, TypeOK
  <2> HIDE DEF new, request, input, code
  <2>5. /\ task' = [t \in Slots |-> task'[t]]
        /\ \A t \in Slots : task'[t] = IF t = s THEN new ELSE task[t]
    BY <1>0, <2>1 DEF InvokeInv
  <2>6. /\ \A t \in Slots : Waits(t)' <=> Waits(t) \/ t = s
        /\ \A t \in Slots : Waits(t) => task'[t] = task[t]
    BY <1>1, <2>1, <2>5 DEF Waits
  <2>7. ~cell[i].notified
    BY <1>0, <2>3 DEF InvokeInv
  <2>8. InvokeInv'
    <3>1. /\ cell' = [j \in Invocations |-> cell'[j]]
          /\ \A t \in Slots : task'[t].pc \in {"none", "start", "waiting", "done"}
          /\ \A t \in Slots : Waits(t)' => task'[t].state \in Invocations
          /\ \A invocation \in queue' : invocation.version \in Versions
      BY <1>0, <1>1, <2>1, <2>2, <2>3, <2>4, <2>5, <2>6 DEF InvokeInv
    <3>2. ASSUME NEW t \in Slots, NEW invocation \in queue', Waits(t)', invocation.state = task'[t].state
          PROVE  /\ invocation.input = task'[t].input
                 /\ invocation.version = task'[t].code.version
                 /\ invocation.handler_name = task'[t].code.handler_name
      <4>1. CASE t = s
        <5>1. task'[t] = new /\ invocation = request
          BY <2>1, <2>2, <2>3, <2>5, <3>2, <4>1
        <5> QED BY <2>1, <2>2, <5>1
      <4>2. CASE t # s
        <5>1. task'[t] = task[t] /\ Waits(t) /\ invocation \in queue
          BY <2>2, <2>3, <2>6, <3>2, <4>2
        <5> QED BY <1>0, <3>2, <5>1 DEF InvokeInv
      <4> QED BY <4>1, <4>2
    <3>3. ASSUME NEW t \in Slots, Waits(t)', cell[task'[t].state].notified
          PROVE  IsOwn(cell[task'[t].state].result, task'[t].input, task'[t].code.version, task'[t].code.handler_name)
      <4>1. t # s
        BY <2>1, <2>5, <2>7, <3>3
      <4>2. task'[t] = task[t] /\ Waits(t)
        BY <2>6, <3>3, <4>1
      <4> QED BY <1>0, <3>3, <4>2 DEF InvokeInv
    <3>4. \A j \in Invocations : cell[j].notified => \E t \in Slots : Waits(t)' /\ task'[t].state = j
      BY <1>0, <2>6 DEF InvokeInv
    <3>5. \A t \in Slots : task'[t].pc = "done" => task'[t] = task[t]
      BY <2>1, <2>5
    <3> QED BY <1>0, <1>1, <1>2, <2>5, <3>1, <3>2, <3>3, <3>4, <3>5 DEF InvokeInv
  <2>9. UpdateInv'
    <3>1. \A invocation \in queue' : invocation.state \in Invocations
      BY <1>0, <2>2, <2>3 DEF UpdateInv, TypeOK
    <3> QED BY <1>0, <1>1, <1>2, <3>1, UpdateKeep
  <2> QED BY <2>8, <2>9 DEF ServingInv
<1> QED BY <1>3, <1>4 DEF Execute

(* Notified and ExecutionTimesOut end the wait: with the answer under the    *)
(* state of the invocation, or with none.                                    *)
LEMMA FinishStep ==
  ASSUME ServingInv, NEW s \in Slots, Notified(s) \/ ExecutionTimesOut(s), UNCHANGED handlerVars
  PROVE  ServingInv'
<1>0. UpdateInv /\ InvokeInv
  BY DEF ServingInv
<1>1. Waits(s) /\ UNCHANGED updateVars /\ UNCHANGED <<queue, call>>
  BY DEF Notified, ExecutionTimesOut, handlerVars, Waits
<1> DEFINE i == task[s].state
           old == task[s]
<1>2. i \in Invocations /\ call.pc = "run"
  BY <1>0, <1>1 DEF InvokeInv, Waits
<1>3. PICK result : /\ Finish(s, result)
                    /\ IsOwn(result, old.input, old.code.version, old.code.handler_name)
                    /\ \/ cell' = [cell EXCEPT ![i] = NotNotified]
                       \/ cell' = cell /\ ~cell[i].notified
  <2>1. CASE Notified(s)
    BY <1>0, <1>1, <2>1 DEF Notified, InvokeInv
  <2>2. CASE ExecutionTimesOut(s)
    <3>1. IsOwn(Failed, old.input, old.code.version, old.code.handler_name)
      BY DEF IsOwn, Failed
    <3> QED BY <2>2, <3>1 DEF ExecutionTimesOut
  <2> QED BY SMTT(30), <2>1, <2>2
<1> DEFINE new == [pc |-> "done", input |-> old.input, code |-> old.code, result |-> result]
<1>4. /\ new.pc = "done" /\ new.input = old.input /\ new.code = old.code /\ new.result = result
      /\ task' = [task EXCEPT ![s] = new]
  BY <1>3 DEF Finish
<1> HIDE DEF new
<1>5. /\ task' = [t \in Slots |-> task'[t]]
      /\ \A t \in Slots : task'[t] = IF t = s THEN new ELSE task[t]
  BY <1>0, <1>4 DEF InvokeInv
<1>6. /\ \A t \in Slots : Waits(t)' => Waits(t) /\ t # s /\ task'[t] = task[t]
      /\ \A t \in Slots : t # s /\ Waits(t) => Waits(t)' /\ task'[t] = task[t]
  BY <1>4, <1>5 DEF Waits
<1>7. /\ cell' = [j \in Invocations |-> cell'[j]]
      /\ \A j \in Invocations : cell'[j].notified => cell'[j] = cell[j] /\ j # i
  <2>1. cell = [j \in Invocations |-> cell[j]]
    BY <1>0 DEF InvokeInv
  <2>2. CASE cell' = [cell EXCEPT ![i] = NotNotified]
    <3>1. NotNotified.notified = FALSE
      BY DEF NotNotified
    <3> HIDE DEF i
    <3>2. \A j \in Invocations : cell'[j] = IF j = i THEN NotNotified ELSE cell[j]
      BY <2>1, <2>2
    <3>3. cell' = [j \in Invocations |-> cell'[j]]
      BY <2>1, <2>2
    <3> QED BY <3>1, <3>2, <3>3
  <2>3. CASE cell' = cell /\ ~cell[i].notified
    BY <2>1, <2>3
  <2> QED BY <1>3, <2>2, <2>3
<1>8. ASSUME NEW j \in Invocations, cell'[j].notified
      PROVE  \E t \in Slots : Waits(t)' /\ task'[t].state = j
  <2>1. cell[j].notified /\ j # i
    BY <1>7, <1>8
  <2>2. PICK t \in Slots : Waits(t) /\ task[t].state = j
    BY <1>0, <2>1 DEF InvokeInv
  <2>3. t # s
    BY <2>1, <2>2
  <2> QED BY <1>6, <2>2, <2>3
<1>9. ASSUME NEW t \in Slots, Waits(t)', cell'[task'[t].state].notified
      PROVE  IsOwn(cell'[task'[t].state].result, task'[t].input, task'[t].code.version, task'[t].code.handler_name)
  <2>1. Waits(t) /\ task'[t] = task[t] /\ task[t].state \in Invocations
    BY <1>0, <1>6, <1>9 DEF InvokeInv
  <2>2. cell'[task[t].state] = cell[task[t].state]
    BY <1>7, <1>9, <2>1
  <2> QED BY <1>0, <1>9, <2>1, <2>2 DEF InvokeInv
<1>10. ASSUME NEW t \in Slots, task'[t].pc = "done"
       PROVE  IsOwn(task'[t].result, task'[t].input, task'[t].code.version, task'[t].code.handler_name)
  BY SMTT(30), <1>0, <1>3, <1>4, <1>5, <1>10 DEF InvokeInv
<1>11. InvokeInv'
  <2>1. \A t \in Slots : task'[t].pc \in {"none", "start", "waiting", "done"}
    BY <1>0, <1>4, <1>5 DEF InvokeInv
  <2>2. \A t \in Slots, invocation \in queue : Waits(t)' /\ invocation.state = task'[t].state =>
          /\ invocation.input = task'[t].input
          /\ invocation.version = task'[t].code.version
          /\ invocation.handler_name = task'[t].code.handler_name
    BY <1>0, <1>6 DEF InvokeInv
  <2>3. \A t \in Slots : Waits(t)' => task'[t].state \in Invocations
    BY <1>0, <1>6 DEF InvokeInv
  <2> QED BY <1>0, <1>1, <1>2, <1>5, <1>7, <1>8, <1>9, <1>10, <2>1, <2>2, <2>3 DEF InvokeInv
<1>12. UpdateInv'
  BY <1>0, <1>1, UpdateKeep DEF UpdateInv, TypeOK
<1> QED BY <1>11, <1>12 DEF ServingInv

(* Callback writes under the state of the invocation, for those who wait.    *)
LEMMA CallbackStep ==
  ASSUME ServingInv, NEW invocation \in queue, NEW result, Callback(invocation, result),
         IsOwn(result, invocation.input, invocation.version, invocation.handler_name),
         UNCHANGED handlerVars
  PROVE  ServingInv'
<1>0. UpdateInv /\ InvokeInv
  BY DEF ServingInv
<1>1. UNCHANGED updateVars /\ UNCHANGED <<task, call>> /\ queue' \subseteq queue
  BY DEF Callback, handlerVars
<1> DEFINE i == invocation.state
           answer == [notified |-> TRUE, result |-> result]
<1>2. i \in Invocations /\ answer.result = result
  BY <1>0 DEF UpdateInv, TypeOK
<1>3. \A t \in Slots : (Waits(t)' <=> Waits(t)) /\ task'[t] = task[t]
  BY <1>1 DEF Waits
<1>4. cell = [j \in Invocations |-> cell[j]]
  BY <1>0 DEF InvokeInv
<1>5. \/ cell' = cell
      \/ cell' = [cell EXCEPT ![i] = answer] /\ \E t \in Slots : Waits(t) /\ task[t].state = i
  BY DEF Callback, Waits
<1> HIDE DEF answer, i
<1>6. /\ cell' = [j \in Invocations |-> cell'[j]]
      /\ \A j \in Invocations : cell'[j] = cell[j] \/ (j = i /\ cell'[j] = answer /\ \E t \in Slots : Waits(t) /\ task[t].state = i)
  <2>1. CASE cell' = cell
    BY <1>4, <2>1
  <2>2. CASE cell' = [cell EXCEPT ![i] = answer] /\ \E t \in Slots : Waits(t) /\ task[t].state = i
    <3>1. \A j \in Invocations : cell'[j] = IF j = i THEN answer ELSE cell[j]
      BY <1>4, <2>2
    <3>2. cell' = [j \in Invocations |-> cell'[j]]
      BY <1>4, <2>2
    <3> QED BY <2>2, <3>1, <3>2
  <2> QED BY <1>5, <2>1, <2>2
<1>7. ASSUME NEW t \in Slots, Waits(t), cell'[task[t].state].notified
      PROVE  IsOwn(cell'[task[t].state].result, task[t].input, task[t].code.version, task[t].code.handler_name)
  <2>1. task[t].state \in Invocations
    BY <1>0, <1>7 DEF InvokeInv
  <2>2. CASE cell'[task[t].state] = cell[task[t].state]
    BY <1>0, <1>7, <2>2 DEF InvokeInv
  <2>3. CASE task[t].state = i /\ cell'[task[t].state] = answer
    <3>1. /\ invocation.input = task[t].input
          /\ invocation.version = task[t].code.version
          /\ invocation.handler_name = task[t].code.handler_name
      BY <1>0, <1>7, <2>3 DEF InvokeInv, i
    <3> QED BY <1>2, <2>3, <3>1
  <2> QED BY <1>6, <2>1, <2>2, <2>3
<1>8. ASSUME NEW j \in Invocations, cell'[j].notified
      PROVE  \E t \in Slots : Waits(t) /\ task[t].state = j
  BY <1>0, <1>6, <1>8 DEF InvokeInv
<1>9. InvokeInv'
  BY <1>0, <1>1, <1>3, <1>6, <1>7, <1>8 DEF InvokeInv
<1>10. UpdateInv'
  <2>1. \A other \in queue' : other.state \in Invocations
    BY <1>0, <1>1 DEF UpdateInv, TypeOK
  <2>2. call'.pc \in {"idle", "run", "reply"}
    BY <1>0, <1>1 DEF UpdateInv, TypeOK
  <2> QED BY <1>0, <1>1, <2>1, <2>2, UpdateKeep
<1> QED BY <1>9, <1>10 DEF ServingInv

(* The code that runs has the version and the handler of the invocation.     *)
LEMMA RunUdfStep ==
  ASSUME ServingInv, NEW invocation \in queue, RunUdf(invocation)
  PROVE  ServingInv'
<1>1. UNCHANGED handlerVars
  BY DEF RunUdf
<1>2. ASSUME NEW code \in CodeOf(invocation), NEW output,
             Callback(invocation, [ok |-> TRUE, output |-> output, by |-> code, for |-> invocation.input])
      PROVE  ServingInv'
  <2> DEFINE result == [ok |-> TRUE, output |-> output, by |-> code, for |-> invocation.input]
  <2>1. invocation.version \in Versions
    BY DEF ServingInv, InvokeInv
  <2>2. code.version = invocation.version /\ code.handler_name = invocation.handler_name
    BY <1>2, <2>1 DEF CodeOf, ServingInv, UpdateInv, TypeOK
  <2>3. result.for = invocation.input /\ result.by = code
    OBVIOUS
  <2>4. Callback(invocation, result)
    BY <1>2
  <2> HIDE DEF result
  <2>5. IsOwn(result, invocation.input, invocation.version, invocation.handler_name)
    BY <2>2, <2>3 DEF IsOwn
  <2> QED BY <1>1, <2>4, <2>5, CallbackStep
<1>3. CASE Callback(invocation, Failed)
  <2>1. IsOwn(Failed, invocation.input, invocation.version, invocation.handler_name)
    BY DEF IsOwn, Failed
  <2> QED BY <1>1, <1>3, <2>1, CallbackStep
<1> QED BY Zenon, <1>2, <1>3 DEF RunUdf

(***************************************************************************)
(* Requests.                                                               *)
(***************************************************************************)

(* Between requests nobody waits: a request begins with new executions and   *)
(* ends when all of them are done.                                           *)
LEMMA NobodyWaits ==
  ASSUME ServingInv, UNCHANGED updateVars, UNCHANGED <<queue, cell>>,
         call.pc # "run",
         call'.pc \in {"idle", "run", "reply"},
         task' = [s \in Slots |-> task'[s]],
         \A s \in Slots : task'[s] = task[s] \/ task'[s].pc = "none" \/ (call'.pc = "run" /\ task'[s].pc = "start")
  PROVE  ServingInv'
<1>0. UpdateInv /\ InvokeInv
  BY DEF ServingInv
<1>1. \A s \in Slots : task[s].pc \in {"none", "done"} /\ ~Waits(s)
  BY <1>0 DEF InvokeInv, Waits
<1>2. \A s \in Slots : /\ task'[s].pc \in {"none", "start", "done"}
                       /\ task'[s].pc = "start" => call'.pc = "run"
                       /\ task'[s].pc = "done" => task'[s] = task[s]
  BY <1>1
<1>3. \A s \in Slots : ~Waits(s)'
  BY <1>2 DEF Waits
<1>4. \A i \in Invocations : ~cell[i].notified
  BY <1>0, <1>1 DEF InvokeInv
<1>5. InvokeInv'
  BY <1>0, <1>2, <1>3, <1>4 DEF InvokeInv
<1>6. UpdateInv'
  <2>1. \A other \in queue' : other.state \in Invocations
    BY <1>0 DEF UpdateInv, TypeOK
  <2> QED BY <1>0, <2>1, UpdateKeep
<1> QED BY <1>5, <1>6 DEF ServingInv

(* The entry points of both versions.                                        *)
LEMMA BeginSteps ==
  ASSUME ServingInv, Idle, UNCHANGED updateVars, UNCHANGED <<queue, cell>>,
         \/ \E entry, request, content_type, single : Begin(entry, request, content_type, single)
         \/ \E status : Reject(status)
         \/ \E response : /\ call' = [pc |-> "reply", served |-> call.served, entry |-> "V1 cache", response |-> response]
                          /\ UNCHANGED task
  PROVE  ServingInv'
<1>0. call.pc # "run" /\ task = [s \in Slots |-> task[s]]
  BY Zenon DEF Idle, ServingInv, InvokeInv
<1>1. ASSUME NEW entry, NEW request, NEW content_type, NEW single, Begin(entry, request, content_type, single)
      PROVE  ServingInv'
  <2> DEFINE status == Validation([request EXCEPT !.is_pas = single])
  <2>1. /\ call' = [pc |-> IF status = "OK" THEN "run" ELSE "reply", served |-> call.served,
                    entry |-> entry, request |-> request, content_type |-> content_type,
                    single |-> single, status |-> status]
        /\ task' = [s \in Slots |-> IF status = "OK" /\ s \in DOMAIN request.partitions
                                      THEN [pc |-> "start", input |-> Input(request, s)] ELSE NoTask]
    BY Zenon, <1>1 DEF Begin
  <2> HIDE DEF status
  <2>2. call'.pc = IF status = "OK" THEN "run" ELSE "reply"
    BY Zenon, <2>1
  <2>3. \A s : [pc |-> "start", input |-> Input(request, s)].pc = "start"
    BY Zenon
  <2>4. NoTask.pc = "none"
    BY Zenon DEF NoTask
  <2>5. \A s \in Slots : task'[s].pc = "none" \/ (status = "OK" /\ task'[s].pc = "start")
    BY Zenon, <2>1, <2>3, <2>4
  <2>6. task' = [s \in Slots |-> task'[s]]
    BY Zenon, <2>1
  <2> QED BY Zenon, <1>0, <2>2, <2>5, <2>6, NobodyWaits
<1>2. ASSUME UNCHANGED task, call'.pc = "reply"
      PROVE  ServingInv'
  BY Zenon, <1>0, <1>2, NobodyWaits
<1>3. ASSUME NEW status, Reject(status)
      PROVE  ServingInv'
  BY Zenon, <1>2, <1>3 DEF Reject
<1>4. ASSUME NEW response, UNCHANGED task,
             call' = [pc |-> "reply", served |-> call.served, entry |-> "V1 cache", response |-> response]
      PROVE  ServingInv'
  BY Zenon, <1>2, <1>4
<1> QED BY Zenon, <1>1, <1>3, <1>4

(* Every step keeps the invariant.                                           *)
LEMMA ServingNext ==
  ASSUME ServingInv, [Next]_vars
  PROVE  ServingInv' /\ code_object_metadata_'.logical_commit_time >= code_object_metadata_.logical_commit_time
<1>0. code_object_metadata_.logical_commit_time \in Nat
  BY CodeFacts DEF ServingInv, UpdateInv, TypeOK
<1>1. ASSUME UNCHANGED updateVars, ServingInv'
      PROVE  ServingInv' /\ code_object_metadata_'.logical_commit_time >= code_object_metadata_.logical_commit_time
  BY <1>0, <1>1 DEF updateVars
<1>2. ASSUME NEW u \in Updaters, SetCodeObject(u) \/ RunLoad(u) \/ UpdateStep(u), UNCHANGED handlerVars
      PROVE  ServingInv' /\ code_object_metadata_'.logical_commit_time >= code_object_metadata_.logical_commit_time
  BY SMTT(30), <1>2, UpdateSteps
<1>3. ASSUME NEW s \in Slots, ExecuteCode(s), UNCHANGED handlerVars
      PROVE  ServingInv' /\ UNCHANGED updateVars
  BY <1>3, ExecuteStep, FinishStep DEF ExecuteCode, Execute, Notified, ExecutionTimesOut
<1>4. ASSUME NEW invocation \in queue, RunUdf(invocation)
      PROVE  ServingInv' /\ UNCHANGED updateVars
  <2>1. UNCHANGED updateVars
    BY Zenon, <1>4 DEF RunUdf, Callback
  <2> QED BY <1>4, <2>1, RunUdfStep
<1>5. ASSUME NEW request, NEW header, GetValues(request, header)
      PROVE  ServingInv' /\ UNCHANGED updateVars
  BY Zenon, <1>5, BeginSteps DEF GetValues
<1>6. ASSUME NEW request, NEW body, NEW content_type, GetValuesBody(request, body, content_type)
      PROVE  ServingInv' /\ UNCHANGED updateVars
  BY Zenon, <1>6, BeginSteps DEF GetValuesBody
<1>7. CASE DecryptRequestFails
  <2>1. ServingInv' /\ UNCHANGED updateVars
    BY Zenon, <1>7, BeginSteps DEF DecryptRequestFails
  <2> QED BY <1>1, <2>1
<1>8. ASSUME NEW v1_request, CallV2Handler(v1_request) \/ GetValuesV1(v1_request)
      PROVE  ServingInv' /\ UNCHANGED updateVars
  BY Zenon, <1>8, BeginSteps DEF CallV2Handler, GetValuesV1, invokeVars
<1>9. CASE Collect
  <2>1. /\ call.pc = "run" /\ UNCHANGED updateVars /\ UNCHANGED <<queue, cell, task>>
        /\ \A s \in Slots : task[s].pc \in {"none", "done"}
        /\ call' = [call EXCEPT !.pc = "reply"]
    BY <1>9 DEF Collect, invokeVars
  <2>2. InvokeInv'
    BY <2>1 DEF ServingInv, InvokeInv, Waits
  <2>3. call'.pc \in {"idle", "run", "reply"} /\ UpdateInv /\ \A other \in queue' : other.state \in Invocations
    BY <2>1 DEF ServingInv, UpdateInv, TypeOK
  <2>4. UpdateInv'
    BY <2>1, <2>3, UpdateKeep
  <2> QED BY <1>1, <2>1, <2>2, <2>4 DEF ServingInv
<1>10. CASE FinishCall
  <2>1. /\ call.pc # "run" /\ UNCHANGED updateVars /\ UNCHANGED <<queue, cell>>
        /\ call'.pc = "idle" /\ task' = [s \in Slots |-> NoTask]
    BY <1>10 DEF FinishCall, NoCall
  <2>2. /\ task' = [s \in Slots |-> task'[s]]
        /\ \A s \in Slots : task'[s].pc = "none"
    BY <2>1 DEF NoTask
  <2>3. ServingInv'
    BY <2>1, <2>2, NobodyWaits
  <2> QED BY <1>1, <2>1, <2>3
<1>11. CASE UNCHANGED vars
  <2>1. UNCHANGED updateVars /\ UNCHANGED <<queue, cell, task, call>>
    BY SMTT(30), <1>11 DEF vars, invokeVars, handlerVars
  <2>2. InvokeInv' /\ UpdateInv'
    BY <2>1, InvokeKeep, UpdateKeep DEF ServingInv, UpdateInv, TypeOK
  <2> QED BY <1>1, <2>1, <2>2 DEF ServingInv
<1> QED BY <1>1, <1>2, <1>3, <1>4, <1>5, <1>6, <1>7, <1>8, <1>9, <1>10, <1>11
    DEF Next, GetValuesHttp, ObliviousGetValues

(* The inductive invariant holds in every state.                             *)
LEMMA ServingInvHolds == Spec => []ServingInv
<1>1. Init => ServingInv
  BY ServingInit
<1>2. ServingInv /\ [Next]_vars => ServingInv'
  BY ServingNext
<1> QED BY <1>1, <1>2, PTL DEF Spec

(* The types hold, and the mutex is held by the calls that wait for the      *)
(* sandbox and by no other.                                                  *)
THEOREM ServingTypesHold == Spec => []TypeOK
<1>1. ServingInv => TypeOK
  BY SMTT(30) DEF ServingInv, UpdateInv
<1> QED BY <1>1, ServingInvHolds, PTL

(* UdfClientImpl::ExecuteCode: a late answer to an execution that timed out  *)
(* never becomes the answer of another one, for any requests and updates.    *)
THEOREM AnswersAreAlwaysOwn == Spec => []AnswersAreOwn
<1>1. ServingInv => AnswersAreOwn
  BY DEF ServingInv, InvokeInv, IsOwn, AnswersAreOwn
<1> QED BY <1>1, ServingInvHolds, PTL

(* UdfClientImpl::SetCodeObject: requests are built for code that the        *)
(* sandbox has loaded, whatever updates time out or fail.                    *)
THEOREM ServingCodeIsAlwaysLoaded == Spec => []ServingCodeIsLoaded
<1>1. ServingInv => ServingCodeIsLoaded
  <2> SUFFICES ASSUME ServingInv PROVE ServingCodeIsLoaded
    OBVIOUS
  <2> DEFINE current == code_object_metadata_
  <2>1. current \in Codes /\ current.version \in Versions /\ loaded[current.version] # {}
    BY CodeFacts DEF ServingInv, UpdateInv, TypeOK
  <2>2. loaded[current.version] \subseteq {code \in Codes : code.version = current.version}
    BY <2>1 DEF ServingInv, UpdateInv, TypeOK
  <2> HIDE DEF current
  <2>3. ASSUME \A code \in Codes : code.version = current.version => code = current
        PROVE  loaded[current.version] = {current}
    BY <2>1, <2>2, <2>3
  <2> QED BY <2>1, <2>3 DEF ServingCodeIsLoaded, current
<1> QED BY <1>1, ServingInvHolds, PTL

(* SetCodeObject never replaces the code object by an older one.             *)
THEOREM CommitTimesAlwaysGrow == Spec => CommitTimesGrow
<1>1. ServingInv /\ [Next]_vars =>
        [code_object_metadata_'.logical_commit_time >= code_object_metadata_.logical_commit_time]_vars
  BY ServingNext
<1> QED BY <1>1, ServingInvHolds, PTL DEF Spec, CommitTimesGrow
=============================================================================
