------------------------------ MODULE MCDeltaFiles ------------------------------
(***************************************************************************)
(* For TLC, the two programs that watch a bucket for delta files: the      *)
(* server (DataOrchestrator) and the request simulation                    *)
(* (RequestSimulation: up to two delta files, two shards, two workers, two *)
(* publisher threads).  A behaviour is one of either; `which` tells and    *)
(* never changes.  The variables of the other have values in which nothing *)
(* it does is enabled.                                                     *)
(***************************************************************************)
EXTENDS MCDataOrchestrator

CONSTANTS
  Shards, Capacity, FillQps, ChunkSize, Limit, Workers, Publishers, MaxFaults, MaxBatches

VARIABLES
  which,
  setup, main, gen, pub, syn, queue, limiter, worker, collector, total, writer, messages,
  engine, faults

Setup(f, s, w, p, files) ==
  [feeds |-> f, synthetic |-> s, workers |-> w, publishers |-> p, files |-> files]

\* Requests from a file and from the generator; updates of which some fill the file of
\* their shard; updates in files that are never full.
MCSetups ==
  {Setup("gen", TRUE, Workers, {}, <<<<"a">>>>),
   Setup("pub", TRUE, {}, Publishers, <<<<"a", "b", "a">>, <<"a", "a">>>>),
   Setup("pub", FALSE, {}, Publishers, <<<<"a", "a">>, <<"b">>>>)}

S == INSTANCE RequestSimulation WITH
       Setups <- MCSetups, ShardOf <- [k \in {"a", "b"} |-> IF k = "a" THEN 1 ELSE 2]

simulationVars == <<setup, main, gen, pub, syn, queue, limiter, worker, collector, total,
                    writer, messages, engine, faults>>

NoServer ==
  /\ blobs = MaxFile /\ notifications = {} /\ expiring_flag = FALSE
  /\ prefix_start_after_map = [p \in Allowed |-> 0] /\ watch = NotStarted
  /\ should_stop_ = FALSE /\ calls = <<>> /\ snapshot = blobs /\ phase = "none"
  /\ todo = {} /\ listed = {} /\ ending_delta_files = [p \in Allowed |-> 0]
  /\ loader = [pc |-> "none"] /\ destructor = "returned" /\ applied = [p \in Allowed |-> {}]

NoSimulation ==
  /\ setup = Setup("none", FALSE, {}, {}, <<>>) /\ main = "stopped"
  /\ gen = S!Loader /\ pub = S!Loader /\ syn = [pc |-> "off", stop |-> TRUE, batches |-> 0]
  /\ queue = <<>> /\ limiter = [permits |-> 0, owner |-> S!Nobody]
  /\ worker = [w \in Workers |-> [pc |-> "off", stop |-> TRUE]]
  /\ collector = [pc |-> "off", stop |-> TRUE, ok |-> 0, read |-> 0]
  /\ total = S!NoTotals /\ writer = [s \in Shards |-> S!NewWriter] /\ messages = <<>>
  /\ engine = [stop |-> TRUE, pc |-> "off", spawned |-> {}, joined |-> {}, done |-> {},
               holds |-> [p \in Publishers |-> {}]]
  /\ faults = 0

MCInit ==
  \/ which = "server" /\ Init /\ NoSimulation
  \/ which = "simulation" /\ NoServer /\ S!Init

ServerNext == which = "server" /\ Next /\ UNCHANGED <<which, simulationVars>>

SimulationNext == which = "simulation" /\ S!Next /\ UNCHANGED <<which, vars>>

MCSpec ==
  /\ MCInit /\ [][ServerNext \/ SimulationNext]_<<which, vars, simulationVars>>
  /\ OrchestratorFairness /\ S!Fairness

\* RequestSimulation!EverythingIsAccounted: requests, records and messages are passed on
\* once, or given up where the code gives them up.
EverythingIsAccounted == S!EverythingIsAccounted

\* RequestSimulation!StopReturns: RequestSimulationSystem::Stop returns.
StopReturns == S!StopReturns
=============================================================================
