------------------------------- MODULE MCCaches -------------------------------
(***************************************************************************)
(* The maps of the cache for TLC.  The maps share no state and no lock, so *)
(* a behaviour is one of KeyValueCache, of KeyValueSetCache or of          *)
(* UIntValueSetCache; `which` tells, so that the states are the union of   *)
(* the three.                                                              *)
(***************************************************************************)
EXTENDS KeyValueCache, KeyValueSetCache, UIntValueSetCache

CONSTANTS t1, t2, k1, k2, p1, p2, v1, v2

VARIABLE which

(* k1 is carried by two prefixes, as when realtime updates (prefix "") and   *)
(* the files of a directory both mention it.                                 *)
SharedRoutes == {<<k1, p1>>, <<k1, p2>>, <<k2, p1>>}

Times3 == 0..3

OneRoute == {<<k1, p1>>, <<k2, p1>>}

allVars == <<which, vars, setVars, uintCacheVars>>

MCInit ==
  /\ which \in {"keys", "sets", "uint_sets"}
  /\ Init /\ SetInit /\ UIntCacheInit

KeysNext ==
  which = "keys" /\ Next /\ UNCHANGED <<which, setVars, uintCacheVars>>

SetsNext ==
  which = "sets" /\ SetNext /\ UNCHANGED <<which, vars, uintCacheVars>>

UIntSetsNext ==
  which = "uint_sets" /\ UIntCacheNext /\ UNCHANGED <<which, vars, setVars>>

MCSpec ==
  /\ MCInit /\ [][KeysNext \/ SetsNext \/ UIntSetsNext]_allVars
  /\ \A th \in Threads : SF_setVars(which = "sets" /\ Continue(th))
  /\ \A th \in UIntThreads : SF_uintCacheVars(which = "uint_sets" /\ UIntContinue(th))

\* The type invariants of the three.
MCTypeOK == TypeOK /\ SetTypeOK /\ UIntCacheTypeOK

\* KeyValueSetCache!SetOperationsFinish and UIntValueSetCache!UIntOperationsFinish: no
\* operation on the string sets or on the integer sets waits for ever.
OperationsFinish == SetOperationsFinish /\ UIntOperationsFinish
=============================================================================
