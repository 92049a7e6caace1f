------------------------------ MODULE MCShared ------------------------------
(* TLC instance of the programs whose handlers share one piece of state.   *)
(* They are separate programs: in a behaviour one of them runs, and the    *)
(* others stay as they were before their start.                            *)
EXTENDS UserRegistry, UserRepo, ConnectionPool, TrackMetrics, TokenLife

VARIABLE program

Programs == {"error-handling", "dependency-injection", "postgres",
             "prometheus-metrics", "jwt"}
vars == <<program, registryVars, repoVars, poolVars, metricsVars, tokenVars>>

Init == /\ program \in Programs
        /\ RegistryInit /\ RepoInit /\ PoolInit /\ MetricsInit /\ TokenInit
        /\ program # "postgres" => driver = "sqlx"
        /\ program # "jwt" => secret = Unset

Next ==
  /\ UNCHANGED program
  /\ \/ /\ program = "error-handling" /\ RegistryNext
        /\ UNCHANGED <<repoVars, poolVars, metricsVars, tokenVars>>
     \/ /\ program = "dependency-injection" /\ RepoNext
        /\ UNCHANGED <<registryVars, poolVars, metricsVars, tokenVars>>
     \/ /\ program = "postgres" /\ PoolNext
        /\ UNCHANGED <<registryVars, repoVars, metricsVars, tokenVars>>
     \/ /\ program = "prometheus-metrics" /\ MetricsNext
        /\ UNCHANGED <<registryVars, repoVars, poolVars, tokenVars>>
     \/ /\ program = "jwt" /\ TokenNext
        /\ UNCHANGED <<registryVars, repoVars, poolVars, metricsVars>>

Spec == Init /\ [][Next]_vars /\ PoolFairness

\* The variables of all five programs have their types.
TypeOK == RegistryTypeOK /\ RepoTypeOK /\ PoolTypeOK /\ MetricsTypeOK /\ TokenTypeOK
=============================================================================
