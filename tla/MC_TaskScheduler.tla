-------------------------- MODULE MC_TaskScheduler --------------------------
(* Three loaded plugins and every dependency graph over them and one name  *)
(* that is not loaded: cycles, chains, self-dependencies.                  *)
EXTENDS TaskScheduler

CONSTANTS file_type, file_hashes, other, unloaded

MCPlugins == {file_type, file_hashes, other}
MCMandatory == {file_type, file_hashes}
MCUnknown == {unloaded}
============================================================================
