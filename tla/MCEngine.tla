------------------------------ MODULE MCEngine ------------------------------
(***************************************************************************)
(* Values for the constants of Engine in the TLC configurations.           *)
(***************************************************************************)
EXTENDS Engine

\* Every client writes every key.
SharedKeys == [c \in Clients |-> Keys]
\* Two clients with keys of their own, as the goroutines of cmd/ascentdb/main.go.
OwnKeys == [c \in Clients |-> IF c = "c1" THEN {1} ELSE Keys \ {1}]
=============================================================================
