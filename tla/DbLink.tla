------------------------------- MODULE DbLink --------------------------------
(***************************************************************************)
(* One libpqxx connection to PostgreSQL, which DetectionDb, AlertStore and *)
(* P25Db each own and repair in the same way: a transaction on a broken    *)
(* connection throws broken_connection, and only that exception makes the  *)
(* owner open another one.  The server may go away and come back.          *)
(***************************************************************************)
EXTENDS Naturals

CONSTANTS MaxOutages,  \* bound: outages of the server
          MaxErrors    \* bound: transactions that fail on a live connection

ASSUME LinkAssumption == MaxOutages \in Nat /\ MaxErrors \in Nat

VARIABLES serverUp,    \* the server accepts connections
          connected,   \* conn_ is usable
          outages, errors,
          stale        \* history: transactions lost with the server up, since its last fault

link == <<serverUp, connected, outages, errors, stale>>

LinkInit == serverUp = TRUE /\ connected = TRUE /\ outages = 0 /\ errors = 0 /\ stale = 0

LinkTypeOK ==
  /\ {serverUp, connected} \subseteq BOOLEAN
  /\ outages \in 0..MaxOutages /\ errors \in 0..MaxErrors /\ stale \in Nat

-----------------------------------------------------------------------------
(* The server (external).                                                   *)

Outage ==
  /\ serverUp /\ outages < MaxOutages
  /\ serverUp' = FALSE /\ connected' = FALSE /\ outages' = outages + 1 /\ stale' = 0
  /\ UNCHANGED errors

Recovery ==
  /\ ~serverUp /\ serverUp' = TRUE /\ stale' = 0
  /\ UNCHANGED <<connected, outages, errors>>

-----------------------------------------------------------------------------
(* How a transaction ends.                                                  *)

Commits == connected /\ UNCHANGED link

(* A statement fails: the transaction is rolled back, the connection is fine. *)
StatementFails ==
  /\ connected /\ errors < MaxErrors /\ errors' = errors + 1 /\ stale' = 0
  /\ UNCHANGED <<serverUp, connected, outages>>

(* The connection is lost in commit(): nobody knows whether it took place, *)
(* and the exception is not broken_connection.                             *)
CommitInDoubt ==
  /\ connected /\ errors < MaxErrors /\ errors' = errors + 1 /\ stale' = 0
  /\ connected' = FALSE
  /\ UNCHANGED <<serverUp, outages>>

(* broken_connection; the owner opens another connection, if it does at all. *)
LinkBroken(reconnects) ==
  /\ ~connected
  /\ connected' = (reconnects /\ serverUp)
  /\ stale' = IF serverUp THEN stale + 1 ELSE stale
  /\ UNCHANGED <<serverUp, outages, errors>>
=============================================================================
