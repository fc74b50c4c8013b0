------------------------- MODULE ConfirmedCommands -------------------------
(***************************************************************************)
(* What a CbusCniConnection promises the runtime that owns it, without     *)
(* tags, sockets, locks or tasks: commands are sent only while the         *)
(* connection is announced as up, at most Limit of them are unconfirmed at *)
(* any time, and a call reports success only if the CNI accepted its own   *)
(* command.  It may report an error at any moment, even for a command the  *)
(* CNI accepted (a timeout races the confirmation).                        *)
(***************************************************************************)
EXTENDS Integers, FiniteSets

CONSTANTS Callers, Limit

VARIABLES
  up,       \* what the availability callback last said
  phase,    \* per caller: "idle", "waiting" to send, "sent"
  answer,   \* what the CNI said of the caller's last command
  outcome   \* what the caller's last call reported

promiseVars == <<up, phase, answer, outcome>>

Sent == {s \in Callers : phase[s] = "sent"}

PInit ==
  /\ up = FALSE
  /\ phase = [s \in Callers |-> "idle"]
  /\ answer = [s \in Callers |-> "none"]
  /\ outcome = [s \in Callers |-> "none"]

Request(s) ==
  /\ up
  /\ phase[s] = "idle"
  /\ phase' = [phase EXCEPT ![s] = "waiting"]
  /\ answer' = [answer EXCEPT ![s] = "none"]
  /\ outcome' = [outcome EXCEPT ![s] = "none"]
  /\ UNCHANGED up

Transmit(s) ==
  /\ up
  /\ phase[s] = "waiting"
  /\ Cardinality(Sent) < Limit
  /\ phase' = [phase EXCEPT ![s] = "sent"]
  /\ UNCHANGED <<up, answer, outcome>>

\* The CNI answers a command once, while the connection is up.
Judge(s) ==
  /\ up
  /\ phase[s] = "sent"
  /\ answer[s] = "none"
  /\ \E a \in {"accepted", "rejected"} : answer' = [answer EXCEPT ![s] = a]
  /\ UNCHANGED <<up, phase, outcome>>

Succeed(s) ==
  /\ phase[s] = "sent"
  /\ answer[s] = "accepted"
  /\ phase' = [phase EXCEPT ![s] = "idle"]
  /\ outcome' = [outcome EXCEPT ![s] = "ok"]
  /\ UNCHANGED <<up, answer>>

Fail(s) ==
  /\ phase[s] # "idle"
  /\ phase' = [phase EXCEPT ![s] = "idle"]
  /\ outcome' = [outcome EXCEPT ![s] = "error"]
  /\ UNCHANGED <<up, answer>>

\* The connection comes up or goes down; calls in progress notice later.
Flip == up' = ~up /\ UNCHANGED <<phase, answer, outcome>>

PNext ==
  \/ Flip
  \/ \E s \in Callers :
       Request(s) \/ Transmit(s) \/ Judge(s) \/ Succeed(s) \/ Fail(s)

Promise == PInit /\ [][PNext]_promiseVars
=============================================================================
