----------------------------- MODULE RpcPromise -----------------------------
(***************************************************************************)
(* What a remote call promises the thread that makes it, in whichever      *)
(* language the interface is written: the call always returns, and it      *)
(* returns OK only with the response of that very call.                    *)
(* "Sends an RPC_CALL packet, waits for response and returns the response  *)
(* in the provided buffer" - ServiceInterfaceBase.hpp:48.                  *)
(***************************************************************************)
CONSTANT Callers

VARIABLES
  stage,   \* of each caller's call
  result   \* what its last call returned

vars == <<stage, result>>

Stage == {"idle", "calling", "answered", "failed"}

Result == {"none", "OK", "ERROR", "TIMEOUT"}

TypeOK == stage \in [Callers -> Stage] /\ result \in [Callers -> Result]

Init ==
  /\ stage = [c \in Callers |-> "idle"]
  /\ result = [c \in Callers |-> "none"]

Call(c) ==
  /\ stage[c] = "idle"
  /\ stage' = [stage EXCEPT ![c] = "calling"]
  /\ result' = [result EXCEPT ![c] = "none"]

\* Refused on the spot: there is no service to send the call to.
Refuse(c) ==
  /\ stage[c] = "idle"
  /\ result' = [result EXCEPT ![c] = "ERROR"]
  /\ UNCHANGED stage

\* The response of this call arrives, or what ends it without one.
Answer(c) ==
  /\ stage[c] = "calling"
  /\ \E s \in {"answered", "failed"} : stage' = [stage EXCEPT ![c] = s]
  /\ UNCHANGED result

Return(c) ==
  /\ stage[c] # "idle"
  /\ stage' = [stage EXCEPT ![c] = "idle"]
  /\ \/ stage[c] = "answered" /\ result' = [result EXCEPT ![c] = "OK"]
     \/ stage[c] = "calling" /\ result' = [result EXCEPT ![c] = "TIMEOUT"]
     \/ result' = [result EXCEPT ![c] = "ERROR"]

Next == \E c \in Callers : Call(c) \/ Refuse(c) \/ Answer(c) \/ Return(c)

Spec == Init /\ [][Next]_vars /\ \A c \in Callers : WF_vars(Return(c))
=============================================================================
