----------------------------- MODULE RemoteCall -----------------------------
(***************************************************************************)
(* What the cloud middleware promises to a gateway client that calls a     *)
(* method of an agent (ExecuteOnDevice, StoreOnDevice, ...).               *)
(*                                                                         *)
(* A call is made for one device.  It returns once, with one of three      *)
(* results:                                                                *)
(*   "ok"       the device answered: its agent has run the command;        *)
(*   "refused"  the command was never handed to a stream, so no agent has  *)
(*              run it and none ever will;                                 *)
(*   "failed"   nothing is known: the agent may have run the command, and  *)
(*              may still run it after the call has returned.              *)
(* Whatever the result, a command is run at most once, and only by the     *)
(* device that the call names.  (Both "refused" and "failed" reach the     *)
(* client as the status Unavailable; the text tells them apart, except for *)
(* a deadline, which may be either.)                                       *)
(***************************************************************************)
EXTENDS Naturals

CONSTANTS Devices, Requests, NoDevice

VARIABLES
    call,    \* state of each call
    target,  \* the device each call names
    ran      \* ran[r][d]: how many times the agent of d ran command r

vars == <<call, target, ran>>

CallStates == {"idle", "open", "ok", "refused", "failed"}

NeverRan == [d \in Devices |-> 0]

Init ==
    /\ call = [r \in Requests |-> "idle"]
    /\ target = [r \in Requests |-> NoDevice]
    /\ ran = [r \in Requests |-> NeverRan]

Invoke(r, d) ==
    /\ call[r] = "idle"
    /\ call' = [call EXCEPT ![r] = "open"]
    /\ target' = [target EXCEPT ![r] = d]
    /\ UNCHANGED ran

InvokeRefused(r, d) ==
    /\ call[r] = "idle"
    /\ call' = [call EXCEPT ![r] = "refused"]
    /\ target' = [target EXCEPT ![r] = d]
    /\ UNCHANGED ran

\* A call that has failed may still reach the agent; a refused one may not.
Run(r) ==
    /\ call[r] \in {"open", "failed"}
    /\ ran[r] = NeverRan
    /\ ran' = [ran EXCEPT ![r] = [NeverRan EXCEPT ![target[r]] = 1]]
    /\ UNCHANGED <<call, target>>

ReturnOk(r) ==
    /\ call[r] = "open"
    /\ ran[r] = [NeverRan EXCEPT ![target[r]] = 1]
    /\ call' = [call EXCEPT ![r] = "ok"]
    /\ UNCHANGED <<target, ran>>

ReturnRefused(r) ==
    /\ call[r] = "open"
    /\ ran[r] = NeverRan
    /\ call' = [call EXCEPT ![r] = "refused"]
    /\ UNCHANGED <<target, ran>>

ReturnFailed(r) ==
    /\ call[r] = "open"
    /\ call' = [call EXCEPT ![r] = "failed"]
    /\ UNCHANGED <<target, ran>>

Next ==
    \E r \in Requests :
        \/ \E d \in Devices : Invoke(r, d) \/ InvokeRefused(r, d)
        \/ Run(r)
        \/ ReturnOk(r)
        \/ ReturnRefused(r)
        \/ ReturnFailed(r)

Spec == Init /\ [][Next]_vars
=============================================================================
