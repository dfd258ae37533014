----------------------------- MODULE RemoteCall -----------------------------
(***************************************************************************)
(* What a remote call promises its caller, whatever the connections and    *)
(* relays in between (spec section 4.2 and the call correlation property   *)
(* of section 8).  A call is issued once; its request is run by a handler  *)
(* at most once and only after it was issued; the caller's answer is      *)
(* final, and it is a success only if the request did run.  A pending     *)
(* call is eventually answered, by a response or by a failure.  A call     *)
(* that could not even be sent fails at once.                              *)
(***************************************************************************)
EXTENDS Naturals

CONSTANTS Calls

VARIABLES
    callSt,     \* callSt[c]: what the caller of c sees
    runs        \* runs[c]: how many times a handler ran the request of c

vars == <<callSt, runs>>

CallStates == {"idle", "pending", "ok", "failed"}

TypeOK ==
    /\ callSt \in [Calls -> CallStates]
    /\ runs \in [Calls -> 0..1]

Init ==
    /\ callSt = [c \in Calls |-> "idle"]
    /\ runs = [c \in Calls |-> 0]

\* The request left for the remote; the caller waits.
Start(c) ==
    /\ callSt[c] = "idle"
    /\ callSt' = [callSt EXCEPT ![c] = "pending"]
    /\ UNCHANGED runs

\* The request could not be sent: the caller is told at once.
FailToSend(c) ==
    /\ callSt[c] = "idle"
    /\ callSt' = [callSt EXCEPT ![c] = "failed"]
    /\ UNCHANGED runs

\* The handler of the service runs the request, once.  It may still run
\* after the caller has stopped waiting (the answer is then lost).
Run(c) ==
    /\ callSt[c] \in {"pending", "failed"} /\ runs[c] = 0
    /\ runs' = [runs EXCEPT ![c] = 1]
    /\ UNCHANGED callSt

\* The caller gets the response to its request.
Succeed(c) ==
    /\ callSt[c] = "pending" /\ runs[c] = 1
    /\ callSt' = [callSt EXCEPT ![c] = "ok"]
    /\ UNCHANGED runs

\* The caller gets an error: a remote ConnectionError or a lost connection.
Fail(c) ==
    /\ callSt[c] = "pending"
    /\ callSt' = [callSt EXCEPT ![c] = "failed"]
    /\ UNCHANGED runs

Next ==
    \E c \in Calls : Start(c) \/ FailToSend(c) \/ Run(c) \/ Succeed(c) \/ Fail(c)

\* No pending call is left waiting forever.
Spec == Init /\ [][Next]_vars /\ \A c \in Calls : WF_vars(Succeed(c) \/ Fail(c))
=============================================================================
