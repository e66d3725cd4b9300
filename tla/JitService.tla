----------------------------- MODULE JitService -----------------------------
(***************************************************************************)
(* What class Pljit promises to its clients, without locks, passes or      *)
(* streams: a registered function has no verdict until somebody calls it;  *)
(* one of the pending calls settles the verdict, which is final; and every *)
(* call is answered in accordance with the verdict.                        *)
(***************************************************************************)
EXTENDS Naturals

CONSTANTS Callers, Handles

VARIABLES
    capacity,  \* number of registered functions
    verdict,   \* handle -> "unset" | "success" | "failure"
    asked,     \* caller -> the set of the handle it is calling, or {}
    answer     \* caller -> how its last call ended

vars == <<capacity, verdict, asked, answer>>

Init ==
    /\ capacity = 0
    /\ verdict = [f \in Handles |-> "unset"]
    /\ asked = [c \in Callers |-> {}]
    /\ answer = [c \in Callers |-> "none"]

Register ==
    /\ \A c \in Callers : asked[c] = {}
    /\ capacity \in Handles
    /\ capacity' = capacity + 1
    /\ UNCHANGED <<verdict, asked, answer>>

Ask(c, f) ==
    /\ asked[c] = {}
    /\ f < capacity
    /\ asked' = [asked EXCEPT ![c] = {f}]
    /\ answer' = [answer EXCEPT ![c] = "none"]
    /\ UNCHANGED <<capacity, verdict>>

\* Compilation happens inside a call and only once.
Settle(f, v) ==
    /\ \E c \in Callers : f \in asked[c]
    /\ verdict[f] = "unset"
    /\ verdict' = [verdict EXCEPT ![f] = v]
    /\ UNCHANGED <<capacity, asked, answer>>

Answers(f) ==
    CASE verdict[f] = "success" -> {"value", "runtime"}
      [] verdict[f] = "failure" -> {"rejected"}
      [] OTHER -> {}

Answer(c) ==
    /\ \E f \in asked[c] : \E a \in Answers(f) :
          answer' = [answer EXCEPT ![c] = a]
    /\ asked' = [asked EXCEPT ![c] = {}]
    /\ UNCHANGED <<capacity, verdict>>

Next ==
    \/ Register
    \/ \E c \in Callers, f \in Handles : Ask(c, f)
    \/ \E f \in Handles, v \in {"success", "failure"} : Settle(f, v)
    \/ \E c \in Callers : Answer(c)

Spec == Init /\ [][Next]_vars
=============================================================================
