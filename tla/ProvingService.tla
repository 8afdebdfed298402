--------------------------- MODULE ProvingService ---------------------------
(***************************************************************************)
(* What the provers of this repository (vega_mc_zkp.rs, vega_sc_zkp.rs)    *)
(* promise a client that prepares once and proves many times.  A prepared  *)
(* state is no more than a summary of the calls that made it: whatever     *)
(* blinds, caches and buffers it carries, a prove on it either fails, and  *)
(* takes the state with it, or delivers a proof that verify accepts        *)
(* exactly when Accepted says so, and for which it then returns the values *)
(* of the requested input.  Every request is answered.                     *)
(***************************************************************************)
CONSTANTS
  Slots,              \* the places where the client keeps prepared states
  Keys, Inputs,       \* arguments of setup, and of prep_prove and prove
  None,
  Summary(_, _),      \* the prepared state that prep_prove of a key and an input makes
  After(_, _, _),     \* what it is after a successful prove on an input
  Values(_, _),       \* the public values of an input
  Accepted(_, _, _)   \* whether the proof of an input verifies

VARIABLES key, prepared, request, delivered

vars == <<key, prepared, request, delivered>>

Init ==
  /\ key = None
  /\ prepared = [s \in Slots |-> None]
  /\ request = [s \in Slots |-> None]
  /\ delivered = {}

Setup(k) == key = None /\ key' = k /\ UNCHANGED <<prepared, request, delivered>>

Prepare(s, input) ==
  /\ key # None
  /\ request[s] = None
  /\ prepared' = [prepared EXCEPT ![s] = Summary(key, input)]
  /\ UNCHANGED <<key, request, delivered>>

Duplicate(s, t) ==
  /\ prepared[s] # None
  /\ request[s] = None
  /\ prepared[t] = None
  /\ prepared' = [prepared EXCEPT ![t] = prepared[s]]
  /\ UNCHANGED <<key, request, delivered>>

Request(s, input) ==
  /\ prepared[s] # None
  /\ request[s] = None
  /\ request' = [request EXCEPT ![s] = input]
  /\ UNCHANGED <<key, prepared, delivered>>

Deliver(s) ==
  /\ request[s] # None
  /\ delivered' = delivered \cup
       {[prepared |-> prepared[s], input |-> request[s],
         values   |-> IF Accepted(key, prepared[s], request[s])
                        THEN Values(key, request[s]) ELSE None,
         accepted |-> Accepted(key, prepared[s], request[s])]}
  /\ prepared' = [prepared EXCEPT ![s] = After(key, @, request[s])]
  /\ request' = [request EXCEPT ![s] = None]
  /\ UNCHANGED key

Fail(s) ==
  /\ request[s] # None
  /\ prepared' = [prepared EXCEPT ![s] = None]
  /\ request' = [request EXCEPT ![s] = None]
  /\ UNCHANGED <<key, delivered>>

Answer(s) == Deliver(s) \/ Fail(s)

Next ==
  \/ \E k \in Keys : Setup(k)
  \/ \E s \in Slots : \/ \E input \in Inputs : Prepare(s, input) \/ Request(s, input)
                      \/ \E t \in Slots : Duplicate(s, t)
                      \/ Answer(s)

(* What a client sees of any finite run; Spec adds that requests are answered. *)
SafeSpec == Init /\ [][Next]_vars
Spec == SafeSpec /\ \A s \in Slots : WF_vars(Answer(s))

=============================================================================
