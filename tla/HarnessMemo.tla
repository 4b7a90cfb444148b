---------------------------- MODULE HarnessMemo ----------------------------
(***************************************************************************)
(* What a caller of the harness's cache may rely on (harness_cache.py): a  *)
(* call answers with a value that some computation for its own key has     *)
(* returned, or with the exception its own computation raised.  When and   *)
(* where values are kept, and what a crash leaves, is not visible.         *)
(***************************************************************************)
CONSTANTS Workers, Keys, Values, NoKey, NoAnswer, Failed

VARIABLES
  asked,     \* the key of each worker's running call
  computed,  \* <<key, value>> for every computation that returned
  answer     \* what each worker's last call answered

vars == <<asked, computed, answer>>

Init ==
  /\ asked = [w \in Workers |-> NoKey] /\ computed = {}
  /\ answer = [w \in Workers |-> NoAnswer]

Ask(w) ==
  /\ asked[w] = NoKey
  /\ \E k \in Keys : asked' = [asked EXCEPT ![w] = k]
  /\ answer' = [answer EXCEPT ![w] = NoAnswer]
  /\ UNCHANGED computed

Compute(w) ==
  /\ asked[w] # NoKey
  /\ \E v \in Values : computed' = computed \cup {<<asked[w], v>>}
  /\ UNCHANGED <<asked, answer>>

Answer(w) ==
  /\ asked[w] # NoKey
  /\ asked' = [asked EXCEPT ![w] = NoKey]
  /\ \E v \in {c[2] : c \in {c \in computed : c[1] = asked[w]}} \cup {Failed} :
       answer' = [answer EXCEPT ![w] = v]
  /\ UNCHANGED computed

(* The calls of the workers that stop are forgotten. *)
Stop(W) ==
  /\ asked' = [w \in Workers |-> IF w \in W THEN NoKey ELSE asked[w]]
  /\ answer' = [w \in Workers |-> IF w \in W THEN NoAnswer ELSE answer[w]]
  /\ UNCHANGED computed

Next ==
  \/ \E w \in Workers : Ask(w) \/ Compute(w) \/ Answer(w)
  \/ \E W \in SUBSET Workers : Stop(W)

Spec == Init /\ [][Next]_vars
=============================================================================
