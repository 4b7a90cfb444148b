----------------------------- MODULE WorldSpec -----------------------------
(***************************************************************************)
(* What the interpreter promises about the world: there is one world; the  *)
(* body of a call writes to it directly; a request sends it out and the    *)
(* answer is that same world with the responder's debit and delta; a       *)
(* reverting call puts back the world the call started from.  Nothing here *)
(* caches, splits or overlays: WorldAdoption does, and implements this.    *)
(***************************************************************************)
EXTENDS OpenWorld

VARIABLES world,   \* the world every read and every snapshot sees
          saved,   \* the world the running call started from
          phase    \* "idle", "body", "asked" or "aborted"

vars == <<world, saved, phase>>

SelfOf(w) == AccountOf(w, Self)
ClearTransient(w) == PutAccount(w, Self, [SelfOf(w) EXCEPT !.tr = ZeroMemory])

(* how a call may end: transient storage survives or is cleared *)
Endings(w) == {w, ClearTransient(w)}

Init == world \in World /\ saved = world /\ phase = "idle"

(* A call starts.  A transaction also brings its own created set. *)
Enter ==
  /\ phase = "idle" /\ phase' = "body"
  /\ \E c \in SUBSET Addrs, b \in Word :
       \E start \in Endings([world EXCEPT !.created = c]) :
         saved' = start /\ world' = SetBalance(start, Self, b)

(* A call is refused before its body: nothing but transient storage moves. *)
Refuse ==
  /\ phase = "idle" /\ phase' = "idle"
  /\ \E c \in SUBSET Addrs :
       \E start \in Endings([world EXCEPT !.created = c]) :
         saved' = start /\ world' \in Endings(start)

Write ==
  /\ phase = "body" /\ UNCHANGED <<saved, phase>>
  /\ \E m \in Memory :
       \/ world' = PutAccount(world, Self, [SelfOf(world) EXCEPT !.sto = m])
       \/ world' = PutAccount(world, Self, [SelfOf(world) EXCEPT !.tr = m])

Emit ==
  /\ phase = "body" /\ UNCHANGED <<saved, phase>>
  /\ \E e \in Events :
       world' = [PutAccount(world, Self, SelfOf(world)) EXCEPT
                   !.logs = Append(@, [from |-> Self, ev |-> e])]

Ask == phase = "body" /\ phase' = "asked" /\ UNCHANGED <<world, saved>>

Answer ==
  /\ phase = "asked" /\ phase' = "body" /\ UNCHANGED saved
  /\ \E amount \in Word, row \in Rows \cup {Echo} :
       world' = AnswerWorld(world, amount, row.post)

(* The call reverts, in its body or because an answer is a failure. *)
Revert ==
  /\ phase \in {"body", "asked"} /\ phase' = "idle" /\ UNCHANGED saved
  /\ world' \in Endings(saved)

Return ==
  /\ phase = "body" /\ phase' = "idle" /\ UNCHANGED saved
  /\ world' \in Endings(world)

Destroy ==
  /\ phase = "body" /\ phase' = "idle" /\ UNCHANGED saved
  /\ \E to \in Addrs :
       world' \in Endings([Sweep(world, to) EXCEPT !.sds = @ \cup {Self}])

(* A request nobody answers ends the run: no world is reported. *)
Abort == phase = "asked" /\ phase' = "aborted" /\ UNCHANGED <<world, saved>>

Next == \/ Enter \/ Refuse \/ Write \/ Emit \/ Ask \/ Answer
        \/ Revert \/ Return \/ Destroy \/ Abort

Spec == Init /\ [][Next]_vars
=============================================================================
