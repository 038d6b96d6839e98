--------------------------- MODULE RequestService ---------------------------
(***************************************************************************)
(* What the scheduler promises to the submitter of a job: the future and   *)
(* the tokens_queue that carry its answer.                                 *)
(*                                                                         *)
(* Every request leads a life of its own, and one step may move any number *)
(* of them on (a forward pass serves a whole batch).  A request is         *)
(* answered once.  Tokens stream only before DONE, DONE comes no earlier   *)
(* than the answer, and the DONE that follows a failure may come twice.    *)
(***************************************************************************)
EXTENDS Integers, Sequences, FiniteSets

CONSTANTS Requests, MaxTokens

VARIABLES
  fut,      \* the future: "new" before the submission, "waiting", or how it ended
  stream    \* the tokens_queue: "token" and "DONE" items, as they were put

Answer == {"result", "error", "cancelled"}

Closed(s) == s # << >> /\ s[Len(s)] = "DONE"
Tokens(s) == Cardinality({i \in DOMAIN s : s[i] = "token"})
Dones(s)  == Len(s) - Tokens(s)

Init ==
  /\ fut = [r \in Requests |-> "new"]
  /\ stream = [r \in Requests |-> << >>]

Keep(r)  == fut'[r] = fut[r] /\ stream'[r] = stream[r]

Submit(r) == fut[r] = "new" /\ fut'[r] = "waiting" /\ stream'[r] = << >>

\* Tokens may go on streaming to a request that was cancelled.
Stream(r) ==
  /\ fut[r] \in {"waiting", "cancelled"}
  /\ ~Closed(stream[r])
  /\ Tokens(stream[r]) < MaxTokens
  /\ stream'[r] = Append(stream[r], "token")
  /\ fut'[r] = fut[r]

\* The answer, with the sentinel or (a cancellation, a text) before it.
Resolve(r) ==
  /\ fut[r] = "waiting"
  /\ fut'[r] \in Answer
  /\ \/ stream'[r] = stream[r] /\ fut'[r] # "error"
     \/ stream'[r] = Append(stream[r], "DONE") /\ fut'[r] # "cancelled"

Close(r) ==
  /\ fut[r] \in Answer
  /\ Closed(stream[r]) => Dones(stream[r]) = 1 /\ fut[r] # "result"
  /\ stream'[r] = Append(stream[r], "DONE")
  /\ fut'[r] = fut[r]

Life(r) == Keep(r) \/ Submit(r) \/ Stream(r) \/ Resolve(r) \/ Close(r)

Next ==
  /\ fut' \in [Requests -> {"new", "waiting"} \cup Answer]
  /\ DOMAIN stream' = Requests
  /\ \A r \in Requests : Life(r)

Spec == Init /\ [][Next]_<<fut, stream>>
=============================================================================
