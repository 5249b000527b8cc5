-------------------------- MODULE RequestService --------------------------
(***************************************************************************)
(* What a domain promises to those who send it requests, however many      *)
(* nodes a request goes through: a request is done at most once, at a node *)
(* it is for; its sender gets one answer, and nothing is done on behalf of *)
(* a sender who was told that nothing would be.  Who gets no answer, or    *)
(* "broken", knows nothing: the request may have been done, and may still  *)
(* be.  After another exception it will not be, but the part of it that    *)
(* was committed before is done.                                           *)
(***************************************************************************)
EXTENDS Sequences

CONSTANTS
  Request,    \* the requests
  Right(_),   \* the nodes a request is for
  Denies(_),  \* the exceptions that say no part of it was done
  Silent      \* requests that may be answered "ok" without being done

VARIABLES
  sent,    \* the requests, in the order they are sent
  done,    \* the nodes each was done at
  told     \* what its sender was told, "none" before

vars == <<sent, done, told>>

Exceptions == {"ex_routing", "ex_job", "ex_node", "ex_processing"}

Init == sent = <<>> /\ done = <<>> /\ told = <<>>

Send ==
  /\ \E r \in Request : sent' = Append(sent, r)
  /\ done' = Append(done, <<>>)
  /\ told' = Append(told, "none")

Perform(i) ==
  /\ done[i] = <<>> /\ told[i] \in {"none", "broken"}
  /\ \E n \in Right(sent[i]) : done' = [done EXCEPT ![i] = <<n>>]
  /\ UNCHANGED <<sent, told>>

Tell(i) ==
  /\ told[i] = "none"
  /\ \E result \in {"ok", "broken"} \cup Exceptions :
       /\ result = "ok" => done[i] # <<>> \/ sent[i] \in Silent
       /\ result \in Denies(sent[i]) => done[i] = <<>>
       /\ told' = [told EXCEPT ![i] = result]
  /\ UNCHANGED <<sent, done>>

Next == Send \/ \E i \in DOMAIN sent : Perform(i) \/ Tell(i)

Spec == Init /\ [][Next]_vars
=============================================================================
