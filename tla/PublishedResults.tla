--------------------------- MODULE PublishedResults ---------------------------
(***************************************************************************)
(* What a reader of an experiment's output directory may rely on, stated   *)
(* without files: at any time nothing is published, or the complete        *)
(* results of one experiment, together with its configuration.  Only the   *)
(* latest experiment that was requested is ever published, and one that is *)
(* withdrawn never comes back unless it is requested again.                *)
(***************************************************************************)
EXTENDS Experiments

VARIABLES
  requested,   \* the configurations of the experiments so far, in order
  published    \* the empty set, or one configuration with its simulations

Init ==
  /\ requested = <<>>
  /\ published = {}

Request(c) ==
  /\ Accepted(c)
  /\ requested' = Append(requested, c)
  /\ UNCHANGED published

Publish ==
  /\ published = {}
  /\ requested # <<>>
  /\ LET c == requested[Len(requested)]
     IN  /\ ~Refuses(c)
         /\ published' = {[config |-> c, simulations |-> Plan(c)]}
  /\ UNCHANGED requested

Withdraw ==
  /\ published # {}
  /\ published' = {}
  /\ UNCHANGED requested

Next ==
  \/ \E c \in Configs : Request(c)
  \/ Publish
  \/ Withdraw

Spec == Init /\ [][Next]_<<requested, published>>
=============================================================================
