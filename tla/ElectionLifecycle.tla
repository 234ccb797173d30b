------------------------- MODULE ElectionLifecycle -------------------------
(***************************************************************************)
(* The life of one election as crates/election_core states it: the         *)
(* transitions of ElectionState with their guards.  The server does not    *)
(* call these methods; its handlers rewrite the row themselves, and are    *)
(* checked to implement them.                                              *)
(*                                                                         *)
(* The time a caller passes to open_voting is its own reading of a clock,  *)
(* so the deadline puts no bound on when the transition may happen.        *)
(***************************************************************************)
EXTENDS ElectionCore

CONSTANTS Credentials, PublicKeys, Windows

VARIABLE state  \* the ElectionState; phase "None" before new() has run

Init == state.phase = "None"

\* ElectionState::new, once.
New ==
  /\ state.phase = "None"
  /\ \E pk \in PublicKeys, w \in Windows :
       /\ ValidWindow(w[1], w[2])
       /\ state' = [phase |-> "Setup", pk |-> pk, start |-> w[1],
                    end |-> w[2], roll |-> {}, tally |-> -1]

\* set_roll_commitment followed by open_voting.
OpenVoting ==
  /\ state.phase = "Setup"
  /\ \E roll \in SUBSET Credentials :
       /\ roll # {}
       /\ state' = [state EXCEPT !.phase = "Voting", !.roll = roll]

CloseVoting ==
  /\ state.phase = "Voting"
  /\ state' = [state EXCEPT !.phase = "Tallying"]

\* finalize_tally with a verified proof.
FinalizeTally ==
  /\ state.phase = "Tallying"
  /\ state'.tally \in Nat
  /\ state' = [state EXCEPT !.phase = "Complete", !.tally = state'.tally]

Next == New \/ OpenVoting \/ CloseVoting \/ FinalizeTally

Spec == Init /\ [][Next]_state

=============================================================================
