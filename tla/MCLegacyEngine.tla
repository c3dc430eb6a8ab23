--------------------------- MODULE MCLegacyEngine ---------------------------
(* Workflows for TLC: a short delivery with gates and a loop back, one that
   leaves a route to its step, and one whose policy waits for a dead end. *)
EXTENDS LegacyEngine

Delivery ==
    [start |-> "design",
     on |-> [design |-> [completed |-> "review"],
             review |-> [completed |-> "DONE", changes_requested |-> "design"]],
     gates |-> [design |-> {"completed"}, review |-> {"completed"}]]

Delegated ==
    [start |-> "review",
     on |-> [review |-> [completed |-> "route_to", changes_requested |-> "route_to"]],
     gates |-> [review |-> {"changes_requested"}]]

DeadEnd ==
    [start |-> "design",
     on |-> [design |-> [completed |-> "DONE"]],
     gates |-> [design |-> {"BLOCK"}]]

MCWorkflows == {Delivery, Delegated, DeadEnd}
=============================================================================
