---------------------------- MODULE MCEventPipeline ----------------------------
(* A small instance of EventPipeline. *)
EXTENDS EventPipeline

\* One worker may be registered for each uuid, and the dispatcher may hold one more.
MCId == 1..3

=============================================================================
