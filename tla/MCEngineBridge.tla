---------------------------- MODULE MCEngineBridge ----------------------------
(* Small instances of EngineBridge. *)
EXTENDS EngineBridge, TLC

CONSTANTS c1, c2, c3, alice, bob

MCCalls == {c1, c2, c3}
MCCallers == {alice, bob}

Admin(kind, caller, on, takeover, basis, sound, privileged) ==
  [kind |-> kind, caller |-> caller, privileged |-> privileged, sound |-> sound,
   basis |-> basis, takeover |-> takeover, on |-> on]

AlicePauses == Admin("pause", alice, TRUE, FALSE, 0, TRUE, TRUE)
BobResumes == Admin("pause", bob, FALSE, FALSE, 0, TRUE, TRUE)

\* One request for every branch of Validate and ApplyAdminAction.
EachRequest ==
  {AlicePauses, BobResumes,
   Admin("pause", bob, FALSE, TRUE, 0, TRUE, TRUE),
   [kind |-> "callback", sound |-> TRUE],
   Admin("global_speed", alice, FALSE, FALSE, 0, FALSE, TRUE),
   Admin("global_speed", alice, FALSE, FALSE, 1, TRUE, TRUE),
   Admin("resource_grant", alice, FALSE, FALSE, 0, TRUE, FALSE),
   Admin("cheat_policy", alice, FALSE, FALSE, 0, TRUE, TRUE),
   Admin("unit_transfer", alice, FALSE, FALSE, 0, TRUE, TRUE),
   Admin("unit_spawn", alice, FALSE, FALSE, 0, TRUE, TRUE),
   Admin("lifecycle", alice, FALSE, FALSE, 0, TRUE, TRUE),
   Admin("unknown", alice, FALSE, FALSE, 0, TRUE, TRUE),
   [kind |-> "callback", sound |-> FALSE]}

\* Three calls are needed for two threads to race for a lease: one that holds it
\* until it expires, one that waits for the engine and one the worker rejects.
MCRequests ==
  c1 :> EachRequest
  @@ c2 :> {AlicePauses, [kind |-> "callback", sound |-> TRUE]}
  @@ c3 :> {BobResumes}
================================================================================
