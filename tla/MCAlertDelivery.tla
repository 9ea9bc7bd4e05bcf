-------------------------- MODULE MCAlertDelivery --------------------------
(* The users and policies of the instance.                                 *)
EXTENDS AlertDelivery

(* One user with all four channels, of which telegram has no sender, and   *)
(* one with e-mail and an enabled push channel that has no token.          *)
MCRecipients == {
    [user |-> "owner", enabled |-> ToSet(ChannelOrder), addresses |-> {"telegram", "email", "push"}],
    [user |-> "member", enabled |-> {"email", "push"}, addresses |-> {"email"}]}

(* No policy, as published; two attempts without backoff; one retry; and   *)
(* a malformed number next to a spelling that is read last.                *)
MCPolicies == {
    <<>>,
    [max_attempts |-> 2, backoff |-> 0],
    [max_retries |-> 1, factor |-> 3],
    [max_retries |-> Malformed, attempts |-> 1]}
=============================================================================
