--------------------------- MODULE MCCapabilityPod ---------------------------
(* CapabilityPod on small instances. *)
EXTENDS CapabilityPod

OneShot == [keepalive |-> FALSE, env |-> <<>>]
Warm == [keepalive |-> TRUE, env |-> <<>>]
ForwardsKeepalive == [keepalive |-> FALSE, env |-> <<<<"TOOLSET_KEEPALIVE", "true">>>>]
AllEntries == {OneShot, Warm, ForwardsKeepalive}
SomeLines == {[s |-> "out", k |-> "image"], [s |-> "out", k |-> "binary"],
              [s |-> "err", k |-> "secret"]}
==============================================================================
