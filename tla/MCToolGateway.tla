--------------------------- MODULE MCToolGateway ----------------------------
(* Model-checking instances of ToolGateway. *)
EXTENDS ToolGateway

CONSTANTS post, repost, write, read, key

\* Two gated publications under one idempotency key: the same content
\* requested by two runs.
PublishActions == {post, repost}
PublishKeyOf   == [a \in PublishActions |-> key]

\* A gated publication, an ungated external write without a key, and a
\* harmless action that may be retried.
MixedActions == {post, write, read}
MixedHeavy   == {post, write}
MixedKeyOf   == [a \in MixedActions |-> IF a = post THEN key ELSE NoKey]
=============================================================================
