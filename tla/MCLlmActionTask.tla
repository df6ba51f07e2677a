--------------------------- MODULE MCLlmActionTask ---------------------------
(***************************************************************************)
(* One call made in any way, and a second, synchronous one that contends   *)
(* for the context and reuses the idempotency key.                         *)
(***************************************************************************)
EXTENDS LlmActionTask

CONSTANTS first, second

BothCalls == {first, second}

CallModes == [c \in BothCalls |-> IF c = first THEN Mode ELSE {"sync"}]

=============================================================================
