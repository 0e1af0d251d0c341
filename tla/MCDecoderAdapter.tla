-------------------------- MODULE MCDecoderAdapter --------------------------
(***************************************************************************)
(* Two shapes, two formats of the same shape (display hints only), a shape *)
(* over the caller's cap but under the default one, and broken packets.    *)
(***************************************************************************)
EXTENDS DecoderAdapter

Fmt(w, display) == [width |-> w, height |-> 1, color |-> "bt601", display |-> display]
A == Fmt(1, "plain")
A2 == Fmt(1, "scaled")
B == Fmt(2, "plain")
TooLarge == Fmt(3, "plain")
MCFormat == {A, A2, B, TooLarge}

Packet(k, s, f, bad) ==
  [key |-> k, show |-> s, format |-> f, fault |-> bad]

MCKind ==
  { Packet(TRUE, TRUE, f, "none") : f \in MCFormat }
  \cup { Packet(TRUE, FALSE, B, "none"), Packet(TRUE, TRUE, B, "body"),
         Packet(TRUE, TRUE, A, "header"),
         Packet(FALSE, TRUE, A, "none"), Packet(FALSE, FALSE, A, "none"),
         Packet(FALSE, TRUE, A, "body") }
=============================================================================
