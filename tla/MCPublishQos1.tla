--------------------------- MODULE MCPublishQos1 ---------------------------
(* A small instance of PublishQos1 for TLC. *)
EXTENDS PublishQos1

MCStartIds == {0, MaxPacketId}
============================================================================
