--------------------------- MODULE MCLinkService ----------------------------
(* The bounds of the model-checked instance. *)
EXTENDS LinkService

MCFeatures == [service |-> {"uart", "target"}, script |-> {"uart", "controller"}]
=============================================================================
