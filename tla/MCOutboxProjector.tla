------------------------- MODULE MCOutboxProjector -------------------------
(***************************************************************************)
(* Small instances of the projector: one or two listings whose rows change *)
(* a few times while the projector drains the outbox.                      *)
(***************************************************************************)
EXTENDS OutboxProjector

Calls == {"vendor", "stock", "write", "mark"}
WriteOnly == {"write"}
AllPhases == Calls \union {"record"}
NoPhases == {}
=============================================================================
