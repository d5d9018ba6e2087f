--------------------------- MODULE MCSupportTicket ---------------------------
(* Instances of SupportTicket for TLC. *)
EXTENDS SupportTicket, TLC

Symmetry == Permutations(Requests)

(* The first tick ends both periods of an urgent ticket, and only that of *)
(* the first response of a normal one.                                    *)
MCFirst == [p \in Priorities |-> 0]
MCResolution == [p \in Priorities |-> IF p = "urgent" THEN 0 ELSE 1]
=============================================================================
