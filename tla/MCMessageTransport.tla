------------------------- MODULE MCMessageTransport -------------------------
(***************************************************************************)
(* MessageTransport with two agents and three messages: two of one sender  *)
(* under one key to different inboxes, and one that competes with the      *)
(* first for its inbox.                                                    *)
(***************************************************************************)
EXTENDS MessageTransport

CONSTANTS a, b, m1, m2, m3

Senders == [m \in Messages |-> IF m = m3 THEN b ELSE a]
Recipients == [m \in Messages |-> IF m = m2 THEN a ELSE b]
Keys == [m \in Messages |-> 1]
=============================================================================
