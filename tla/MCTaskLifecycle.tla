-------------------------- MODULE MCTaskLifecycle ---------------------------
(* Instances of TaskLifecycle for TLC. *)
EXTENDS TaskLifecycle

CONSTANT r1

OneRequest == {r1}

AllSavers == {"durable", "memory", "none"}
DurableOnly == {"durable"}

Operators == {"cancel", "approve", "reject", "shutdown", "crash", "cap",
              "dberror"}
OneReviewer == {"approve", "reject", "crash", "cap"}
=============================================================================
