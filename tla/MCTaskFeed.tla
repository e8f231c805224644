------------------------------ MODULE MCTaskFeed ------------------------------
(* TaskFeed with finite sets of writers and pages, and three environments:  *)
(* three events and a page that connects twice, with no run to steer; three *)
(* events and two runs without a page; two events with all of it.           *)
EXTENDS TaskFeed

CONSTANTS e1, e2, m1, m2, page

MCEmitters == {e1, e2}
MCSteers == {m1, m2}
MCPages == {page}
MCBounds == {[events |-> 3, connects |-> 2, runs |-> 0],
             [events |-> 3, connects |-> 0, runs |-> 2],
             [events |-> 2, connects |-> 2, runs |-> 2]}
=============================================================================
