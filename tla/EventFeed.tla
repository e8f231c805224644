------------------------------ MODULE EventFeed ------------------------------
(***************************************************************************)
(* What a task page is promised about the trace, with no connection line,  *)
(* bus, queue or replay: the trace grows, or loses what was not kept, and  *)
(* the page is shown events that are or were in it, no id twice and in the *)
(* order of their ids.                                                     *)
(***************************************************************************)
EXTENDS Naturals, Sequences

CONSTANT Readers

VARIABLES stored,   \* events of the trace
          kept,     \* those that stay
          gone,     \* ids of events that did not
          seen      \* what each page was shown

\* The newest event a page was shown, 0 before the first.
Newest(s) == IF s = <<>> THEN 0 ELSE s[Len(s)]

Init ==
    /\ stored = 0 /\ kept = 0 /\ gone = {}
    /\ seen = [r \in Readers |-> <<>>]

Store == stored' = stored + 1 /\ UNCHANGED <<kept, gone, seen>>

Keep == kept' = stored /\ UNCHANGED <<stored, gone, seen>>

Undo ==
    /\ stored' = kept
    /\ gone' = gone \cup (kept + 1)..stored
    /\ UNCHANGED <<kept, seen>>

Show(r) ==
    \E from, to \in (1..stored) \cup gone :
        /\ Newest(seen[r]) < from /\ from <= to
        /\ from..to \subseteq (1..stored) \cup gone
        /\ seen' = [seen EXCEPT ![r] =
                       @ \o [k \in 1..(to - from + 1) |-> from + k - 1]]
        /\ UNCHANGED <<stored, kept, gone>>

Next == Store \/ Keep \/ Undo \/ \E r \in Readers : Show(r)

Spec == Init /\ [][Next]_<<stored, kept, gone, seen>>
=============================================================================
