------------------------------ MODULE MCIntake ------------------------------
(* Intake, ReviewIntake and ChatSessions, which share no state: a behaviour  *)
(* runs one of the three, and the others keep their initial state.          *)
EXTENDS Intake, ReviewIntake, ChatSessions

CONSTANTS s1, s2, m1, i1, i2, i3, a1, h1, h2, w1, t1, t2, t3

MCSlackMsgs == {m1}
MCSlackHandlers == {s1, s2}
MCIssues == {i1, i2, i3}
MCSessions == {a1}
MCIssueHooks == {h1}
MCSessionHooks == {h1, h2}
MCWriters == {w1}
MCTurns == {t1, t2, t3}

\* Two sources at a time: a third adds interleavings and no further race.  Linear
\* alone is two, its poll and the webhook beside it.
MCDeployments ==
    {{"telegram", "slack"}, {"telegram", "sessions"}, {"slack", "sessions"},
     {"slack", "writers"}, {"linear"}}

VARIABLE part

vars == <<part, intakeVars, reviewVars, chatVars>>

Init == /\ part \in {"messages", "reviews", "chat"}
        /\ IntakeInit /\ ReviewInit /\ ChatInit
        /\ part = "messages" \/ enabled = {"telegram", "slack"}

Messages(A) == part = "messages" /\ A /\ UNCHANGED <<part, reviewVars, chatVars>>
Reviews(A) == part = "reviews" /\ A /\ UNCHANGED <<part, intakeVars, chatVars>>
Chat(A) == part = "chat" /\ A /\ UNCHANGED <<part, intakeVars, reviewVars>>

Next == Messages(IntakeNext) \/ Reviews(ReviewNext) \/ Chat(ChatNext)

IngestSome == \E i \in Issues : IngestNext(i)

RedeliverSession == \E h \in SessionHooks, s \in Sessions : HandleSession(h, s)

\* A statement that was issued returns, the loops of the pollers go on,
\* and Linear repeats a webhook that was not answered; its request waits for no
\* other one, which with the model's two webhook handlers takes strong fairness.
Fairness ==
    /\ \A h \in Handlers : WF_vars(Messages(Resume(h) /\ UNCHANGED enabled))
    /\ WF_vars(Messages("telegram" \in enabled /\ GetUpdates /\ UNCHANGED enabled))
    /\ WF_vars(Messages("telegram" \in enabled /\ HandleUpdate /\ UNCHANGED enabled))
    /\ WF_vars(Messages("linear" \in enabled /\ PollLinear /\ UNCHANGED enabled))
    /\ WF_vars(Messages("linear" \in enabled /\ IngestSome /\ UNCHANGED enabled))
    /\ SF_vars(Messages("sessions" \in enabled /\ RedeliverSession /\ UNCHANGED enabled))
    /\ WF_vars(Reviews(PollStep))

Spec == Init /\ [][Next]_vars /\ Fairness

TypeOK == IntakeTypeOK /\ ReviewTypeOK /\ ChatTypeOK
=============================================================================
