---------------------------- MODULE ChatSessions ----------------------------
(***************************************************************************)
(* One chat session: turns that wait for its lock, run an agent over a copy  *)
(* of its history and store what the agent returns; resets drop lock and     *)
(* history under them.  Histories are list objects: a turn keeps the one it  *)
(* appended to, and the session may meanwhile have another.                 *)
(***************************************************************************)
EXTENDS SequencesExt

CONSTANTS Turns,         \* messages posted to the session
          HistoryLimit,  \* MAX_HISTORY_MESSAGES
          MaxAdded,      \* bound: tool calls and results of a turn
          MaxResets      \* bound: resets of the session

ASSUME ChatAssumption ==
    /\ MaxAdded \in Nat /\ MaxResets \in Nat
    /\ HistoryLimit \in Nat /\ HistoryLimit >= MaxAdded + 2

NoList == << >>
Lists == Turns \X {"opened", "stored"}   \* by setdefault, by the end of a turn
Locks == 1..(MaxResets + 1)

VARIABLES
    stage,    \* where each turn is
    line,     \* who holds each lock object and who waits for it, in order
    lock,     \* the session's lock object, 0 when it has none
    content,  \* what each list object holds
    current,  \* the session's list object
    held,     \* the list object a turn appended to
    work,     \* the agent state of a turn
    base,     \* how much of it was in the history: sent in the code
    resets,
    said,     \* ghost: the conversation since the last reset
    crossed   \* ghost: the last reset met a turn in flight

chatVars == <<stage, line, lock, content, current, held, work, base, resets, said, crossed>>

Kinds == {"human", "call", "result", "reply"}
Message == [turn : Turns, kind : Kinds]
Say(t, k) == [turn |-> t, kind |-> k]

ChatTypeOK ==
    /\ stage \in [Turns -> {"new", "queued", "agent", "tools", "ended"}]
    /\ line \in [Locks -> Seq(Turns)] /\ lock \in {0} \cup Locks
    /\ content \in [Lists -> Seq(Message)]
    /\ current \in {NoList} \cup Lists /\ held \in [Turns -> {NoList} \cup Lists]
    /\ work \in [Turns -> Seq(Message)] /\ base \in [Turns -> Nat]
    /\ resets \in 0..MaxResets /\ said \in Seq(Message) /\ crossed \in BOOLEAN

ChatInit ==
    /\ stage = [t \in Turns |-> "new"]
    /\ line = [k \in Locks |-> << >>] /\ lock = 0
    /\ content = [l \in Lists |-> << >>] /\ current = NoList
    /\ held = [t \in Turns |-> NoList] /\ work = [t \in Turns |-> << >>]
    /\ base = [t \in Turns |-> 0]
    /\ resets = 0 /\ said = << >> /\ crossed = FALSE

Running(t) == stage[t] \in {"agent", "tools"}
InFlight == {t \in Turns : stage[t] = "queued" \/ Running(t)}

-----------------------------------------------------------------------------
(* A turn *)

LockObject == IF lock # 0 THEN lock ELSE resets + 1

\* ask: the session's lock object, a new one when it has none.
Ask(t) ==
    /\ stage[t] = "new" /\ stage' = [stage EXCEPT ![t] = "queued"]
    /\ lock' = LockObject /\ line' = [line EXCEPT ![LockObject] = Append(@, t)]
    /\ UNCHANGED <<content, current, held, work, base, resets, said, crossed>>

Holds(t, k) == line[k] # << >> /\ Head(line[k]) = t

\* The user's message joins the history, and the agent gets a copy of it.
BeginTurn(t) ==
    LET l == IF current = NoList THEN <<t, "opened">> ELSE current
    IN  /\ stage[t] = "queued" /\ \E k \in Locks : Holds(t, k)
        /\ content' = [content EXCEPT ![l] = Append(@, Say(t, "human"))]
        /\ current' = l /\ held' = [held EXCEPT ![t] = l]
        /\ work' = [work EXCEPT ![t] = content'[l]]
        /\ base' = [base EXCEPT ![t] = Len(work'[t])]
        /\ stage' = [stage EXCEPT ![t] = "agent"]
        /\ said' = Append(said, Say(t, "human"))
        /\ UNCHANGED <<line, lock, resets, crossed>>

\* What the agent added: calls and results, a reply not yet.
Added(t) == Len(work[t]) - base[t]

CallTools(t) ==
    /\ stage[t] = "agent" /\ Added(t) + 1 < MaxAdded
    /\ work' = [work EXCEPT ![t] = Append(@, Say(t, "call"))]
    /\ stage' = [stage EXCEPT ![t] = "tools"]
    /\ UNCHANGED <<line, lock, content, current, held, base, resets, said, crossed>>

\* A message may call several tools: one result after the other.
RunTools(t) ==
    /\ stage[t] = "tools"
    /\ work' = [work EXCEPT ![t] = Append(@, Say(t, "result"))]
    /\ \E next \in {"agent", "tools"} :
          /\ next = "agent" \/ Added(t) + 1 < MaxAdded
          /\ stage' = [stage EXCEPT ![t] = next]
    /\ UNCHANGED <<line, lock, content, current, held, base, resets, said, crossed>>

EndTurn(t) ==
    /\ stage' = [stage EXCEPT ![t] = "ended"]
    /\ line' = [k \in Locks |-> IF Holds(t, k) THEN Tail(line[k]) ELSE line[k]]
    /\ work' = [work EXCEPT ![t] = << >>] /\ held' = [held EXCEPT ![t] = NoList]
    /\ base' = [base EXCEPT ![t] = 0]
    /\ UNCHANGED <<lock, resets, crossed>>

Window(s) == SubSeq(s, IF Len(s) > HistoryLimit THEN Len(s) - HistoryLimit + 1 ELSE 1, Len(s))

\* _safe_trim: the window from its first human message on, if it has one.
SafeTrim(s) ==
    LET w == Window(s)
        humans == {i \in DOMAIN w : w[i].kind = "human"}
    IN  IF humans = {} THEN w
        ELSE SubSeq(w, CHOOSE i \in humans : \A j \in humans : i <= j, Len(w))

\* What the agent returns replaces the session, whatever became of it meanwhile.
Answer(t) ==
    LET final == Append(work[t], Say(t, "reply"))
    IN  /\ stage[t] = "agent" /\ EndTurn(t)
        /\ current' = <<t, "stored">>
        /\ content' = [content EXCEPT ![<<t, "stored">>] = SafeTrim(final)]
        /\ said' = said \o SubSeq(final, base[t] + 1, Len(final))

\* Mutant: the message of an aborted turn stays.
WithoutLastKept(s) == s

WithoutLast(s) == IF s = << >> THEN s ELSE Front(s)

\* The daily cap ends the turn: its message leaves the list it was put in.
AbortTurn(t) ==
    /\ Running(t) /\ EndTurn(t)
    /\ content' = [content EXCEPT ![held[t]] = WithoutLast(@)]
    /\ said' = RemoveFirst(said, Say(t, "human"))
    /\ UNCHANGED current

\* Any other error ends it with the message in place and no reply.
FailTurn(t) ==
    /\ Running(t) /\ EndTurn(t)
    /\ UNCHANGED <<content, current, said>>

\* DELETE /api/chat/{session_id}
Reset ==
    /\ resets < MaxResets /\ resets' = resets + 1
    /\ lock' = 0 /\ current' = NoList /\ said' = << >>
    /\ crossed' = (InFlight # {})
    /\ UNCHANGED <<stage, line, content, held, work, base>>

ChatNext ==
    \/ \E t \in Turns : \/ Ask(t) \/ BeginTurn(t) \/ CallTools(t) \/ RunTools(t)
                        \/ Answer(t) \/ AbortTurn(t) \/ FailTurn(t)
    \/ Reset

ChatSpec == ChatInit /\ [][ChatNext]_chatVars

-----------------------------------------------------------------------------
(* Properties *)

(* Unless a reset met a turn in flight, the stored history is the end of the  *)
(* conversation since that reset: no turn clobbers another, an aborted one    *)
(* leaves nothing, no tool result is left without its call because every       *)
(* history starts with a user's message, and nothing that fits the limit from *)
(* such a message on is forgotten.                                          *)
HistoryIsTheConversation ==
    LET h == IF current = NoList THEN << >> ELSE content[current]
    IN  ~crossed =>
            /\ IsSuffix(h, said)
            /\ h = << >> \/ Head(h).kind = "human"
            /\ Len(said) <= HistoryLimit => h = said
            /\ \A i \in DOMAIN said :
                  said[i].kind = "human" /\ Len(said) - i < HistoryLimit
                      => Len(h) > Len(said) - i
=============================================================================
