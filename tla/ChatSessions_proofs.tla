------------------------ MODULE ChatSessions_proofs -------------------------
(***************************************************************************)
(* Theorems about ChatSessions: for any number of turns, tool calls and    *)
(* resets, and any history limit that one turn fits in, the stored history *)
(* is the end of the conversation.                                         *)
(***************************************************************************)
EXTENDS ChatSessions, SequenceTheorems, WellFoundedInduction, TLAPS

\* t is past the wait for the lock, at a stage of the map s.
Begun(s, t) == s[t] \notin {"new", "queued"}

Stored == IF current = NoList THEN << >> ELSE content[current]

-----------------------------------------------------------------------------
(* The invariant *)

\* The lines hold turns in flight, each once, and whoever runs is the first of
\* its line.  A lock object past the next one was not made yet.
LinesInOrder ==
    /\ \A k \in Locks : \A i \in 1..Len(line[k]) : line[k][i] \in InFlight
    /\ \A k, l \in Locks : \A i \in 1..Len(line[k]), j \in 1..Len(line[l]) :
          line[k][i] = line[l][j] => k = l /\ i = j
    /\ \A t \in Turns : Running(t) => \E k \in Locks : Holds(t, k)
    /\ \A k \in Locks : k > resets + 1 => line[k] = << >>
    /\ lock \in {0, resets + 1}
    /\ lock = 0 => line[resets + 1] = << >>

\* A turn that did not begin has said nothing and its list is empty; one that
\* runs has a list, and what its agent added is its own.
NothingSaidYet ==
    /\ \A i \in 1..Len(said) : Begun(stage, said[i].turn)
    /\ \A t \in Turns : ~Begun(stage, t) => content[<<t, "opened">>] = << >>
    /\ current # NoList => current \in Lists /\ Begun(stage, current[1])
    /\ \A t \in Turns : held[t] # NoList => held[t] \in Lists /\ Begun(stage, held[t][1])
    /\ \A t \in Turns : Running(t) =>
          /\ held[t] # NoList /\ base[t] <= Len(work[t])
          /\ \A i \in (base[t] + 1)..Len(work[t]) :
                work[t][i].turn = t /\ work[t][i].kind # "human"

\* Without a reset that met a turn, one line is in use: the session's.
OneLine ==
    ~crossed => /\ \A k \in Locks : k # resets + 1 => line[k] = << >>
                /\ current = NoList => said = << >>

\* h is the end of s, from a user's message on, and has what fits the limit.
Ends(h, s) ==
    /\ Len(h) <= Len(s)
    /\ \A i \in 1..Len(h) : h[i] = s[Len(s) - Len(h) + i]
Follows(h, s) ==
    /\ Ends(h, s)
    /\ h = << >> \/ h[1].kind = "human"
    /\ Len(s) <= HistoryLimit => h = s
    /\ \A i \in 1..Len(s) :
          s[i].kind = "human" /\ Len(s) - i < HistoryLimit => Len(h) > Len(s) - i

\* The turn that runs: its message ends a history that followed without it,
\* and what the agent added to its copy leaves room for a reply.
TurnInProgress(t) ==
    /\ held[t] = current /\ Stored # << >> /\ said # << >>
    /\ Stored[Len(Stored)] = Say(t, "human") /\ said[Len(said)] = Say(t, "human")
    /\ \A i \in 1..(Len(said) - 1) : said[i].turn # t
    /\ Follows(Front(Stored), Front(said))
    /\ base[t] = Len(Stored)
    /\ \A i \in 1..base[t] : work[t][i] = Stored[i]
    /\ Added(t) <= MaxAdded /\ (stage[t] = "tools" => Added(t) < MaxAdded)

Conversation ==
    ~crossed => /\ Follows(Stored, said)
                /\ \A t \in Turns : Running(t) => TurnInProgress(t)

ChatInv == ChatTypeOK /\ LinesInOrder /\ NothingSaidYet /\ OneLine /\ Conversation

-----------------------------------------------------------------------------
(* Histories as sequences *)

LEMMA EndsIsSuffix ==
    ASSUME NEW h \in Seq(Message), NEW s \in Seq(Message), Ends(h, s)
    PROVE  IsSuffix(h, s)
  <1> DEFINE rh == Reverse(h)  rs == Reverse(s)
  <1>1. rh \in Seq(Message) /\ Len(rh) = Len(h)
    BY DEF Reverse
  <1>2. rs \in Seq(Message) /\ Len(rs) = Len(s)
    BY DEF Reverse
  <1>3. Len(rh) <= Len(rs)
    BY <1>1, <1>2 DEF Ends
  <1>4. \A i \in 1..Len(rh) : rh[i] = rs[i]
    <2> TAKE i \in 1..Len(rh)
    <2>1. rh[i] = h[Len(h) - i + 1] /\ rs[i] = s[Len(s) - i + 1]
      BY <1>1, <1>2, <1>3 DEF Reverse
    <2>2. Len(h) - i + 1 \in 1..Len(h)
      BY <1>1
    <2>3. h[Len(h) - i + 1] = s[Len(s) - Len(h) + (Len(h) - i + 1)]
      BY <2>2 DEF Ends
    <2>4. Len(s) - Len(h) + (Len(h) - i + 1) = Len(s) - i + 1
      BY <1>1
    <2> QED
      BY <2>1, <2>3, <2>4
  <1>5. SubSeq(rh, 1, Len(rh)) = SubSeq(rs, 1, Len(rh))
    <2> HIDE DEF rh, rs
    <2>1. SubSeq(rh, 1, Len(rh)) \in Seq(Message) /\ SubSeq(rs, 1, Len(rh)) \in Seq(Message)
      BY <1>1, <1>2, <1>3, SubSeqProperties
    <2>2. Len(SubSeq(rh, 1, Len(rh))) = Len(rh) /\ Len(SubSeq(rs, 1, Len(rh))) = Len(rh)
      BY <1>1, <1>2, <1>3
    <2>3. \A i \in 1..Len(rh) : SubSeq(rh, 1, Len(rh))[i] = rh[i]
                             /\ SubSeq(rs, 1, Len(rh))[i] = rs[i]
      BY <1>1, <1>2, <1>3
    <2> QED
      BY <1>4, <2>1, <2>2, <2>3, SeqEqual
  <1> QED
    BY <1>3, <1>5 DEF IsSuffix, IsPrefix

LEMMA FollowsNothing == Follows(<< >>, << >>)
  BY DEF Follows, Ends

\* A user's message that both lists take in.
LEMMA FollowsAppend ==
    ASSUME NEW h \in Seq(Message), NEW s \in Seq(Message), Follows(h, s),
           NEW m \in Message, m.kind = "human"
    PROVE  Follows(Append(h, m), Append(s, m))
  <1> DEFINE hh == Append(h, m)  ss == Append(s, m)
  <1>1. /\ Len(hh) = Len(h) + 1 /\ Len(ss) = Len(s) + 1
        /\ hh[Len(h) + 1] = m /\ ss[Len(s) + 1] = m
        /\ \A i \in 1..Len(h) : hh[i] = h[i]
        /\ \A i \in 1..Len(s) : ss[i] = s[i]
    OBVIOUS
  <1> HIDE DEF hh, ss
  <1>2. Len(h) \in Nat /\ Len(s) \in Nat /\ HistoryLimit \in Nat
    BY ChatAssumption
  <1>3. Ends(hh, ss)
    <2>1. Len(hh) <= Len(ss)
      BY <1>1, <1>2 DEF Follows, Ends
    <2>2. ASSUME NEW i \in 1..Len(hh)
          PROVE  hh[i] = ss[Len(ss) - Len(hh) + i]
      <3>1. CASE i = Len(h) + 1
        BY <3>1, <1>1, <1>2
      <3>2. CASE i # Len(h) + 1
        <4> i \in 1..Len(h)
          BY <3>2, <1>1, <1>2
        <4>1. h[i] = s[Len(s) - Len(h) + i] /\ Len(s) - Len(h) + i \in 1..Len(s)
          BY <3>2, <1>2 DEF Follows, Ends
        <4>2. Len(ss) - Len(hh) + i = Len(s) - Len(h) + i
          BY <1>1, <1>2
        <4> QED
          BY <3>2, <4>1, <4>2, <1>1
      <3> QED
        BY <3>1, <3>2
    <2> QED
      BY <2>1, <2>2 DEF Ends
  <1>4. hh[1].kind = "human"
    <2>1. CASE h = << >>
      BY <2>1, <1>1
    <2>2. CASE h # << >>
      <3>1. 1 \in 1..Len(h)
        BY <2>2
      <3> QED
        BY <2>2, <3>1, <1>1 DEF Follows
    <2> QED
      BY <2>1, <2>2
  <1>5. Len(ss) <= HistoryLimit => hh = ss
    BY <1>1, <1>2 DEF Follows, hh, ss
  <1>6. ASSUME NEW i \in 1..Len(ss), ss[i].kind = "human", Len(ss) - i < HistoryLimit
        PROVE  Len(hh) > Len(ss) - i
    <2>1. CASE i = Len(s) + 1
      BY <2>1, <1>1, <1>2
    <2>2. CASE i \in 1..Len(s)
      <3>1. s[i].kind = "human" /\ Len(s) - i < HistoryLimit
        BY <2>2, <1>1, <1>2, <1>6
      <3>2. Len(h) > Len(s) - i
        BY <2>2, <3>1 DEF Follows
      <3> QED
        BY <2>2, <3>2, <1>1, <1>2
    <2> QED
      BY <2>1, <2>2, <1>1, <1>2
  <1>7. Follows(hh, ss)
    BY <1>3, <1>4, <1>5, <1>6 DEF Follows
  <1> QED
    BY <1>7 DEF hh, ss

\* A set of positions has a first one.
LEMMA FirstOf ==
    ASSUME NEW S \in SUBSET Nat, S # {}
    PROVE  \E i \in S : \A j \in S : i <= j
  <1>1. PICK i \in S : \A j \in S : <<j, i>> \notin OpToRel(<, Nat)
    BY WFMin, NatLessThanWellFounded, Zenon
  <1>2. \A j \in S : ~(j < i)
    BY <1>1 DEF OpToRel
  <1> QED
    BY <1>2

LEMMA WindowOf ==
    ASSUME NEW f \in Seq(Message)
    PROVE  \E a \in Nat :
              /\ a >= 1 /\ a <= Len(f) + 1
              /\ \A i \in 1..Len(f) : i >= a <=> Len(f) - i < HistoryLimit
              /\ Window(f) = SubSeq(f, a, Len(f))
              /\ Window(f) \in Seq(Message) /\ Len(Window(f)) = Len(f) - a + 1
              /\ \A i \in 1..Len(Window(f)) : Window(f)[i] = f[a + i - 1]
  <1> DEFINE a == IF Len(f) > HistoryLimit THEN Len(f) - HistoryLimit + 1 ELSE 1
  <1>1. Len(f) \in Nat /\ HistoryLimit \in Nat
    BY ChatAssumption
  <1>2. a \in Nat /\ a >= 1 /\ a <= Len(f) + 1
    BY <1>1
  <1>3. \A i \in 1..Len(f) : i >= a <=> Len(f) - i < HistoryLimit
    BY <1>1
  <1>4. Window(f) = SubSeq(f, a, Len(f))
    BY DEF Window
  <1> HIDE DEF a
  <1>5. /\ SubSeq(f, a, Len(f)) \in Seq(Message)
        /\ Len(SubSeq(f, a, Len(f))) = Len(f) - a + 1
        /\ \A i \in 1..(Len(f) - a + 1) : SubSeq(f, a, Len(f))[i] = f[a + i - 1]
    BY <1>1, <1>2, SubSeqProperties
  <1> QED
    BY <1>2, <1>3, <1>4, <1>5

LEMMA TrimIsASeq ==
    ASSUME NEW f \in Seq(Message)
    PROVE  SafeTrim(f) \in Seq(Message)
  <1> DEFINE w == Window(f)
             humans == {i \in DOMAIN w : w[i].kind = "human"}
             first == CHOOSE i \in humans : \A j \in humans : i <= j
  <1>1. w \in Seq(Message)
    BY WindowOf
  <1> HIDE DEF w
  <1>2. CASE humans = {}
    BY <1>1, <1>2 DEF SafeTrim, w
  <1>3. CASE humans # {}
    <2>1. humans \in SUBSET Nat
      BY <1>1
    <2>2. first \in humans
      BY <1>3, <2>1, FirstOf
    <2>3. first \in 1..Len(w)
      BY <2>2, <1>1
    <2>4. SafeTrim(f) = SubSeq(w, first, Len(w))
      BY <1>3 DEF SafeTrim, w
    <2> HIDE DEF first
    <2>5. SubSeq(w, first, Len(w)) \in Seq(Message)
      BY <1>1, <2>3
    <2> QED
      BY <2>4, <2>5
  <1> QED
    BY <1>2, <1>3

\* A list with a user's message among its last ones is cut at the first of them.
LEMMA TrimAtAUser ==
    ASSUME NEW f \in Seq(Message), NEW p \in 1..Len(f), f[p].kind = "human",
           Len(f) - p < HistoryLimit
    PROVE  \E b \in 1..Len(f) :
              /\ SafeTrim(f) = SubSeq(f, b, Len(f)) /\ f[b].kind = "human"
              /\ \A i \in 1..Len(f) :
                    f[i].kind = "human" /\ Len(f) - i < HistoryLimit => b <= i
  <1> DEFINE w == Window(f)
             humans == {i \in DOMAIN w : w[i].kind = "human"}
             first == CHOOSE i \in humans : \A j \in humans : i <= j
  <1>1. PICK a \in Nat :
              /\ a >= 1 /\ a <= Len(f) + 1
              /\ \A i \in 1..Len(f) : i >= a <=> Len(f) - i < HistoryLimit
              /\ w = SubSeq(f, a, Len(f))
              /\ w \in Seq(Message) /\ Len(w) = Len(f) - a + 1
              /\ \A i \in 1..Len(w) : w[i] = f[a + i - 1]
    BY WindowOf
  <1> HIDE DEF w
  <1>2. Len(f) \in Nat
    OBVIOUS
  <1>3. \A i \in 1..Len(f) : f[i].kind = "human" /\ Len(f) - i < HistoryLimit
                                => i - a + 1 \in humans
    <2> SUFFICES ASSUME NEW i \in 1..Len(f), f[i].kind = "human", i >= a
                 PROVE  i - a + 1 \in humans
      BY <1>1
    <2>1. i - a + 1 \in 1..Len(w)
      BY <1>1, <1>2
    <2>2. w[i - a + 1] = f[i]
      <3>1. a + (i - a + 1) - 1 = i
        BY <1>1
      <3> QED
        BY <1>1, <2>1, <3>1
    <2> QED
      BY <1>1, <2>1, <2>2
  <1>4. humans # {} /\ humans \in SUBSET Nat
    <2>1. p - a + 1 \in humans
      BY <1>3
    <2>2. DOMAIN w = 1..Len(w)
      BY <1>1
    <2> QED
      BY <2>1, <2>2
  <1>5. first \in humans /\ \A j \in humans : first <= j
    BY <1>4, FirstOf
  <1>6. SafeTrim(f) = SubSeq(w, first, Len(w))
    BY <1>4 DEF SafeTrim, w
  <1> HIDE DEF first
  <1>7. first \in 1..Len(w) /\ w[first].kind = "human"
    <2>1. DOMAIN w = 1..Len(w)
      BY <1>1
    <2> QED
      BY <1>5, <2>1
  <1> HIDE DEF humans
  <1> DEFINE b == a + first - 1
  <1>8. b \in 1..Len(f) /\ f[b].kind = "human"
    BY <1>1, <1>2, <1>7
  <1>9. \A i \in 1..Len(f) : f[i].kind = "human" /\ Len(f) - i < HistoryLimit => b <= i
    BY <1>1, <1>2, <1>3, <1>5, <1>7
  <1>10. SubSeq(w, first, Len(w)) = SubSeq(f, b, Len(f))
    <2>1. /\ SubSeq(w, first, Len(w)) \in Seq(Message)
          /\ Len(SubSeq(w, first, Len(w))) = Len(w) - first + 1
          /\ \A i \in 1..(Len(w) - first + 1) : SubSeq(w, first, Len(w))[i] = w[first + i - 1]
      BY <1>1, <1>7, SubSeqProperties
    <2>2. /\ SubSeq(f, b, Len(f)) \in Seq(Message)
          /\ Len(SubSeq(f, b, Len(f))) = Len(f) - b + 1
          /\ \A i \in 1..(Len(f) - b + 1) : SubSeq(f, b, Len(f))[i] = f[b + i - 1]
      BY <1>2, <1>8, SubSeqProperties
    <2>3. Len(w) - first + 1 = Len(f) - b + 1
      BY <1>1, <1>2, <1>7
    <2>4. \A i \in 1..(Len(w) - first + 1) : w[first + i - 1] = f[b + i - 1]
      <3> TAKE i \in 1..(Len(w) - first + 1)
      <3>1. first + i - 1 \in 1..Len(w)
        BY <1>1, <1>7
      <3>2. a + (first + i - 1) - 1 = b + i - 1
        BY <1>1, <1>7
      <3> HIDE DEF b
      <3> QED
        BY <1>1, <3>1, <3>2
    <2> HIDE DEF b
    <2> QED
      BY <2>1, <2>2, <2>3, <2>4, SeqEqual
  <1> HIDE DEF b
  <1> QED
    BY <1>6, <1>8, <1>9, <1>10

\* What an agent returns, trimmed: the history it was given, which ended in a
\* user's message, and fewer messages than the limit after it.
LEMMA FollowsTrim ==
    ASSUME NEW h \in Seq(Message), NEW s \in Seq(Message), Follows(h, s),
           h # << >>, h[Len(h)].kind = "human",
           NEW f \in Seq(Message), Len(f) >= Len(h), Len(f) - Len(h) < HistoryLimit,
           \A i \in 1..Len(h) : f[i] = h[i],
           \A i \in (Len(h) + 1)..Len(f) : f[i].kind # "human"
    PROVE  Follows(SafeTrim(f), s \o SubSeq(f, Len(h) + 1, Len(f)))
  <1> DEFINE x == SubSeq(f, Len(h) + 1, Len(f))
             ss == s \o x
             n == Len(f)
  <1>1. Len(h) \in Nat /\ Len(s) \in Nat /\ n \in Nat /\ HistoryLimit \in Nat
        /\ Len(h) >= 1 /\ Len(h) <= n /\ n - Len(h) < HistoryLimit
    BY ChatAssumption
  <1>2. /\ x \in Seq(Message) /\ Len(x) = n - Len(h)
        /\ \A i \in 1..(n - Len(h)) : x[i] = f[Len(h) + i]
    <2>1. Len(h) + 1 \in 1..(n + 1)
      BY <1>1
    <2>2. n - (Len(h) + 1) + 1 = n - Len(h)
      BY <1>1
    <2>3. \A i \in 1..(n - Len(h)) : Len(h) + 1 + i - 1 = Len(h) + i
      BY <1>1
    <2> QED
      BY <1>1, <2>1, <2>2, <2>3, SubSeqProperties
  <1> HIDE DEF x
  <1>3. /\ ss \in Seq(Message) /\ Len(ss) = Len(s) + (n - Len(h))
        /\ \A i \in 1..Len(s) : ss[i] = s[i]
        /\ \A i \in 1..(n - Len(h)) : ss[Len(s) + i] = f[Len(h) + i]
    <2> HIDE DEF n
    <2>0. ss \in Seq(Message) /\ Len(ss) = Len(s) + Len(x)
      BY <1>2, ConcatProperties
    <2>1. ss \in Seq(Message) /\ Len(ss) = Len(s) + (n - Len(h))
      BY <1>2, <2>0
    <2>2. \A i \in 1..Len(s) : ss[i] = s[i]
      BY <1>1, <1>2
    <2>3. \A i \in 1..(n - Len(h)) : ss[Len(s) + i] = x[i]
      BY <1>1, <1>2
    <2> QED
      BY <1>2, <2>1, <2>2, <2>3
  <1> HIDE DEF ss
  <1>4. PICK b \in 1..n :
              /\ SafeTrim(f) = SubSeq(f, b, n) /\ f[b].kind = "human"
              /\ \A i \in 1..n : f[i].kind = "human" /\ n - i < HistoryLimit => b <= i
    <2>1. Len(h) \in 1..n /\ f[Len(h)].kind = "human"
      BY <1>1
    <2> QED
      BY <1>1, <2>1, TrimAtAUser
  <1>5. b <= Len(h)
    BY <1>1, <1>4
  <1> DEFINE hh == SubSeq(f, b, n)
  <1>6. hh \in Seq(Message) /\ Len(hh) = n - b + 1
        /\ \A i \in 1..(n - b + 1) : hh[i] = f[b + i - 1]
    BY <1>1, <1>4, SubSeqProperties
  <1>7. b = 1 => hh = f /\ Len(hh) = n
    <2> SUFFICES ASSUME b = 1 PROVE hh = f /\ Len(hh) = n
      OBVIOUS
    <2>1. Len(hh) = n
      BY <1>1, <1>6
    <2>2. \A i \in 1..n : hh[i] = f[i]
      BY <1>1, <1>6
    <2> HIDE DEF hh
    <2> QED
      BY <1>6, <2>1, <2>2, SeqEqual
  <1> HIDE DEF n, hh
  <1>8. /\ Len(h) <= Len(s) /\ \A i \in 1..Len(h) : h[i] = s[Len(s) - Len(h) + i]
        /\ h[1].kind = "human"
        /\ Len(s) <= HistoryLimit => h = s
        /\ \A i \in 1..Len(s) :
              s[i].kind = "human" /\ Len(s) - i < HistoryLimit => Len(h) > Len(s) - i
    BY DEF Follows, Ends
  \* Both lists read from their ends agree on everything f holds.
  <1>9. \A j \in 1..n : ss[Len(ss) - n + j] = f[j]
    <2> TAKE j \in 1..n
    <2>1. CASE j <= Len(h)
      <3>1. Len(ss) - n + j = Len(s) - Len(h) + j /\ j \in 1..Len(h)
        BY <1>1, <1>3, <2>1
      <3>2. Len(s) - Len(h) + j \in 1..Len(s)
        BY <1>1, <1>8, <3>1
      <3>3. ss[Len(s) - Len(h) + j] = s[Len(s) - Len(h) + j]
        BY <1>3, <3>2
      <3>4. s[Len(s) - Len(h) + j] = h[j] /\ f[j] = h[j]
        BY <1>8, <3>1
      <3> QED
        BY <3>1, <3>3, <3>4
    <2>2. CASE j > Len(h)
      <3>1. j - Len(h) \in 1..(n - Len(h))
        BY <1>1, <2>2
      <3>2. ss[Len(s) + (j - Len(h))] = f[Len(h) + (j - Len(h))]
        BY <1>3, <3>1
      <3>3. Len(s) + (j - Len(h)) = Len(ss) - n + j /\ Len(h) + (j - Len(h)) = j
        BY <1>1, <1>3
      <3> QED
        BY <3>2, <3>3
    <2> QED
      BY <1>1, <2>1, <2>2
  <1>10. Ends(hh, ss)
    <2>1. Len(hh) <= Len(ss)
      BY <1>1, <1>3, <1>4, <1>6, <1>8
    <2>2. ASSUME NEW i \in 1..Len(hh)
          PROVE  hh[i] = ss[Len(ss) - Len(hh) + i]
      <3>1. b + i - 1 \in 1..n /\ i \in 1..(n - b + 1)
        BY <1>1, <1>4, <1>6
      <3>2. Len(ss) - n + (b + i - 1) = Len(ss) - Len(hh) + i
        BY <1>1, <1>3, <1>4, <1>6
      <3> QED
        BY <1>6, <1>9, <3>1, <3>2
    <2> QED
      BY <2>1, <2>2 DEF Ends
  <1>11. hh[1].kind = "human"
    <2>1. 1 \in 1..(n - b + 1) /\ b + 1 - 1 = b
      BY <1>1, <1>4
    <2> QED
      BY <1>4, <1>6, <2>1
  <1>12. ASSUME Len(ss) <= HistoryLimit PROVE hh = ss
    <2>1. h = s
      BY <1>1, <1>3, <1>8, <1>12
    <2>2. f[1].kind = "human" /\ n - 1 < HistoryLimit /\ 1 \in 1..n
      BY <1>1, <1>3, <1>8, <1>12, <2>1
    <2>3. b = 1
      BY <1>4, <2>2
    <2>4. hh = f /\ Len(hh) = n /\ Len(ss) = n
      BY <1>1, <1>3, <1>7, <2>1, <2>3
    <2>5. \A j \in 1..n : ss[j] = f[j]
      <3> TAKE j \in 1..n
      <3>1. Len(ss) - n + j = j
        BY <1>1, <2>4
      <3> QED
        BY <1>9, <3>1
    <2>6. Len(f) = n
      BY DEF n
    <2> QED
      BY <1>3, <2>4, <2>5, <2>6, SeqEqual
  <1>13. ASSUME NEW i \in 1..Len(ss), ss[i].kind = "human", Len(ss) - i < HistoryLimit
         PROVE  Len(hh) > Len(ss) - i
    <2>1. CASE i > Len(s)
      <3>1. i - Len(s) \in 1..(n - Len(h))
        BY <1>1, <1>3, <2>1
      <3>2. ss[Len(s) + (i - Len(s))] = f[Len(h) + (i - Len(s))]
        BY <1>3, <3>1
      <3>3. Len(s) + (i - Len(s)) = i /\ Len(h) + (i - Len(s)) \in (Len(h) + 1)..n
        BY <1>1, <1>3, <3>1
      <3> QED
        BY <1>13, <3>2, <3>3 DEF n
    <2>2. CASE i <= Len(s)
      <3> DEFINE j == i - Len(ss) + n
      <3>1. i \in 1..Len(s) /\ s[i].kind = "human" /\ Len(s) - i < HistoryLimit
        BY <1>1, <1>3, <1>13, <2>2
      <3>2. Len(h) > Len(s) - i
        BY <1>8, <3>1
      <3>3. j \in 1..n /\ n - j = Len(ss) - i /\ Len(ss) - n + j = i
        BY <1>1, <1>3, <3>1, <3>2
      <3> HIDE DEF j
      <3>4. f[j].kind = "human" /\ n - j < HistoryLimit
        BY <1>9, <1>13, <3>3
      <3>5. b <= j
        BY <1>4, <3>3, <3>4
      <3> QED
        BY <1>1, <1>3, <1>4, <1>6, <3>3, <3>5
    <2> QED
      BY <1>1, <1>3, <2>1, <2>2
  <1>14. Follows(hh, ss)
    BY <1>10, <1>11, <1>12, <1>13 DEF Follows
  <1> QED
    BY <1>4, <1>14 DEF hh, ss, x, n

\* Taking back a message that is the last one, and no other.
LEMMA RemovesTheLast ==
    ASSUME NEW s \in Seq(Message), NEW e \in Message, s # << >>, s[Len(s)] = e,
           \A i \in 1..(Len(s) - 1) : s[i] # e
    PROVE  RemoveFirst(s, e) = Front(s)
  <1>1. {i \in 1..Len(s) : s[i] = e} = {Len(s)}
    OBVIOUS
  <1>2. SelectInSeq(s, LAMBDA v: v = e) = Len(s)
    BY <1>1 DEF SelectInSeq, Min
  <1>3. RemoveFirst(s, e) = RemoveAt(s, Len(s))
    BY <1>1, <1>2 DEF RemoveFirst
  <1>4. SubSeq(s, Len(s) + 1, Len(s)) = << >>
    OBVIOUS
  <1> QED
    BY <1>3, <1>4, SubSeqProperties, ConcatEmptySeq DEF RemoveAt, Front

LEMMA FrontIsASeq ==
    ASSUME NEW s \in Seq(Message), s # << >>
    PROVE  /\ Front(s) \in Seq(Message) /\ Len(Front(s)) = Len(s) - 1
           /\ \A i \in 1..(Len(s) - 1) : Front(s)[i] = s[i]
           /\ Append(Front(s), s[Len(s)]) = s
  <1>1. Len(s) \in Nat /\ Len(s) >= 1
    OBVIOUS
  <1>2. /\ Front(s) \in Seq(Message) /\ Len(Front(s)) = Len(s) - 1
        /\ \A i \in 1..(Len(s) - 1) : Front(s)[i] = s[i]
    <2> DEFINE n == Len(s) - 1
    <2>1. n \in Int /\ n >= 0 /\ \A i \in 1..n : s[i] \in Message
      BY <1>1, ElementOfSeq
    <2> HIDE DEF n
    <2>2. /\ SubSeq(s, 1, n) \in Seq(Message) /\ Len(SubSeq(s, 1, n)) = n
          /\ \A i \in 1..n : SubSeq(s, 1, n)[i] = s[i]
      BY <2>1, SubSeqProperties
    <2> USE DEF n
    <2> QED
      BY <2>2 DEF Front
  <1>3. s[Len(s)] \in Message
    BY <1>1, ElementOfSeq
  <1>4. \A i \in 1..Len(s) : Append(Front(s), s[Len(s)])[i] = s[i]
    BY <1>1, <1>2, <1>3
  <1>5. Append(Front(s), s[Len(s)]) \in Seq(Message) /\ Len(Append(Front(s), s[Len(s)])) = Len(s)
    BY <1>1, <1>2, <1>3
  <1> QED
    BY <1>2, <1>4, <1>5, SeqEqual

LEMMA FrontOfAppend ==
    ASSUME NEW s \in Seq(Message), NEW m \in Message
    PROVE  Front(Append(s, m)) = s
  <1> DEFINE a == Append(s, m)
  <1>1. /\ a \in Seq(Message) /\ a # << >> /\ Len(a) = Len(s) + 1
        /\ \A i \in 1..Len(s) : a[i] = s[i]
    BY AppendProperties
  <1> HIDE DEF a
  <1>2. /\ Front(a) \in Seq(Message) /\ Len(Front(a)) = Len(a) - 1
        /\ \A i \in 1..(Len(a) - 1) : Front(a)[i] = a[i]
    BY <1>1, FrontIsASeq
  <1>3. Len(Front(a)) = Len(s) /\ \A i \in 1..Len(s) : Front(a)[i] = s[i]
    BY <1>1, <1>2
  <1>4. Front(a) = s
    BY <1>2, <1>3, SeqEqual
  <1> QED
    BY <1>4 DEF a

LEMMA RemoveFirstIsASeq ==
    ASSUME NEW s \in Seq(Message), NEW e \in Message
    PROVE  RemoveFirst(s, e) \in Seq(Message)
           /\ \A i \in 1..Len(RemoveFirst(s, e)) : \E j \in 1..Len(s) : RemoveFirst(s, e)[i] = s[j]
  <1> DEFINE where == {i \in 1..Len(s) : s[i] = e}
             j == SelectInSeq(s, LAMBDA v: v = e)
  <1>1. CASE where # {}
    <2>1. where \in SUBSET Nat
      OBVIOUS
    <2>2. Min(where) \in where
      BY <1>1, <2>1, FirstOf DEF Min
    <2>3. j = Min(where)
      BY <1>1 DEF SelectInSeq
    <2>4. j \in 1..Len(s)
      BY <2>2, <2>3
    <2>5. RemoveFirst(s, e) = RemoveAt(s, j)
      BY <1>1 DEF RemoveFirst
    <2> HIDE DEF j
    <2> DEFINE l == SubSeq(s, 1, j - 1)  r == SubSeq(s, j + 1, Len(s))
    <2>6. l \in Seq(Message) /\ Len(l) = j - 1 /\ \A i \in 1..Len(l) : l[i] = s[i]
      BY <2>4
    <2>7. r \in Seq(Message) /\ Len(r) = Len(s) - j /\ \A i \in 1..Len(r) : r[i] = s[j + i]
      BY <2>4
    <2> HIDE DEF l, r
    <2>8. l \o r \in Seq(Message)
      BY <2>6, <2>7, ConcatProperties
    <2>9. ASSUME NEW i \in 1..Len(l \o r) PROVE \E q \in 1..Len(s) : (l \o r)[i] = s[q]
      <3>1. CASE i <= Len(l)
        BY <2>4, <2>6, <2>7, <3>1
      <3>2. CASE i > Len(l)
        <4>0. Len(l \o r) = Len(l) + Len(r)
          BY <2>6, <2>7, ConcatProperties
        <4>1. Len(l \o r) = Len(s) - 1
          BY <2>4, <2>6, <2>7, <4>0
        <4>2. (l \o r)[i] = r[i - Len(l)] /\ i - Len(l) \in 1..Len(r)
          BY <2>4, <2>6, <2>7, <3>2, <4>1
        <4>3. j + (i - Len(l)) \in 1..Len(s)
          BY <2>4, <2>6, <2>7, <4>2
        <4> QED
          BY <2>7, <4>2, <4>3
      <3> QED
        BY <2>4, <2>6, <2>7, <3>1, <3>2
    <2>10. RemoveAt(s, j) = l \o r
      BY DEF RemoveAt, l, r
    <2> QED
      BY <2>5, <2>8, <2>9, <2>10
  <1>2. CASE where = {}
    BY <1>2 DEF RemoveFirst
  <1> QED
    BY <1>1, <1>2

-----------------------------------------------------------------------------
(* Types *)

LEMMA Said == \A t \in Turns, k \in Kinds : Say(t, k) \in Message
                 /\ Say(t, k).kind = k /\ Say(t, k).turn = t
  BY DEF Say, Message

LEMMA SaysSomeone ==
    ASSUME NEW q \in Seq(Message)
    PROVE  \A i \in 1..Len(q) : q[i] \in Message /\ q[i].turn \in Turns
  <1>1. \A i \in 1..Len(q) : q[i] \in Message
    BY ElementOfSeq
  <1>2. \A m \in Message : m.turn \in Turns
    BY DEF Message
  <1> QED
    BY <1>1, <1>2

\* A tuple of two is no empty tuple.
LEMMA ListIsAList == NoList \notin Lists
  <1> SUFFICES ASSUME NEW t \in Turns, NEW k \in {"opened", "stored"}, << >> = <<t, k>>
               PROVE  FALSE
    BY DEF NoList, Lists
  <1>1. Len(<<t, k>>) = 2 /\ Len(<< >>) = 0
    OBVIOUS
  <1> QED
    BY <1>1

LEMMA NextLock ==
    ASSUME ChatTypeOK
    PROVE  resets + 1 \in Locks /\ LockObject \in Locks
  BY ChatAssumption DEF ChatTypeOK, LockObject, Locks

LEMMA EndTurnTyped ==
    ASSUME ChatTypeOK, NEW t \in Turns, EndTurn(t)
    PROVE  /\ stage' \in [Turns -> {"new", "queued", "agent", "tools", "ended"}]
           /\ line' \in [Locks -> Seq(Turns)] /\ lock' \in {0} \cup Locks
           /\ held' \in [Turns -> {NoList} \cup Lists]
           /\ work' \in [Turns -> Seq(Message)] /\ base' \in [Turns -> Nat]
           /\ resets' \in 0..MaxResets /\ crossed' \in BOOLEAN
  <1>1. line' \in [Locks -> Seq(Turns)]
    <2> SUFFICES ASSUME NEW k \in Locks PROVE line'[k] \in Seq(Turns)
      BY DEF EndTurn
    <2>1. line[k] \in Seq(Turns)
      BY DEF ChatTypeOK
    <2>2. line[k] # << >> => Tail(line[k]) \in Seq(Turns)
      BY <2>1, HeadTailProperties
    <2> QED
      BY <2>1, <2>2 DEF EndTurn, Holds
  <1>2. << >> \in Seq(Message)
    OBVIOUS
  <1> QED
    BY <1>1, <1>2 DEF ChatTypeOK, EndTurn

LEMMA ChatStepTyped ==
    ASSUME ChatTypeOK, [ChatNext]_chatVars
    PROVE  ChatTypeOK'
  <1>1. ASSUME NEW t \in Turns, Ask(t) PROVE ChatTypeOK'
    <2>1. Append(line[LockObject], t) \in Seq(Turns)
      BY NextLock, AppendProperties DEF ChatTypeOK
    <2>2. line' \in [Locks -> Seq(Turns)] /\ lock' \in Locks
      BY <1>1, <2>1, NextLock DEF ChatTypeOK, Ask
    <2>3. stage' \in [Turns -> {"new", "queued", "agent", "tools", "ended"}]
      BY <1>1 DEF ChatTypeOK, Ask
    <2> QED
      BY <1>1, <2>2, <2>3 DEF ChatTypeOK, Ask
  <1>2. ASSUME NEW t \in Turns, BeginTurn(t) PROVE ChatTypeOK'
    <2> DEFINE l == IF current = NoList THEN <<t, "opened">> ELSE current
    <2>1. l \in Lists
      BY DEF ChatTypeOK, Lists
    <2> HIDE DEF l
    <2>2. /\ content' = [content EXCEPT ![l] = Append(@, Say(t, "human"))]
          /\ current' = l /\ held' = [held EXCEPT ![t] = l]
          /\ work' = [work EXCEPT ![t] = content'[l]]
          /\ base' = [base EXCEPT ![t] = Len(work'[t])]
          /\ stage' = [stage EXCEPT ![t] = "agent"]
          /\ said' = Append(said, Say(t, "human"))
          /\ UNCHANGED <<line, lock, resets, crossed>>
      BY <1>2 DEF BeginTurn, l
    <2>3. Say(t, "human") \in Message
      BY Said DEF Kinds
    <2>4. said' \in Seq(Message) /\ Append(content[l], Say(t, "human")) \in Seq(Message)
      BY <2>1, <2>2, <2>3 DEF ChatTypeOK
    <2>5. content' \in [Lists -> Seq(Message)] /\ content'[l] \in Seq(Message)
      BY <2>1, <2>2, <2>4 DEF ChatTypeOK
    <2>6. work' \in [Turns -> Seq(Message)] /\ work'[t] = content'[l]
      BY <2>2, <2>5 DEF ChatTypeOK
    <2>7. Len(work'[t]) \in Nat
      BY <2>5, <2>6
    <2> QED
      BY <2>1, <2>2, <2>4, <2>5, <2>6, <2>7 DEF ChatTypeOK
  <1>3. ASSUME NEW t \in Turns, CallTools(t) \/ RunTools(t) PROVE ChatTypeOK'
    <2>1. /\ Append(work[t], Say(t, "call")) \in Seq(Message)
          /\ Append(work[t], Say(t, "result")) \in Seq(Message)
      BY Said DEF ChatTypeOK, Kinds
    <2>2. work' \in [Turns -> Seq(Message)]
      BY <1>3, <2>1 DEF ChatTypeOK, CallTools, RunTools
    <2> QED
      BY <1>3, <2>2 DEF ChatTypeOK, CallTools, RunTools
  <1>4. ASSUME NEW t \in Turns, Answer(t) PROVE ChatTypeOK'
    <2> DEFINE final == Append(work[t], Say(t, "reply"))
               x == SubSeq(final, base[t] + 1, Len(final))
    <2>1. final \in Seq(Message)
      BY Said DEF ChatTypeOK, Kinds
    <2>2. EndTurn(t) /\ current' = <<t, "stored">> /\ said' = said \o x
          /\ content' = [content EXCEPT ![<<t, "stored">>] = SafeTrim(final)]
      BY <1>4 DEF Answer
    <2> HIDE DEF final
    <2>3. content' \in [Lists -> Seq(Message)]
      BY <2>1, <2>2, TrimIsASeq DEF ChatTypeOK
    <2>4. x \in Seq(Message)
      <3>1. base[t] + 1 \in Int /\ base[t] + 1 >= 1 /\ Len(final) \in Int
        BY <2>1 DEF ChatTypeOK
      <3>2. \A i \in (base[t] + 1)..Len(final) : final[i] \in Message
        BY <2>1, <3>1, ElementOfSeq
      <3> QED
        BY <3>1, <3>2, SubSeqProperties
    <2> HIDE DEF x
    <2>5. said' \in Seq(Message)
      BY <2>2, <2>4, ConcatProperties DEF ChatTypeOK
    <2>6. current' \in Lists
      BY <2>2 DEF Lists
    <2> QED
      BY <2>2, <2>3, <2>5, <2>6, EndTurnTyped DEF ChatTypeOK
  <1>5. ASSUME NEW t \in Turns, AbortTurn(t) PROVE ChatTypeOK'
    <2>1. \A c \in Seq(Message) : WithoutLast(c) \in Seq(Message)
      BY FrontIsASeq DEF WithoutLast
    <2>2. content' \in [Lists -> Seq(Message)]
      BY <1>5, <2>1 DEF ChatTypeOK, AbortTurn
    <2>3. said' \in Seq(Message)
      <3>1. Say(t, "human") \in Message
        BY Said DEF Kinds
      <3> QED
        BY <1>5, <3>1, RemoveFirstIsASeq DEF ChatTypeOK, AbortTurn
    <2> QED
      BY <1>5, <2>2, <2>3, EndTurnTyped DEF ChatTypeOK, AbortTurn
  <1>6. ASSUME NEW t \in Turns, FailTurn(t) PROVE ChatTypeOK'
    BY <1>6, EndTurnTyped DEF ChatTypeOK, FailTurn
  <1>7. CASE Reset
    <2>1. << >> \in Seq(Message)
      OBVIOUS
    <2>2. resets' \in 0..MaxResets
      BY <1>7, ChatAssumption DEF ChatTypeOK, Reset
    <2> QED
      BY <1>7, <2>1, <2>2 DEF ChatTypeOK, Reset
  <1>8. CASE UNCHANGED chatVars
    BY <1>8 DEF ChatTypeOK, chatVars
  <1> QED
    BY <1>1, <1>2, <1>3, <1>4, <1>5, <1>6, <1>7, <1>8 DEF ChatNext

-----------------------------------------------------------------------------
(* Lines *)

\* The line of the session grows at its end.
LEMMA LinesAfterAsk ==
    ASSUME ChatTypeOK, LinesInOrder, NEW t \in Turns, Ask(t)
    PROVE  LinesInOrder'
  <1> DEFINE c == resets + 1
  <1>1. c \in Locks /\ LockObject = c /\ resets \in Nat
    BY NextLock DEF ChatTypeOK, LinesInOrder, LockObject
  <1>2. /\ stage[t] = "new" /\ stage' = [stage EXCEPT ![t] = "queued"]
        /\ lock' = c /\ line' = [line EXCEPT ![c] = Append(@, t)]
        /\ resets' = resets
    BY <1>1 DEF Ask
  <1> HIDE DEF c
  <1>3. \A k \in Locks : k # c => line'[k] = line[k]
    BY <1>1, <1>2 DEF ChatTypeOK
  <1>4. line[c] \in Seq(Turns)
    BY <1>1 DEF ChatTypeOK
  <1>5. line'[c] = Append(line[c], t)
    BY <1>1, <1>2 DEF ChatTypeOK
  <1>6. /\ Len(line[c]) \in Nat /\ Len(line'[c]) = Len(line[c]) + 1
        /\ line'[c][Len(line[c]) + 1] = t
        /\ \A i \in 1..Len(line[c]) : line'[c][i] = line[c][i]
    BY <1>4, <1>5
  <1>7. \A k \in Locks : \A i \in 1..Len(line[k]) : line[k][i] \in InFlight /\ line[k][i] # t
    BY <1>2 DEF LinesInOrder, InFlight, Running
  <1>8. InFlight \subseteq InFlight' /\ t \in InFlight'
    BY <1>2 DEF ChatTypeOK, InFlight, Running
  <1>9. ASSUME NEW k \in Locks, NEW i \in 1..Len(line'[k])
        PROVE  \/ i \in 1..Len(line[k]) /\ line'[k][i] = line[k][i]
               \/ k = c /\ i = Len(line[c]) + 1 /\ line'[k][i] = t
    <2>1. CASE k = c
      BY <1>6, <2>1
    <2>2. CASE k # c
      BY <1>3, <2>2
    <2> QED
      BY <2>1, <2>2
  <1>10. \A k \in Locks : \A i \in 1..Len(line'[k]) : line'[k][i] \in InFlight'
    BY <1>7, <1>8, <1>9
  <1>11. ASSUME NEW k \in Locks, NEW l \in Locks,
                NEW i \in 1..Len(line'[k]), NEW j \in 1..Len(line'[l]), line'[k][i] = line'[l][j]
         PROVE  k = l /\ i = j
    <2>1. CASE line'[k][i] = t
      <3>1. k = c /\ i = Len(line[c]) + 1 /\ l = c /\ j = Len(line[c]) + 1
        BY <1>7, <1>9, <1>11, <2>1
      <3> QED
        BY <3>1
    <2>2. CASE line'[k][i] # t
      <3>1. /\ i \in 1..Len(line[k]) /\ line'[k][i] = line[k][i]
            /\ j \in 1..Len(line[l]) /\ line'[l][j] = line[l][j]
        BY <1>9, <1>11, <2>2
      <3>2. line[k][i] = line[l][j]
        BY <1>11, <3>1
      <3> QED
        BY <3>1, <3>2 DEF LinesInOrder
    <2> QED
      BY <2>1, <2>2
  <1>12. ASSUME NEW u \in Turns, Running(u)' PROVE \E k \in Locks : Holds(u, k)'
    <2>1. Running(u)
      BY <1>2, <1>12 DEF ChatTypeOK, Running
    <2>2. PICK k \in Locks : Holds(u, k)
      BY <2>1 DEF LinesInOrder
    <2>3. CASE k = c
      <3>1. line[c] # << >> /\ Head(line[c]) = line[c][1] /\ 1 \in 1..Len(line[c])
        BY <1>4, <2>2, <2>3 DEF Holds
      <3>2. line'[c] # << >> /\ Head(line'[c]) = line'[c][1]
        BY <1>4, <1>5
      <3> QED
        BY <1>6, <2>2, <2>3, <3>1, <3>2 DEF Holds
    <2>4. CASE k # c
      BY <1>3, <2>2, <2>4 DEF Holds
    <2> QED
      BY <2>3, <2>4
  <1>13. \A k \in Locks : k > c => line'[k] = << >>
    BY <1>1, <1>3 DEF LinesInOrder, Locks, c
  <1> QED
    BY <1>1, <1>2, <1>10, <1>11, <1>12, <1>13 DEF LinesInOrder, c

\* The turn that ends was the first of its line and of no other.
LEMMA LinesAfterTurn ==
    ASSUME ChatTypeOK, LinesInOrder, NEW t \in Turns, Running(t), EndTurn(t)
    PROVE  LinesInOrder'
  <1> DEFINE d(k) == IF Holds(t, k) THEN 1 ELSE 0
  <1>1. ASSUME NEW k \in Locks
        PROVE  /\ Len(line'[k]) = Len(line[k]) - d(k)
               /\ \A i \in 1..Len(line'[k]) : /\ i + d(k) \in 1..Len(line[k])
                                              /\ line'[k][i] = line[k][i + d(k)]
    <2>1. line[k] \in Seq(Turns)
      BY DEF ChatTypeOK
    <2>2. CASE Holds(t, k)
      <3>1. line'[k] = Tail(line[k]) /\ line[k] # << >>
        BY <2>2 DEF EndTurn, Holds
      <3>2. /\ Len(Tail(line[k])) = Len(line[k]) - 1
            /\ \A i \in 1..Len(Tail(line[k])) : Tail(line[k])[i] = line[k][i + 1]
        BY <2>1, <3>1, HeadTailProperties
      <3> QED
        BY <2>1, <2>2, <3>1, <3>2
    <2>3. CASE ~Holds(t, k)
      <3>1. line'[k] = line[k]
        BY <2>3 DEF EndTurn
      <3> QED
        BY <2>1, <2>3, <3>1
    <2> QED
      BY <2>2, <2>3
  <1>2. stage' = [stage EXCEPT ![t] = "ended"] /\ UNCHANGED <<lock, resets>>
    BY DEF EndTurn
  <1>3. \A k \in Locks : d(k) \in {0, 1}
    OBVIOUS
  <1>4. PICK m \in Locks : Holds(t, m)
    BY DEF LinesInOrder
  <1>5. line[m] # << >> /\ line[m][1] = t /\ 1 \in 1..Len(line[m]) /\ d(m) = 1
    <2>1. line[m] \in Seq(Turns)
      BY DEF ChatTypeOK
    <2> QED
      BY <1>4, <2>1 DEF Holds
  <1> HIDE DEF d
  <1>6. ASSUME NEW k \in Locks, NEW i \in 1..Len(line'[k])
        PROVE  line'[k][i] \in InFlight'
    <2>1. i + d(k) \in 1..Len(line[k]) /\ line'[k][i] = line[k][i + d(k)]
      BY <1>1
    <2>2. line[k][i + d(k)] \in InFlight
      BY <2>1 DEF LinesInOrder
    <2>3. ASSUME line[k][i + d(k)] = t PROVE FALSE
      <3>1. k = m /\ i + d(k) = 1
        BY <1>5, <2>1, <2>3 DEF LinesInOrder
      <3> QED
        BY <1>5, <3>1
    <2> QED
      BY <1>2, <2>1, <2>2, <2>3 DEF ChatTypeOK, InFlight, Running
  <1>7. ASSUME NEW k \in Locks, NEW l \in Locks,
               NEW i \in 1..Len(line'[k]), NEW j \in 1..Len(line'[l]), line'[k][i] = line'[l][j]
        PROVE  k = l /\ i = j
    <2>1. /\ i + d(k) \in 1..Len(line[k]) /\ j + d(l) \in 1..Len(line[l])
          /\ line[k][i + d(k)] = line[l][j + d(l)]
      BY <1>1, <1>7
    <2>2. k = l /\ i + d(k) = j + d(l)
      BY <2>1 DEF LinesInOrder
    <2> QED
      BY <1>3, <2>2
  <1>8. ASSUME NEW u \in Turns, Running(u)' PROVE \E k \in Locks : Holds(u, k)'
    <2>1. u # t /\ Running(u)
      BY <1>2, <1>8 DEF ChatTypeOK, Running
    <2>2. PICK k \in Locks : Holds(u, k)
      BY <2>1 DEF LinesInOrder
    <2>3. ~Holds(t, k)
      BY <2>1, <2>2 DEF Holds
    <2>4. line'[k] = line[k]
      BY <2>3 DEF EndTurn
    <2> QED
      BY <2>2, <2>4 DEF Holds
  <1>9. \A k \in Locks : line[k] = << >> => line'[k] = << >>
    BY DEF EndTurn, Holds
  <1>10. resets + 1 \in Locks
    BY NextLock
  <1> QED
    BY <1>2, <1>6, <1>7, <1>8, <1>9, <1>10 DEF LinesInOrder

LEMMA LinesStep ==
    ASSUME ChatTypeOK, LinesInOrder, [ChatNext]_chatVars
    PROVE  LinesInOrder'
  <1>1. ASSUME NEW t \in Turns, BeginTurn(t) PROVE LinesInOrder'
    <2>1. stage' = [stage EXCEPT ![t] = "agent"] /\ stage[t] = "queued"
          /\ (\E k \in Locks : Holds(t, k)) /\ UNCHANGED <<line, lock, resets>>
      BY <1>1 DEF BeginTurn
    <2>2. InFlight' = InFlight /\ \A u \in Turns : Running(u)' => Running(u) \/ u = t
      BY <2>1 DEF ChatTypeOK, InFlight, Running
    <2> QED
      BY <2>1, <2>2 DEF LinesInOrder, Holds
  <1>2. ASSUME NEW t \in Turns, CallTools(t) \/ RunTools(t) PROVE LinesInOrder'
    <2>1. Running(t) /\ UNCHANGED <<line, lock, resets>>
          /\ \E s \in {"agent", "tools"} : stage' = [stage EXCEPT ![t] = s]
      BY <1>2 DEF CallTools, RunTools, Running
    <2>2. InFlight' = InFlight /\ \A u \in Turns : Running(u)' => Running(u)
      BY <2>1 DEF ChatTypeOK, InFlight, Running
    <2> QED
      BY <2>1, <2>2 DEF LinesInOrder, Holds
  <1>3. ASSUME NEW t \in Turns, Answer(t) \/ AbortTurn(t) \/ FailTurn(t) PROVE LinesInOrder'
    BY <1>3, LinesAfterTurn DEF Answer, AbortTurn, FailTurn, Running
  <1>4. CASE Reset
    <2>1. /\ resets' = resets + 1 /\ resets < MaxResets /\ lock' = 0
          /\ UNCHANGED <<stage, line>>
      BY <1>4 DEF Reset
    <2>2. resets \in Nat /\ resets + 2 \in Locks /\ resets + 2 > resets + 1
      BY <2>1, ChatAssumption DEF ChatTypeOK, Locks
    <2>3. line[resets + 2] = << >> /\ resets' + 1 = resets + 2
      BY <2>1, <2>2 DEF LinesInOrder
    <2>4. \A k \in Locks : k > resets' + 1 => line'[k] = << >>
      BY <2>1, <2>2, <2>3 DEF LinesInOrder, Locks
    <2>5. InFlight' = InFlight
      BY <2>1 DEF InFlight, Running
    <2> QED
      BY <2>1, <2>3, <2>4, <2>5 DEF LinesInOrder, Holds, Running
  <1>5. CASE UNCHANGED chatVars
    BY <1>5 DEF chatVars, LinesInOrder, InFlight, Running, Holds
  <1> QED
    BY <1>1, <1>2, <1>3, <1>4, <1>5, LinesAfterAsk DEF ChatNext

-----------------------------------------------------------------------------
(* What a turn leaves before it begins and while it runs *)

LEMMA BegunStays ==
    ASSUME ChatTypeOK, [ChatNext]_chatVars
    PROVE  \A t \in Turns : Begun(stage, t) => Begun(stage', t)
  <1>1. ASSUME NEW t \in Turns, Ask(t) PROVE \A u \in Turns : Begun(stage, u) => Begun(stage', u)
    BY <1>1 DEF Ask, Begun, ChatTypeOK
  <1>2. ASSUME NEW t \in Turns, BeginTurn(t) PROVE \A u \in Turns : Begun(stage, u) => Begun(stage', u)
    BY <1>2 DEF BeginTurn, Begun, ChatTypeOK
  <1>3. ASSUME NEW t \in Turns, CallTools(t) \/ RunTools(t) PROVE \A u \in Turns : Begun(stage, u) => Begun(stage', u)
    BY <1>3 DEF CallTools, RunTools, Begun, ChatTypeOK
  <1>4. ASSUME NEW t \in Turns, EndTurn(t) PROVE \A u \in Turns : Begun(stage, u) => Begun(stage', u)
    BY <1>4 DEF EndTurn, Begun, ChatTypeOK
  <1>5. CASE Reset
    BY <1>5 DEF Reset, Begun
  <1>6. CASE UNCHANGED chatVars
    BY <1>6 DEF chatVars, Begun
  <1> QED
    BY <1>1, <1>2, <1>3, <1>4, <1>5, <1>6 DEF ChatNext, Answer, AbortTurn, FailTurn

LEMMA AddsItsOwn ==
    ASSUME ChatTypeOK, NothingSaidYet, NEW t \in Turns, CallTools(t) \/ RunTools(t)
    PROVE  \A u \in Turns : Running(u)' =>
              /\ held'[u] # NoList /\ base'[u] <= Len(work'[u])
              /\ \A i \in (base'[u] + 1)..Len(work'[u]) :
                    work'[u][i].turn = u /\ work'[u][i].kind # "human"
  <1>1. PICK k \in {"call", "result"} : work' = [work EXCEPT ![t] = Append(@, Say(t, k))]
    BY DEF CallTools, RunTools
  <1>2. PICK s \in {"agent", "tools"} : stage' = [stage EXCEPT ![t] = s]
    BY DEF CallTools, RunTools
  <1>3. Running(t) /\ UNCHANGED <<held, base>>
    BY DEF CallTools, RunTools, Running
  <1> SUFFICES ASSUME NEW u \in Turns, Running(u)'
               PROVE  /\ held'[u] # NoList /\ base'[u] <= Len(work'[u])
                      /\ \A i \in (base'[u] + 1)..Len(work'[u]) :
                            work'[u][i].turn = u /\ work'[u][i].kind # "human"
    OBVIOUS
  <1>4. Running(u)
    BY <1>2, <1>3 DEF Running, ChatTypeOK
  <1>5. /\ held[u] # NoList /\ base[u] <= Len(work[u])
        /\ \A i \in (base[u] + 1)..Len(work[u]) :
              work[u][i].turn = u /\ work[u][i].kind # "human"
    BY <1>4 DEF NothingSaidYet
  <1>6. work[u] \in Seq(Message) /\ base[u] \in Nat
    BY DEF ChatTypeOK
  <1>7. CASE u = t
    <2>1. work'[t] = Append(work[t], Say(t, k))
      BY <1>1 DEF ChatTypeOK
    <2>2. Say(t, k).turn = t /\ Say(t, k).kind # "human"
      BY Said DEF Kinds
    <2>3. /\ Len(work'[t]) = Len(work[t]) + 1 /\ work'[t][Len(work[t]) + 1] = Say(t, k)
          /\ \A i \in 1..Len(work[t]) : work'[t][i] = work[t][i]
      BY <1>6, <1>7, <2>1
    <2>4. ASSUME NEW i \in (base[t] + 1)..Len(work'[t])
          PROVE  work'[t][i].turn = t /\ work'[t][i].kind # "human"
      <3>1. \/ i = Len(work[t]) + 1
            \/ i \in 1..Len(work[t]) /\ i \in (base[t] + 1)..Len(work[t])
        BY <1>6, <1>7, <2>3
      <3> QED
        BY <1>5, <1>7, <2>2, <2>3, <3>1
    <2> QED
      BY <1>3, <1>5, <1>6, <1>7, <2>3, <2>4
  <1>8. CASE u # t
    <2>1. work'[u] = work[u]
      BY <1>1, <1>8 DEF ChatTypeOK
    <2> QED
      BY <1>3, <1>5, <2>1
  <1> QED
    BY <1>7, <1>8

LEMMA SaidAtTheStart ==
    ASSUME ChatTypeOK, NothingSaidYet, NEW t \in Turns, BeginTurn(t)
    PROVE  NothingSaidYet'
  <1> DEFINE l == IF current = NoList THEN <<t, "opened">> ELSE current
  <1>1. l \in Lists /\ l[1] \in Turns /\ (l[1] = t \/ Begun(stage, l[1]))
    BY DEF ChatTypeOK, Lists, NothingSaidYet
  <1> HIDE DEF l
  <1>2. /\ content' = [content EXCEPT ![l] = Append(@, Say(t, "human"))]
        /\ current' = l /\ held' = [held EXCEPT ![t] = l]
        /\ work' = [work EXCEPT ![t] = content'[l]]
        /\ base' = [base EXCEPT ![t] = Len(work'[t])]
        /\ stage[t] = "queued" /\ stage' = [stage EXCEPT ![t] = "agent"]
        /\ said' = Append(said, Say(t, "human"))
    BY DEF BeginTurn, l
  <1>3. /\ ~Begun(stage, t) /\ Begun(stage', t) /\ \A u \in Turns : Begun(stage, u) => Begun(stage', u)
        /\ \A u \in Turns : ~Begun(stage', u) => u # t /\ ~Begun(stage, u)
        /\ \A u \in Turns : Running(u)' => u = t \/ Running(u)
    BY <1>2 DEF ChatTypeOK, Begun, Running
  <1>4. said \in Seq(Message) /\ Say(t, "human") \in Message /\ Say(t, "human").turn = t
    BY Said DEF ChatTypeOK, Kinds
  <1>5. \A i \in 1..Len(said') : Begun(stage', said'[i].turn)
    <2> TAKE i \in 1..Len(said')
    <2>1. CASE i \in 1..Len(said)
      <3>1. said'[i] = said[i]
        BY <1>2, <1>4, <2>1
      <3>2. said[i].turn \in Turns
        BY <1>4, <2>1, SaysSomeone
      <3> QED
        BY <1>3, <2>1, <3>1, <3>2 DEF NothingSaidYet
    <2>2. CASE i \notin 1..Len(said)
      <3>1. said'[i] = Say(t, "human")
        BY <1>2, <1>4, <2>2
      <3> QED
        BY <1>3, <1>4, <3>1
    <2> QED
      BY <2>1, <2>2
  <1>6. ASSUME NEW u \in Turns, ~Begun(stage', u) PROVE content'[<<u, "opened">>] = << >>
    <2>1. u # t /\ ~Begun(stage, u)
      BY <1>3, <1>6
    <2>2. <<u, "opened">> # l /\ <<u, "opened">> \in Lists
      BY <1>1, <2>1 DEF Lists
    <2>3. content'[<<u, "opened">>] = content[<<u, "opened">>]
      BY <1>2, <2>2 DEF ChatTypeOK
    <2> QED
      BY <2>1, <2>3 DEF NothingSaidYet
  <1>7. current' \in Lists /\ Begun(stage', current'[1])
    BY <1>1, <1>2, <1>3
  <1>8. ASSUME NEW u \in Turns, held'[u] # NoList
        PROVE  held'[u] \in Lists /\ Begun(stage', held'[u][1])
    <2>1. CASE u = t
      <3>1. held'[u] = l
        BY <1>2, <2>1 DEF ChatTypeOK
      <3> QED
        BY <1>1, <1>3, <3>1
    <2>2. CASE u # t
      <3>1. held'[u] = held[u]
        BY <1>2, <2>2 DEF ChatTypeOK
      <3>2. held[u] \in Lists /\ Begun(stage, held[u][1]) /\ held[u][1] \in Turns
        BY <1>8, <3>1 DEF NothingSaidYet, Lists
      <3> QED
        BY <1>3, <3>1, <3>2
    <2> QED
      BY <2>1, <2>2
  <1>9. ASSUME NEW u \in Turns, Running(u)'
        PROVE  /\ held'[u] # NoList /\ base'[u] <= Len(work'[u])
               /\ \A i \in (base'[u] + 1)..Len(work'[u]) :
                     work'[u][i].turn = u /\ work'[u][i].kind # "human"
    <2>1. CASE u = t
      <3>1. held'[t] # NoList
        BY <1>1, <1>2, ListIsAList DEF ChatTypeOK
      <3>2. base'[t] = Len(work'[t])
        BY <1>2 DEF ChatTypeOK
      <3>3. work'[t] \in Seq(Message)
        BY ChatStepTyped DEF ChatNext, ChatTypeOK
      <3>4. Len(work'[t]) \in Nat
        BY <3>3
      <3> QED
        BY <2>1, <3>1, <3>2, <3>4
    <2>2. CASE u # t
      <3>1. held'[u] = held[u] /\ base'[u] = base[u] /\ work'[u] = work[u]
        BY <1>2, <2>2 DEF ChatTypeOK
      <3> QED
        BY <1>3, <1>9, <2>2, <3>1 DEF NothingSaidYet
    <2> QED
      BY <2>1, <2>2
  <1> QED
    BY <1>5, <1>6, <1>7, <1>8, <1>9 DEF NothingSaidYet

\* An ended turn touched its own list, and said nothing for another.
LEMMA SaidAtTheEnd ==
    ASSUME ChatTypeOK, NothingSaidYet, NEW t \in Turns,
           Answer(t) \/ AbortTurn(t) \/ FailTurn(t)
    PROVE  NothingSaidYet'
  <1>1. EndTurn(t) /\ Running(t) /\ Begun(stage, t)
    BY DEF Answer, AbortTurn, FailTurn, Running, Begun
  <1>2. /\ stage' = [stage EXCEPT ![t] = "ended"] /\ held' = [held EXCEPT ![t] = NoList]
        /\ work' = [work EXCEPT ![t] = << >>] /\ base' = [base EXCEPT ![t] = 0]
    BY <1>1 DEF EndTurn
  <1>3. /\ \A u \in Turns : Begun(stage, u) <=> Begun(stage', u)
        /\ \A u \in Turns : Running(u)' => u # t /\ Running(u)
    BY <1>1, <1>2 DEF ChatTypeOK, Begun, Running
  <1>4. \A i \in 1..Len(said) : Begun(stage', said[i].turn)
    <2>1. \A i \in 1..Len(said) : said[i].turn \in Turns
      BY SaysSomeone DEF ChatTypeOK
    <2> QED
      BY <1>3, <2>1 DEF NothingSaidYet
  <1>5. \A l \in Lists : l[1] \in Turns
    BY DEF Lists
  <1>6. held[t] \in Lists /\ Begun(stage, held[t][1])
    BY <1>1 DEF NothingSaidYet
  <1>7. \A i \in 1..Len(said') : Begun(stage', said'[i].turn)
    <2>1. CASE Answer(t)
      <3> DEFINE f == Append(work[t], Say(t, "reply"))
                 x == SubSeq(f, base[t] + 1, Len(f))
      <3>1. said' = said \o x
        BY <2>1 DEF Answer
      <3>2. /\ f \in Seq(Message) /\ Len(f) = Len(work[t]) + 1 /\ f[Len(work[t]) + 1].turn = t
            /\ \A i \in 1..Len(work[t]) : f[i] = work[t][i]
        BY Said DEF ChatTypeOK, Kinds
      <3>3. base[t] \in Nat /\ Len(work[t]) \in Nat /\ base[t] <= Len(work[t])
            /\ \A i \in (base[t] + 1)..Len(work[t]) : work[t][i].turn = t
        BY <1>1 DEF ChatTypeOK, NothingSaidYet
      <3>4. \A i \in (base[t] + 1)..Len(f) : f[i].turn = t
        <4> TAKE i \in (base[t] + 1)..Len(f)
        <4>1. CASE i = Len(work[t]) + 1
          BY <3>2, <4>1
        <4>2. CASE i # Len(work[t]) + 1
          <5>1. i \in 1..Len(work[t]) /\ i \in (base[t] + 1)..Len(work[t])
            BY <3>2, <3>3, <4>2
          <5> QED
            BY <3>2, <3>3, <5>1
        <4> QED
          BY <4>1, <4>2
      <3> HIDE DEF f
      <3>5. /\ x \in Seq(Message) /\ Len(x) = Len(f) - base[t]
            /\ \A i \in 1..(Len(f) - base[t]) : x[i] = f[base[t] + i]
        <4>1. base[t] + 1 \in Int /\ Len(f) \in Int /\ base[t] + 1 <= Len(f)
          BY <3>2, <3>3
        <4>2. \A i \in (base[t] + 1)..Len(f) : f[i] \in Message
          BY <3>2, <3>3, ElementOfSeq
        <4>3. Len(f) - (base[t] + 1) + 1 = Len(f) - base[t]
              /\ \A i \in 1..(Len(f) - base[t]) : base[t] + 1 + i - 1 = base[t] + i
          BY <3>3, <4>1
        <4> QED
          BY <4>1, <4>2, <4>3, SubSeqProperties
      <3> HIDE DEF x
      <3>6. \A i \in 1..Len(x) : x[i].turn = t
        <4> TAKE i \in 1..Len(x)
        <4>1. base[t] + i \in (base[t] + 1)..Len(f) /\ i \in 1..(Len(f) - base[t])
          BY <3>2, <3>3, <3>5
        <4> QED
          BY <3>4, <3>5, <4>1
      <3>7. said \in Seq(Message)
        BY DEF ChatTypeOK
      <3>8. ASSUME NEW i \in 1..Len(said') PROVE Begun(stage', said'[i].turn)
        <4>1. CASE i <= Len(said)
          BY <1>4, <3>1, <3>5, <3>7, <4>1
        <4>2. CASE i > Len(said)
          <5>0. Len(said') = Len(said) + Len(x)
            BY <3>1, <3>5, <3>7, ConcatProperties
          <5>1. Len(said') = Len(said) + Len(x) /\ said'[i] = x[i - Len(said)]
            BY <3>1, <3>5, <3>7, <3>8, <4>2, <5>0
          <5>2. i - Len(said) \in 1..Len(x)
            BY <3>5, <3>7, <4>2, <5>1
          <5> QED
            BY <1>1, <1>3, <3>6, <5>1, <5>2
        <4> QED
          BY <3>7, <4>1, <4>2
      <3> QED
        BY <3>8
    <2>2. CASE AbortTurn(t)
      <3>1. said' = RemoveFirst(said, Say(t, "human")) /\ Say(t, "human") \in Message
        BY <2>2, Said DEF AbortTurn, Kinds
      <3>2. \A i \in 1..Len(said') : \E j \in 1..Len(said) : said'[i] = said[j]
        BY <3>1, RemoveFirstIsASeq DEF ChatTypeOK
      <3> QED
        BY <1>4, <3>2
    <2>3. CASE FailTurn(t)
      BY <1>4, <2>3 DEF FailTurn
    <2> QED
      BY <2>1, <2>2, <2>3
  <1>8. ASSUME NEW u \in Turns, ~Begun(stage', u) PROVE content'[<<u, "opened">>] = << >>
    <2>1. ~Begun(stage, u) /\ u # t
      BY <1>1, <1>3, <1>8
    <2>2. /\ <<u, "opened">> \in Lists /\ <<u, "opened">> # held[t]
          /\ <<u, "opened">> # <<t, "stored">>
      BY <1>6, <2>1 DEF Lists
    <2>3. content'[<<u, "opened">>] = content[<<u, "opened">>]
      BY <2>2 DEF ChatTypeOK, Answer, AbortTurn, FailTurn
    <2> QED
      BY <2>1, <2>3 DEF NothingSaidYet
  <1>9. current' # NoList => current' \in Lists /\ Begun(stage', current'[1])
    <2>1. CASE Answer(t)
      BY <1>1, <1>3, <2>1 DEF Answer, Lists
    <2>2. CASE AbortTurn(t) \/ FailTurn(t)
      BY <1>3, <1>5, <2>2 DEF AbortTurn, FailTurn, NothingSaidYet
    <2> QED
      BY <2>1, <2>2
  <1>10. ASSUME NEW u \in Turns, held'[u] # NoList
         PROVE  held'[u] \in Lists /\ Begun(stage', held'[u][1])
    <2>1. held'[u] = held[u]
      BY <1>2, <1>10 DEF ChatTypeOK
    <2> QED
      BY <1>3, <1>5, <1>10, <2>1 DEF NothingSaidYet
  <1>11. ASSUME NEW u \in Turns, Running(u)'
         PROVE  /\ held'[u] # NoList /\ base'[u] <= Len(work'[u])
                /\ \A i \in (base'[u] + 1)..Len(work'[u]) :
                      work'[u][i].turn = u /\ work'[u][i].kind # "human"
    <2>1. u # t /\ Running(u)
      BY <1>3, <1>11
    <2>2. held'[u] = held[u] /\ base'[u] = base[u] /\ work'[u] = work[u]
      BY <1>2, <2>1 DEF ChatTypeOK
    <2> QED
      BY <2>1, <2>2 DEF NothingSaidYet
  <1> QED
    BY <1>7, <1>8, <1>9, <1>10, <1>11 DEF NothingSaidYet

LEMMA SaidStep ==
    ASSUME ChatTypeOK, NothingSaidYet, [ChatNext]_chatVars
    PROVE  NothingSaidYet'
  <1>0. \A t \in Turns : Begun(stage, t) => Begun(stage', t)
    BY BegunStays
  <1>1. ASSUME NEW t \in Turns, Ask(t) PROVE NothingSaidYet'
    <2>1. \A u \in Turns : (~Begun(stage', u) => ~Begun(stage, u)) /\ (Running(u)' => Running(u))
      BY <1>1 DEF Ask, Running, Begun, ChatTypeOK
    <2>2. UNCHANGED <<content, current, held, work, base, said>>
      BY <1>1 DEF Ask
    <2>3. \A i \in 1..Len(said) : said[i].turn \in Turns
      BY SaysSomeone DEF ChatTypeOK
    <2>4. \A l \in Lists : l[1] \in Turns
      BY DEF Lists
    <2> QED
      BY <1>0, <2>1, <2>2, <2>3, <2>4 DEF NothingSaidYet
  <1>2. ASSUME NEW t \in Turns, BeginTurn(t) PROVE NothingSaidYet'
    BY <1>2, SaidAtTheStart
  <1>3. ASSUME NEW t \in Turns, CallTools(t) \/ RunTools(t) PROVE NothingSaidYet'
    <2>1. \A u \in Turns : ~Begun(stage', u) => ~Begun(stage, u)
      BY <1>0
    <2>2. UNCHANGED <<content, current, held, said>>
      BY <1>3 DEF CallTools, RunTools
    <2>3. \A i \in 1..Len(said) : said[i].turn \in Turns
      BY SaysSomeone DEF ChatTypeOK
    <2>4. \A l \in Lists : l[1] \in Turns
      BY DEF Lists
    <2> QED
      BY <1>0, <1>3, <2>1, <2>2, <2>3, <2>4, AddsItsOwn DEF NothingSaidYet
  <1>4. ASSUME NEW t \in Turns, Answer(t) \/ AbortTurn(t) \/ FailTurn(t) PROVE NothingSaidYet'
    BY <1>0, <1>4, SaidAtTheEnd
  <1>5. CASE Reset
    BY <1>5 DEF Reset, NothingSaidYet, Begun, Running
  <1>6. CASE UNCHANGED chatVars
    BY <1>6 DEF chatVars, NothingSaidYet, Begun, Running
  <1> QED
    BY <1>1, <1>2, <1>3, <1>4, <1>5, <1>6 DEF ChatNext

-----------------------------------------------------------------------------
(* One line, one turn *)

LEMMA OneLineStep ==
    ASSUME ChatTypeOK, LinesInOrder, OneLine, [ChatNext]_chatVars
    PROVE  OneLine'
  <1>1. ASSUME NEW t \in Turns, Ask(t) PROVE OneLine'
    <2>1. LockObject = resets + 1
      BY DEF LinesInOrder, LockObject
    <2>2. \A k \in Locks : k # resets + 1 => line'[k] = line[k]
      BY <1>1, <2>1 DEF Ask, ChatTypeOK
    <2> QED
      BY <1>1, <2>2 DEF Ask, OneLine
  <1>2. ASSUME NEW t \in Turns, BeginTurn(t) PROVE OneLine'
    <2>1. current' # NoList
      BY <1>2, ListIsAList DEF BeginTurn, Lists
    <2> QED
      BY <1>2, <2>1 DEF BeginTurn, OneLine
  <1>3. ASSUME NEW t \in Turns, CallTools(t) \/ RunTools(t) PROVE OneLine'
    BY <1>3 DEF CallTools, RunTools, OneLine
  <1>4. ASSUME NEW t \in Turns, EndTurn(t)
        PROVE  /\ resets' = resets /\ crossed' = crossed
               /\ \A k \in Locks : line[k] = << >> => line'[k] = << >>
    BY <1>4 DEF EndTurn, Holds
  <1>5. ASSUME NEW t \in Turns, Answer(t) PROVE OneLine'
    <2>1. current' # NoList
      BY <1>5, ListIsAList DEF Answer, Lists
    <2> QED
      BY <1>4, <1>5, <2>1 DEF Answer, OneLine
  <1>6. ASSUME NEW t \in Turns, AbortTurn(t) PROVE OneLine'
    <2>1. ~crossed /\ current = NoList => said' = << >>
      <3> SUFFICES ASSUME ~crossed, current = NoList PROVE said' = << >>
        OBVIOUS
      <3>1. said = << >>
        BY DEF OneLine
      <3> QED
        BY <1>6, <3>1 DEF AbortTurn, RemoveFirst
    <2> QED
      BY <1>4, <1>6, <2>1 DEF AbortTurn, OneLine
  <1>7. ASSUME NEW t \in Turns, FailTurn(t) PROVE OneLine'
    BY <1>4, <1>7 DEF FailTurn, OneLine
  <1>8. CASE Reset
    <2> SUFFICES ASSUME ~crossed' PROVE \A k \in Locks : line'[k] = << >>
      BY <1>8 DEF Reset, OneLine
    <2>1. InFlight = {}
      BY <1>8 DEF Reset
    <2> TAKE k \in Locks
    <2>2. line[k] \in Seq(Turns)
      BY DEF ChatTypeOK
    <2>3. \A i \in 1..Len(line[k]) : FALSE
      BY <2>1 DEF LinesInOrder
    <2>4. line[k] = << >>
      BY <2>2, <2>3
    <2> QED
      BY <1>8, <2>4 DEF Reset
  <1>9. CASE UNCHANGED chatVars
    BY <1>9 DEF chatVars, OneLine
  <1> QED
    BY <1>1, <1>2, <1>3, <1>5, <1>6, <1>7, <1>8, <1>9 DEF ChatNext

\* The session's line is the only one: who is at its head is alone.
LEMMA AtMostOneRuns ==
    ASSUME LinesInOrder, OneLine, ~crossed,
           NEW t \in Turns, NEW k \in Locks, Holds(t, k)
    PROVE  \A u \in Turns : Running(u) => u = t
  <1>1. k = resets + 1
    BY DEF OneLine, Holds
  <1> SUFFICES ASSUME NEW u \in Turns, Running(u) PROVE u = t
    OBVIOUS
  <1>2. PICK j \in Locks : Holds(u, j)
    BY DEF LinesInOrder
  <1>3. j = resets + 1
    BY <1>2 DEF OneLine, Holds
  <1> QED
    BY <1>1, <1>2, <1>3 DEF Holds

LEMMA RunsAlone ==
    ASSUME LinesInOrder, OneLine, ~crossed, NEW t \in Turns, Running(t)
    PROVE  \A u \in Turns : Running(u) => u = t
  <1>1. PICK k \in Locks : Holds(t, k)
    BY DEF LinesInOrder
  <1> QED
    BY <1>1, AtMostOneRuns

-----------------------------------------------------------------------------
(* The history follows the conversation *)

LEMMA StoredIsASeq ==
    ASSUME ChatTypeOK
    PROVE  Stored \in Seq(Message) /\ said \in Seq(Message)
  <1>1. << >> \in Seq(Message)
    OBVIOUS
  <1> QED
    BY <1>1 DEF ChatTypeOK, Stored

LEMMA ConversationAtTheStart ==
    ASSUME ChatInv, NEW t \in Turns, BeginTurn(t)
    PROVE  Conversation'
  <1> SUFFICES ASSUME ~crossed'
               PROVE  Follows(Stored', said')
                      /\ \A u \in Turns : Running(u)' => TurnInProgress(u)'
    BY DEF Conversation
  <1> USE DEF ChatInv
  <1> DEFINE l == IF current = NoList THEN <<t, "opened">> ELSE current
             m == Say(t, "human")
  <1>1. l \in Lists
    BY DEF ChatTypeOK, Lists
  <1>2. content[l] = Stored
    BY DEF Stored, NothingSaidYet, BeginTurn, Begun
  <1> HIDE DEF l
  <1>3. /\ content' = [content EXCEPT ![l] = Append(@, m)]
        /\ current' = l /\ held' = [held EXCEPT ![t] = l]
        /\ work' = [work EXCEPT ![t] = content'[l]]
        /\ base' = [base EXCEPT ![t] = Len(work'[t])]
        /\ stage[t] = "queued" /\ stage' = [stage EXCEPT ![t] = "agent"]
        /\ said' = Append(said, m) /\ crossed' = crossed
        /\ \E k \in Locks : Holds(t, k)
    BY DEF BeginTurn, l
  <1>4. Stored \in Seq(Message) /\ said \in Seq(Message)
    BY StoredIsASeq
  <1>5. m \in Message /\ m.kind = "human" /\ m.turn = t
    BY Said DEF Kinds
  <1>6. l # NoList
    BY <1>1, ListIsAList
  <1>7. Stored' = Append(Stored, m) /\ content'[l] = Stored'
    BY <1>1, <1>2, <1>3, <1>6 DEF Stored, ChatTypeOK
  <1>8. Follows(Stored, said)
    BY <1>3 DEF Conversation
  <1>9. Follows(Stored', said')
    BY <1>3, <1>4, <1>5, <1>7, <1>8, FollowsAppend
  <1>10. \A u \in Turns : Running(u)' => u = t
    <2>1. \A u \in Turns : Running(u) => u = t
      BY <1>3, AtMostOneRuns
    <2> QED
      BY <1>3, <2>1 DEF Running, ChatTypeOK
  <1>11. TurnInProgress(t)'
    <2>1. /\ held'[t] = current' /\ work'[t] = Stored' /\ base'[t] = Len(Stored')
          /\ stage'[t] = "agent"
      BY <1>3, <1>7 DEF ChatTypeOK
    <2>2. /\ Stored' # << >> /\ Len(Stored') = Len(Stored) + 1 /\ Stored'[Len(Stored')] = m
          /\ Stored' \in Seq(Message)
      BY <1>4, <1>5, <1>7
    <2>3. /\ said' # << >> /\ Len(said') = Len(said) + 1 /\ said'[Len(said')] = m
          /\ said' \in Seq(Message) /\ \A i \in 1..Len(said) : said'[i] = said[i]
      BY <1>3, <1>4, <1>5
    <2>4. \A i \in 1..(Len(said') - 1) : said'[i].turn # t
      <3> TAKE i \in 1..(Len(said') - 1)
      <3>1. i \in 1..Len(said)
        BY <1>4, <2>3
      <3>2. Begun(stage, said[i].turn)
        BY <3>1 DEF NothingSaidYet
      <3> QED
        BY <1>3, <2>3, <3>1, <3>2 DEF Begun
    <2>5. \A q \in Seq(Message) : Front(Append(q, m)) = q
      BY <1>5, FrontOfAppend
    <2>6. Front(Stored') = Stored /\ Front(said') = said
      BY <1>3, <1>4, <1>7, <2>5
    <2>7. Added(t)' = 0
      BY <2>1, <2>2 DEF Added
    <2>8. Added(t)' <= MaxAdded /\ stage'[t] # "tools"
      BY <2>1, <2>7, ChatAssumption
    <2>9. Follows(Front(Stored'), Front(said'))
      BY <1>8, <2>6
    <2>10. \A i \in 1..base'[t] : work'[t][i] = Stored'[i]
      BY <2>1
    <2> QED
      BY <2>1, <2>2, <2>3, <2>4, <2>8, <2>9, <2>10 DEF TurnInProgress
  <1> QED
    BY <1>9, <1>10, <1>11

LEMMA ConversationWithTools ==
    ASSUME ChatInv, NEW t \in Turns, CallTools(t) \/ RunTools(t)
    PROVE  Conversation'
  <1> SUFFICES ASSUME ~crossed'
               PROVE  Follows(Stored', said')
                      /\ \A u \in Turns : Running(u)' => TurnInProgress(u)'
    BY DEF Conversation
  <1> USE DEF ChatInv
  <1>1. /\ UNCHANGED <<content, current, held, base, said, crossed>> /\ Running(t)
        /\ \E k \in Kinds : work' = [work EXCEPT ![t] = Append(@, Say(t, k))]
    BY DEF CallTools, RunTools, Running, Kinds
  <1>2. Stored' = Stored /\ Follows(Stored', said')
    BY <1>1 DEF Stored, Conversation
  <1>3. \A u \in Turns : Running(u)' => u = t
    <2>1. \A u \in Turns : Running(u) => u = t
      BY <1>1, RunsAlone
    <2> QED
      BY <2>1 DEF CallTools, RunTools, Running, ChatTypeOK
  <1>4. TurnInProgress(t)
    BY <1>1 DEF Conversation
  <1>5. work[t] \in Seq(Message) /\ base[t] \in Nat /\ base[t] <= Len(work[t])
    BY <1>1 DEF ChatTypeOK, NothingSaidYet
  <1>6. PICK k \in Kinds : work' = [work EXCEPT ![t] = Append(@, Say(t, k))]
    BY <1>1
  <1>7. work'[t] = Append(work[t], Say(t, k))
    BY <1>6 DEF ChatTypeOK
  <1>8. /\ Len(work'[t]) = Len(work[t]) + 1
        /\ \A i \in 1..base[t] : work'[t][i] = work[t][i]
    BY <1>5, <1>7
  <1>9. Added(t)' = Added(t) + 1 /\ Added(t) \in Nat
    BY <1>1, <1>5, <1>8 DEF Added
  <1>10. Added(t)' <= MaxAdded /\ (stage'[t] = "tools" => Added(t)' < MaxAdded)
    <2>1. CASE CallTools(t)
      BY <1>9, <2>1, ChatAssumption DEF CallTools
    <2>2. CASE RunTools(t)
      <3>1. Added(t) < MaxAdded
        BY <1>4, <2>2 DEF TurnInProgress, RunTools
      <3>2. stage'[t] = "agent" \/ Added(t) + 1 < MaxAdded
        BY <2>2 DEF RunTools, ChatTypeOK
      <3> QED
        BY <1>9, <3>1, <3>2, ChatAssumption
    <2> QED
      BY <2>1, <2>2
  <1>11. \A i \in 1..base'[t] : work'[t][i] = Stored'[i]
    BY <1>1, <1>2, <1>4, <1>8 DEF TurnInProgress
  <1>12. TurnInProgress(t)'
    BY <1>1, <1>2, <1>4, <1>10, <1>11 DEF TurnInProgress
  <1> QED
    BY <1>2, <1>3, <1>12

LEMMA ConversationAtTheAnswer ==
    ASSUME ChatInv, NEW t \in Turns, Answer(t)
    PROVE  Conversation'
  <1> SUFFICES ASSUME ~crossed'
               PROVE  Follows(Stored', said')
                      /\ \A u \in Turns : Running(u)' => TurnInProgress(u)'
    BY DEF Conversation
  <1> USE DEF ChatInv
  <1> DEFINE h == Stored
             f == Append(work[t], Say(t, "reply"))
  <1>1. Running(t) /\ EndTurn(t) /\ ~crossed
    BY DEF Answer, EndTurn, Running
  <1>2. h \in Seq(Message) /\ said \in Seq(Message)
    BY StoredIsASeq
  <1>3. TurnInProgress(t) /\ Follows(h, said)
    BY <1>1 DEF Conversation
  <1>4. /\ work[t] \in Seq(Message) /\ base[t] \in Nat /\ base[t] <= Len(work[t])
        /\ \A i \in (base[t] + 1)..Len(work[t]) : work[t][i].kind # "human"
    BY <1>1 DEF ChatTypeOK, NothingSaidYet
  <1>5. /\ Say(t, "reply") \in Message /\ Say(t, "reply").kind # "human"
        /\ Say(t, "human").kind = "human"
    BY Said DEF Kinds
  <1>6. /\ f \in Seq(Message) /\ Len(f) = Len(work[t]) + 1 /\ f[Len(work[t]) + 1] = Say(t, "reply")
        /\ \A i \in 1..Len(work[t]) : f[i] = work[t][i]
    BY <1>4, <1>5, AppendProperties
  <1>7. /\ current' = <<t, "stored">> /\ said' = said \o SubSeq(f, base[t] + 1, Len(f))
        /\ content' = [content EXCEPT ![<<t, "stored">>] = SafeTrim(f)]
    BY DEF Answer
  <1> HIDE DEF f
  <1>8. <<t, "stored">> \in Lists
    BY DEF Lists
  <1>9. Stored' = SafeTrim(f)
    BY <1>7, <1>8, ListIsAList DEF Stored, ChatTypeOK
  <1>10. base[t] = Len(h) /\ h # << >> /\ h[Len(h)].kind = "human"
         /\ \A i \in 1..Len(h) : work[t][i] = h[i]
    BY <1>3, <1>5 DEF TurnInProgress
  <1>11. Added(t) <= MaxAdded
    BY <1>3 DEF TurnInProgress
  <1> HIDE DEF h
  <1>12. Len(f) >= Len(h) /\ Len(f) - Len(h) < HistoryLimit
    BY <1>2, <1>4, <1>6, <1>10, <1>11, ChatAssumption DEF Added
  <1>13. \A i \in 1..Len(h) : f[i] = h[i]
    BY <1>2, <1>4, <1>6, <1>10
  <1>14. \A i \in (Len(h) + 1)..Len(f) : f[i].kind # "human"
    <2> TAKE i \in (Len(h) + 1)..Len(f)
    <2>1. CASE i = Len(work[t]) + 1
      BY <1>5, <1>6, <2>1
    <2>2. CASE i # Len(work[t]) + 1
      <3>1. i \in 1..Len(work[t]) /\ i \in (base[t] + 1)..Len(work[t])
        BY <1>2, <1>4, <1>6, <1>10, <2>2
      <3> QED
        BY <1>4, <1>6, <3>1
    <2> QED
      BY <2>1, <2>2
  <1>15. Follows(SafeTrim(f), said \o SubSeq(f, Len(h) + 1, Len(f)))
    BY <1>2, <1>3, <1>6, <1>10, <1>12, <1>13, <1>14, FollowsTrim
  <1>16. \A u \in Turns : ~Running(u)'
    BY <1>1, RunsAlone DEF EndTurn, Running, ChatTypeOK
  <1> QED
    BY <1>7, <1>9, <1>10, <1>15, <1>16

LEMMA ConversationAtTheEnd ==
    ASSUME ChatInv, NEW t \in Turns, AbortTurn(t) \/ FailTurn(t)
    PROVE  Conversation'
  <1> SUFFICES ASSUME ~crossed'
               PROVE  Follows(Stored', said')
                      /\ \A u \in Turns : Running(u)' => TurnInProgress(u)'
    BY DEF Conversation
  <1> USE DEF ChatInv
  <1>1. Running(t) /\ EndTurn(t) /\ ~crossed /\ current' = current
    BY DEF AbortTurn, FailTurn, EndTurn
  <1>2. TurnInProgress(t) /\ Follows(Stored, said)
    BY <1>1 DEF Conversation
  <1>3. Stored \in Seq(Message) /\ said \in Seq(Message)
    BY StoredIsASeq
  <1>4. \A u \in Turns : ~Running(u)'
    BY <1>1, RunsAlone DEF EndTurn, Running, ChatTypeOK
  <1>5. CASE AbortTurn(t)
    <2>1. held[t] = current /\ Stored # << >> /\ Follows(Front(Stored), Front(said))
      BY <1>2 DEF TurnInProgress
    <2>2. current \in Lists /\ current # NoList /\ Stored = content[current]
      BY <2>1 DEF Stored, ChatTypeOK
    <2>3. Stored' = Front(Stored)
      BY <1>1, <1>5, <2>1, <2>2 DEF AbortTurn, Stored, ChatTypeOK, WithoutLast
    <2>4. Say(t, "human") \in Message /\ Say(t, "human").turn = t
      BY Said DEF Kinds
    <2>5. /\ said # << >> /\ said[Len(said)] = Say(t, "human")
          /\ \A i \in 1..(Len(said) - 1) : said[i] # Say(t, "human")
      BY <1>2, <2>4 DEF TurnInProgress
    <2>6. said' = Front(said)
      BY <1>3, <1>5, <2>4, <2>5, RemovesTheLast DEF AbortTurn
    <2> QED
      BY <1>4, <2>1, <2>3, <2>6
  <1>6. CASE FailTurn(t)
    BY <1>2, <1>4, <1>6 DEF FailTurn, Stored
  <1> QED
    BY <1>5, <1>6

LEMMA ConversationStep ==
    ASSUME ChatInv, [ChatNext]_chatVars
    PROVE  Conversation'
  <1>1. ASSUME NEW t \in Turns, Ask(t) PROVE Conversation'
    <2>1. UNCHANGED <<content, current, held, work, base, said, crossed>>
      BY <1>1 DEF Ask
    <2>2. stage[t] = "new" /\ stage' = [stage EXCEPT ![t] = "queued"]
      BY <1>1 DEF Ask
    <2>3. \A u \in Turns : Running(u)' => Running(u) /\ stage'[u] = stage[u]
      BY <2>2 DEF ChatInv, ChatTypeOK, Running
    <2>4. Stored' = Stored
      BY <2>1 DEF Stored
    <2>5. \A u \in Turns : Running(u)' /\ TurnInProgress(u) => TurnInProgress(u)'
      BY <2>1, <2>3, <2>4 DEF TurnInProgress, Added
    <2> QED
      BY <2>1, <2>3, <2>4, <2>5 DEF ChatInv, Conversation
  <1>2. CASE Reset
    <2> SUFFICES ASSUME ~crossed'
                 PROVE  Follows(Stored', said')
                        /\ \A u \in Turns : Running(u)' => TurnInProgress(u)'
      BY DEF Conversation
    <2>1. InFlight = {} /\ Stored' = << >> /\ said' = << >> /\ stage' = stage
      BY <1>2 DEF Reset, Stored
    <2> QED
      BY <2>1, FollowsNothing DEF InFlight, Running
  <1>3. CASE UNCHANGED chatVars
    BY <1>3 DEF ChatInv, chatVars, Conversation, TurnInProgress, Stored, Running, Added
  <1> QED
    BY <1>1, <1>2, <1>3, ConversationAtTheStart, ConversationWithTools,
       ConversationAtTheAnswer, ConversationAtTheEnd DEF ChatNext

-----------------------------------------------------------------------------
(* The theorems *)

LEMMA ChatInvInit ==
    ASSUME ChatInit
    PROVE  ChatInv
  <1>1. ChatTypeOK
    <2>1. << >> \in Seq(Turns) /\ << >> \in Seq(Message) /\ 0 \in 0..MaxResets
      BY ChatAssumption
    <2> QED
      BY <2>1 DEF ChatInit, ChatTypeOK
  <1>2. LinesInOrder
    <2>1. resets + 1 \in Locks
      BY <1>1, NextLock
    <2> QED
      BY <2>1 DEF ChatInit, LinesInOrder, Running
  <1>3. NothingSaidYet
    BY DEF ChatInit, NothingSaidYet, Begun, Running, Lists
  <1>4. OneLine
    BY DEF ChatInit, OneLine
  <1>5. Conversation
    BY FollowsNothing DEF ChatInit, Conversation, Stored, Running
  <1> QED
    BY <1>1, <1>2, <1>3, <1>4, <1>5 DEF ChatInv

(* Every state of a session is one the program can be in: a turn that ends,  *)
(* whatever became of its session, leaves locks, lists and messages.         *)
THEOREM ChatTypesHold == ChatSpec => []ChatTypeOK
  <1>1. ChatInit => ChatTypeOK
    BY ChatInvInit DEF ChatInv
  <1>2. ChatTypeOK /\ [ChatNext]_chatVars => ChatTypeOK'
    BY ChatStepTyped
  <1> QED
    BY <1>1, <1>2, PTL DEF ChatSpec

LEMMA ChatInvariant == ChatSpec => []ChatInv
  <1>1. ChatInv /\ [ChatNext]_chatVars => ChatInv'
    BY ChatStepTyped, LinesStep, SaidStep, OneLineStep, ConversationStep DEF ChatInv
  <1> QED
    BY <1>1, ChatInvInit, PTL DEF ChatSpec

(* Unless a reset met a turn in flight, the session's lock lets one turn run  *)
(* at a time: ask() serializes the turns of a session.                      *)
THEOREM OneTurnAtATime ==
    ChatSpec => [](~crossed => \A t, u \in Turns : Running(t) /\ Running(u) => t = u)
  <1>1. ChatInv => (~crossed => \A t, u \in Turns : Running(t) /\ Running(u) => t = u)
    BY RunsAlone DEF ChatInv
  <1> QED
    BY <1>1, ChatInvariant, PTL

(* For any number of turns, tool calls and resets, and any limit that the    *)
(* messages of one turn fit in, ask(), _safe_trim() and reset() keep the       *)
(* history the end of the conversation, unless a reset met a turn in flight. *)
THEOREM HistoryFollows == ChatSpec => []HistoryIsTheConversation
  <1>1. ASSUME ChatInv PROVE HistoryIsTheConversation
    <2> SUFFICES ASSUME ~crossed
                 PROVE  /\ IsSuffix(Stored, said)
                        /\ Stored = << >> \/ Head(Stored).kind = "human"
                        /\ Len(said) <= HistoryLimit => Stored = said
                        /\ \A i \in DOMAIN said :
                              said[i].kind = "human" /\ Len(said) - i < HistoryLimit
                                  => Len(Stored) > Len(said) - i
      BY DEF HistoryIsTheConversation, Stored
    <2>1. Stored \in Seq(Message) /\ said \in Seq(Message)
      BY <1>1, StoredIsASeq DEF ChatInv
    <2>2. Follows(Stored, said)
      BY <1>1 DEF ChatInv, Conversation
    <2>3. IsSuffix(Stored, said)
      BY <2>1, <2>2, EndsIsSuffix DEF Follows
    <2>4. DOMAIN said = 1..Len(said) /\ (Stored # << >> => Head(Stored) = Stored[1])
      BY <2>1
    <2> QED
      BY <2>2, <2>3, <2>4 DEF Follows
  <1> QED
    BY <1>1, ChatInvariant, PTL
=============================================================================
