------------------------- MODULE BrowserPages_proofs -------------------------
(***************************************************************************)
(* The two pages of the browser, for any limits, widths of characters and  *)
(* credentials: what the chat page sends is within what the server takes   *)
(* and is the end of its conversation, a turn adds a whole answer or       *)
(* nothing to the transcript, which is of one conversation, and the        *)
(* credential page lists what the server has.                              *)
(***************************************************************************)
EXTENDS BrowserChat, ZooCredentials, Selection_proofs, SequenceTheorems

-----------------------------------------------------------------------------
(* Sums.                                                                   *)

\* The function that Total() is defined by: the sum of the last n numbers.
LastSum(s) ==
    CHOOSE last : last = [n \in 0 .. Len(s) |->
                            IF n = 0 THEN 0 ELSE s[Len(s) - n + 1] + last[n - 1]]

\* It is what its definition says.
LEMMA LastSumIs ==
    ASSUME NEW s \in Seq(Nat)
    PROVE  /\ LastSum(s)[0] = 0
           /\ \A n \in 1 .. Len(s) :
                 LastSum(s)[n] = s[Len(s) - n + 1] + LastSum(s)[n - 1]
           /\ \A n \in 0 .. Len(s) : LastSum(s)[n] \in Nat
           /\ Total(s) = LastSum(s)[Len(s)]
  <1> DEFINE N == Len(s)
             F(f) == [n \in 0 .. N |-> IF n = 0 THEN 0 ELSE s[N - n + 1] + f[n - 1]]
             step == [k \in 1 .. N |-> [x \in Nat |-> s[N - k + 1] + x]]
             g == LastSum(s)
  <1>1. N \in Nat
    OBVIOUS
  <1>2. \A n \in 1 .. N : N - n + 1 \in 1 .. N /\ s[N - n + 1] \in Nat
    OBVIOUS
  <1>3. step \in [1 .. N -> [Nat -> Nat]]
    BY <1>2
  <1> HIDE DEF N
  <1>4. PICK f \in [0 .. N -> Nat] :
           f[0] = 0 /\ \A k \in 1 .. N : f[k] = step[k][f[k - 1]]
    <2>1. 0 \in Nat
      OBVIOUS
    <2> HIDE DEF step
    <2>2. Recursive(N, Nat, 0, step)
      BY <1>1, <1>3, <2>1, RecursionEnds, Zenon
    <2>3. QED
      BY <2>2 DEF Recursive
  <1>5. f = F(f)
    <2>1. ASSUME NEW n \in 0 .. N PROVE f[n] = F(f)[n]
      <3>1. CASE n = 0
        BY <1>4, <3>1
      <3>2. CASE n # 0
        <4>1. n \in 1 .. N /\ n - 1 \in 0 .. N
          BY <1>1, <3>2
        <4>2. f[n - 1] \in Nat
          BY <4>1
        <4>3. step[n][f[n - 1]] = s[N - n + 1] + f[n - 1]
          BY <4>1, <4>2
        <4>4. QED
          BY <1>4, <3>2, <4>1, <4>3
      <3>3. QED
        BY <3>1, <3>2
    <2>2. f = [n \in 0 .. N |-> f[n]] /\ F(f) = [n \in 0 .. N |-> F(f)[n]]
      OBVIOUS
    <2> HIDE DEF F
    <2>3. QED
      BY <2>1, <2>2
  <1>6. g = F(g)
    <2>1. g = CHOOSE last : last = F(last)
      BY DEF LastSum, N
    <2> HIDE DEF g, F
    <2>2. QED
      BY <1>5, <2>1
  <1>7. /\ g[0] = 0
        /\ \A n \in 1 .. N : g[n] = s[N - n + 1] + g[n - 1]
    <2> HIDE DEF g
    <2>1. ASSUME NEW n \in 0 .. N
          PROVE  g[n] = IF n = 0 THEN 0 ELSE s[N - n + 1] + g[n - 1]
      BY <1>6
    <2>2. g[0] = 0
      BY <1>1, <2>1
    <2>3. ASSUME NEW n \in 1 .. N PROVE g[n] = s[N - n + 1] + g[n - 1]
      <3>1. n \in 0 .. N /\ n # 0
        BY <1>1
      <3>2. QED
        BY <2>1, <3>1
    <2>4. QED
      BY <2>2, <2>3
  <1> HIDE DEF g
  <1>8. \A n \in 0 .. N : g[n] \in Nat
    <2> DEFINE Wrong == {n \in 0 .. N : g[n] \notin Nat}
    <2> SUFFICES ASSUME Wrong # {} PROVE FALSE
      OBVIOUS
    <2>1. PICK n \in Wrong : \A m \in Wrong : n <= m
      <3>1. Wrong \in SUBSET Nat
        OBVIOUS
      <3> HIDE DEF Wrong
      <3>2. QED
        BY <3>1, FirstPosition
    <2>2. n \in 0 .. N /\ g[n] \notin Nat
      OBVIOUS
    <2>3. n # 0
      BY <1>7, <2>2
    <2>4. n \in 1 .. N /\ n - 1 \in 0 .. N /\ ~(n <= n - 1)
      BY <1>1, <2>2, <2>3
    <2>5. g[n - 1] \in Nat
      BY <2>1, <2>4
    <2>6. s[N - n + 1] \in Nat
      BY <1>2, <2>4 DEF N
    <2>7. QED
      BY <1>7, <2>2, <2>4, <2>5, <2>6
  <1>9. Total(s) = g[N]
    BY DEF Total, g, LastSum, N
  <1>10. QED
    BY <1>7, <1>8, <1>9 DEF g, N

\* Sequences that end alike have the same sums from the end.
LEMMA SuffixSum ==
    ASSUME NEW s \in Seq(Nat), NEW u \in Seq(Nat), Len(u) <= Len(s),
           \A k \in 1 .. Len(u) : u[Len(u) - k + 1] = s[Len(s) - k + 1]
    PROVE  Total(u) = LastSum(s)[Len(u)]
  <1> DEFINE N == Len(u)
             f == LastSum(u)
             g == LastSum(s)
             Wrong == {n \in 0 .. N : f[n] # g[n]}
  <1>1. N \in Nat /\ Len(s) \in Nat /\ N <= Len(s)
    OBVIOUS
  <1>2. /\ f[0] = 0 /\ \A n \in 1 .. N : f[n] = u[N - n + 1] + f[n - 1]
        /\ Total(u) = f[N]
    BY LastSumIs
  <1>3. g[0] = 0 /\ \A n \in 1 .. Len(s) : g[n] = s[Len(s) - n + 1] + g[n - 1]
    BY LastSumIs
  <1> HIDE DEF f, g
  <1>4. \A n \in 1 .. N : g[n] = u[N - n + 1] + g[n - 1]
    <2>1. ASSUME NEW n \in 1 .. N PROVE g[n] = u[N - n + 1] + g[n - 1]
      <3>1. n \in 1 .. Len(s)
        BY <1>1
      <3>2. QED
        BY <1>3, <3>1
    <2>2. QED
      BY <2>1
  <1> HIDE DEF N
  <1>5. Wrong = {}
    <2> SUFFICES ASSUME Wrong # {} PROVE FALSE
      OBVIOUS
    <2>1. PICK n \in Wrong : \A m \in Wrong : n <= m
      <3>1. Wrong \in SUBSET Nat
        OBVIOUS
      <3> HIDE DEF Wrong
      <3>2. QED
        BY <3>1, FirstPosition
    <2>2. n \in 0 .. N /\ f[n] # g[n]
      OBVIOUS
    <2>3. n # 0
      BY <1>2, <1>3, <2>2
    <2>4. n \in 1 .. N /\ n - 1 \in 0 .. N /\ ~(n <= n - 1)
      BY <1>1, <2>2, <2>3
    <2>5. f[n - 1] = g[n - 1]
      BY <2>1, <2>4
    <2>6. QED
      BY <1>2, <1>4, <2>2, <2>4, <2>5
  <1>6. N \in 0 .. N
    BY <1>1
  <1>7. f[N] = g[N]
    BY <1>5, <1>6
  <1>8. QED
    BY <1>2, <1>7 DEF g, N

\* The sum of an end of a sequence is no more than the sum of all of it.
LEMMA SumGrows ==
    ASSUME NEW s \in Seq(Nat), NEW m \in 0 .. Len(s)
    PROVE  LastSum(s)[m] <= Total(s)
  <1> DEFINE N == Len(s)
             g == LastSum(s)
             Wrong == {n \in m .. N : ~(g[m] <= g[n])}
  <1>1. N \in Nat /\ m \in 0 .. N /\ \A n \in 1 .. N : s[N - n + 1] \in Nat
    OBVIOUS
  <1>2. /\ \A n \in 1 .. N : g[n] = s[N - n + 1] + g[n - 1]
        /\ \A n \in 0 .. N : g[n] \in Nat
        /\ Total(s) = g[N]
    BY LastSumIs
  <1> HIDE DEF g, N
  <1>3. Wrong = {}
    <2> SUFFICES ASSUME Wrong # {} PROVE FALSE
      OBVIOUS
    <2>1. PICK n \in Wrong : \A k \in Wrong : n <= k
      <3>1. Wrong \in SUBSET Nat
        BY <1>1
      <3> HIDE DEF Wrong
      <3>2. QED
        BY <3>1, FirstPosition
    <2>2. n \in m .. N /\ ~(g[m] <= g[n])
      OBVIOUS
    <2>3. n # m
      BY <1>1, <1>2, <2>2
    <2>4. n \in 1 .. N /\ n - 1 \in m .. N /\ n - 1 \in 0 .. N /\ ~(n <= n - 1)
      BY <1>1, <2>2, <2>3
    <2>5. g[m] <= g[n - 1]
      BY <2>1, <2>4
    <2>6. g[n] = s[N - n + 1] + g[n - 1] /\ s[N - n + 1] \in Nat
      BY <1>1, <1>2, <2>4
    <2>7. g[m] \in Nat /\ g[n - 1] \in Nat
      BY <1>1, <1>2, <2>4
    <2>8. QED
      BY <2>2, <2>5, <2>6, <2>7
  <1>4. N \in m .. N
    BY <1>1
  <1>5. QED
    BY <1>2, <1>3, <1>4 DEF g

\* One more number in front.
LEMMA TotalPrepend ==
    ASSUME NEW s \in Seq(Nat), NEW t \in Seq(Nat), Len(t) = Len(s) + 1,
           \A i \in 1 .. Len(s) : t[i + 1] = s[i]
    PROVE  Total(t) = t[1] + Total(s)
  <1> DEFINE n == Len(s)
  <1>1. n \in Nat /\ Len(t) = n + 1
    OBVIOUS
  <1>2. ASSUME NEW k \in 1 .. n PROVE s[n - k + 1] = t[(n + 1) - k + 1]
    <2>1. n - k + 1 \in 1 .. n /\ (n - k + 1) + 1 = (n + 1) - k + 1
      BY <1>1
    <2>2. t[(n - k + 1) + 1] = s[n - k + 1]
      BY <2>1
    <2>3. QED
      BY <2>1, <2>2
  <1>3. Total(s) = LastSum(t)[n]
    <2>1. Len(s) <= Len(t)
      BY <1>1
    <2>2. \A k \in 1 .. Len(s) : s[Len(s) - k + 1] = t[Len(t) - k + 1]
      BY <1>1, <1>2
    <2>3. QED
      BY <2>1, <2>2, SuffixSum, Zenon
  <1>4. n + 1 \in 1 .. n + 1 /\ (n + 1) - (n + 1) + 1 = 1 /\ (n + 1) - 1 = n
    BY <1>1
  <1>5. Total(t) = LastSum(t)[n + 1]
    BY <1>1, LastSumIs
  <1>6. LastSum(t)[n + 1] = t[1] + LastSum(t)[n]
    <2>1. LastSum(t)[n + 1] = t[Len(t) - (n + 1) + 1] + LastSum(t)[(n + 1) - 1]
      BY <1>1, <1>4, LastSumIs
    <2>2. QED
      BY <1>1, <1>4, <2>1
  <1>7. QED
    BY <1>3, <1>5, <1>6

\* Without its first numbers a sequence has no greater sum.
LEMMA TotalSuffix ==
    ASSUME NEW s \in Seq(Nat), NEW u \in Seq(Nat), NEW n \in 0 .. Len(s),
           Len(u) = Len(s) - n, \A i \in 1 .. Len(u) : u[i] = s[n + i]
    PROVE  Total(u) <= Total(s)
  <1>1. Len(u) \in 0 .. Len(s) /\ Len(s) \in Nat /\ n \in Nat
    OBVIOUS
  <1>2. ASSUME NEW k \in 1 .. Len(u) PROVE u[Len(u) - k + 1] = s[Len(s) - k + 1]
    <2>1. Len(u) - k + 1 \in 1 .. Len(u) /\ n + (Len(u) - k + 1) = Len(s) - k + 1
      BY <1>1
    <2>2. u[Len(u) - k + 1] = s[n + (Len(u) - k + 1)]
      BY <2>1
    <2>3. QED
      BY <2>1, <2>2
  <1>3. Total(u) = LastSum(s)[Len(u)]
    <2>1. Len(u) <= Len(s)
      BY <1>1
    <2>2. QED
      BY <1>2, <2>1, SuffixSum, Zenon
  <1>4. QED
    BY <1>1, <1>3, SumGrows

\* The sum of one number, of none, and of any.
LEMMA TotalSmall ==
    ASSUME NEW s \in Seq(Nat)
    PROVE  /\ Total(s) \in Nat
           /\ Len(s) = 0 => Total(s) = 0
           /\ Len(s) = 1 => Total(s) = s[1]
  <1>1. Len(s) \in 0 .. Len(s)
    OBVIOUS
  <1>2. Total(s) \in Nat /\ (Len(s) = 0 => Total(s) = 0)
    BY <1>1, LastSumIs
  <1>3. ASSUME Len(s) = 1 PROVE Total(s) = s[1]
    <2>1. 1 \in 1 .. Len(s)
      BY <1>3
    <2>2. s[1] \in Nat
      BY <2>1
    <2>3. LastSum(s)[1] = s[Len(s) - 1 + 1] + LastSum(s)[1 - 1] /\ LastSum(s)[0] = 0
      BY <2>1, LastSumIs
    <2>4. LastSum(s)[1] = s[1]
      BY <1>3, <2>2, <2>3
    <2>5. QED
      BY <1>3, <2>4, LastSumIs
  <1>4. QED
    BY <1>2, <1>3

-----------------------------------------------------------------------------
(* The loop of buildBoundedRequest().                                      *)

\* The limits are numbers.
LEMMA Limits ==
    /\ {MaxPrompt, MaxMessage, MaxMessages, MaxChars, MaxBytes, MaxStored} \subseteq Nat
    /\ MaxPrompt >= 1 /\ MaxMessage >= 1 /\ MaxMessages >= 1 /\ MaxStored >= 1
    /\ MaxAnswer \in Nat /\ MaxAnswer >= 1 /\ MaxThought \in Nat /\ MaxTurns \in Nat
    /\ \A w \in Widths : w \in Nat
    /\ Overhead \in Nat
  BY BoundAssumption

\* The smaller of two numbers.
LEMMA LeastIs ==
    ASSUME NEW a \in Nat, NEW b \in Nat
    PROVE  /\ Least(a, b) \in Nat /\ Least(a, b) <= a /\ Least(a, b) <= b
           /\ Least(a, b) \in {a, b}
  BY DEF Least

\* The messages of a transcript: only answers carry a trace.
Kept == {m \in Text : m.thought > 0 => m.role = "assistant"}

\* What c, a message of the request, has of m: the beginning of its text up to
\* the limit, and as much of its trace as c says.
IsCut(c, m) ==
    /\ c = [m EXCEPT !.chars = Least(@, MaxMessage), !.thought = c.thought]
    /\ c \in Text /\ c.thought <= MaxMessage
    /\ c.thought > 0 => m.role = "assistant"

\* A message is cut to what there is room for, and a prompt not at all.
LEMMA CutIs ==
    ASSUME NEW m \in Kept, NEW taken \in Nat,
           taken + Least(m.chars, MaxMessage) <= MaxChars
    PROVE  /\ IsCut(Cut(m, taken), m)
           /\ taken + Cut(m, taken).chars + Cut(m, taken).thought <= MaxChars
           /\ m.thought = 0 /\ m.chars <= MaxMessage => Cut(m, taken) = m
  <1> DEFINE content == Least(m.chars, MaxMessage)
             room == MaxChars - taken - content
             some == Least(m.thought, MaxMessage)
             thought == Least(some, room)
             c == Cut(m, taken)
  <1>1. /\ m \in Text /\ m.chars \in Nat /\ m.chars >= 1 /\ m.thought \in Nat
        /\ m.thought > 0 => m.role = "assistant"
    BY DEF Kept, Text
  <1>2. MaxMessage \in Nat /\ MaxMessage >= 1 /\ MaxChars \in Nat
    BY Limits
  <1>3. content \in Nat /\ content >= 1 /\ (m.chars <= MaxMessage => content = m.chars)
    BY <1>1, <1>2 DEF Least
  <1>4. room \in Nat /\ taken + content + room = MaxChars
    BY <1>2, <1>3
  <1>5. some \in Nat /\ some <= m.thought /\ some <= MaxMessage
    BY <1>1, <1>2, LeastIs
  <1>6. thought \in Nat /\ thought <= some /\ thought <= room
    BY <1>4, <1>5, LeastIs
  <1>7. c = [m EXCEPT !.chars = content, !.thought = thought]
    BY DEF Cut
  <1> HIDE DEF content, room, some, thought, c
  <1>8. c.chars = content /\ c.thought = thought /\ c.role = m.role /\ c \in Text
    <2> DEFINE Chars == Nat \ {0}
               Thoughts == Nat
               Convs == 1 .. MaxTurns + 1
               Sets == SUBSET Nat
    <2>1. content \in Chars /\ thought \in Thoughts
      BY <1>3, <1>6
    <2>2. Text = [role : {"user", "assistant"}, chars : Chars, thought : Thoughts,
                  wide : Widths, charSplits : Sets, thoughtSplits : Sets, conv : Convs]
      BY DEF Text
    <2> HIDE DEF Chars, Thoughts, Convs, Sets
    <2>3. QED
      BY <1>1, <1>7, <2>1, <2>2
  <1>9. c.thought <= MaxMessage
    BY <1>2, <1>5, <1>6, <1>8
  <1>10. c.thought > 0 => m.role = "assistant"
    <2>1. c.thought > 0 => m.thought > 0
      BY <1>1, <1>5, <1>6, <1>8
    <2>2. QED
      BY <1>1, <2>1
  <1>11. IsCut(c, m)
    <2>1. c = [m EXCEPT !.chars = Least(m.chars, MaxMessage), !.thought = c.thought]
      BY <1>7, <1>8 DEF content
    <2>2. QED
      BY <1>8, <1>9, <1>10, <2>1 DEF IsCut
  <1>12. taken + c.chars + c.thought <= MaxChars
    BY <1>2, <1>3, <1>4, <1>6, <1>8
  <1>13. ASSUME m.thought = 0, m.chars <= MaxMessage PROVE c = m
    <2>1. content = m.chars /\ thought = m.thought
      BY <1>1, <1>3, <1>5, <1>6, <1>13
    <2>2. QED
      BY <1>1, <1>7, <2>1 DEF Text
  <1>14. QED
    BY <1>11, <1>12, <1>13 DEF c

\* The characters and the bytes of a request are numbers for each message.
LEMMA Measures ==
    ASSUME NEW s \in Seq(Text)
    PROVE  /\ [i \in DOMAIN s |-> s[i].chars + s[i].thought] \in Seq(Nat)
           /\ [i \in DOMAIN s |-> Overhead + (s[i].chars + s[i].thought) * s[i].wide]
                 \in Seq(Nat)
  <1>1. DOMAIN s = 1 .. Len(s) /\ Len(s) \in Nat
    OBVIOUS
  <1>2. ASSUME NEW i \in 1 .. Len(s)
        PROVE  /\ s[i].chars + s[i].thought \in Nat
               /\ Overhead + (s[i].chars + s[i].thought) * s[i].wide \in Nat
    <2>1. s[i] \in Text
      OBVIOUS
    <2>2. s[i].chars \in Nat /\ s[i].thought \in Nat /\ s[i].wide \in Nat
      BY <2>1, Limits DEF Text
    <2>3. \A a, b, c \in Nat : a + b * c \in Nat
      OBVIOUS
    <2>4. s[i].chars + s[i].thought \in Nat
      BY <2>2
    <2>5. QED
      BY <2>2, <2>3, <2>4, Limits
  <1>3. QED
    BY <1>1, <1>2

PickedStates == [sent : Seq(Text), used : Nat, full : BOOLEAN, trimmed : BOOLEAN]

\* After n messages of h, from the newest on: those picked are the newest of
\* them, cut, within the limits, and the newest of all is among them as it is.
Loop(h, n, p) ==
    /\ p \in PickedStates
    /\ Len(p.sent) <= MaxMessages /\ Len(p.sent) <= n
    /\ ~p.full => Len(p.sent) = n
    /\ p.used = Characters(p.sent) /\ p.used <= MaxChars
    /\ \A i \in 1 .. Len(p.sent) : IsCut(p.sent[i], h[Len(h) - Len(p.sent) + i])
    /\ n = 0 => ~p.full
    /\ n >= 1 => Len(p.sent) >= 1 /\ p.sent[Len(p.sent)] = h[Len(h)]

\* A prompt is a message without a trace that needs no cut.
IsPrompt(m) == m.role = "user" /\ m.thought = 0 /\ m.chars <= MaxMessage

\* A message in front of those that are picked.
LEMMA PrependLoop ==
    ASSUME NEW h \in Seq(Kept), NEW n \in 1 .. Len(h), NEW p, Loop(h, n - 1, p), ~p.full,
           IsPrompt(h[Len(h)]), Len(p.sent) < MaxMessages,
           p.used + Least(h[Len(h) - n + 1].chars, MaxMessage) <= MaxChars
    PROVE  LET cut == Cut(h[Len(h) - n + 1], p.used)
           IN  Loop(h, n, [p EXCEPT !.sent = <<cut>> \o @,
                                    !.used = @ + cut.chars + cut.thought,
                                    !.trimmed = @ \/ cut # h[Len(h) - n + 1]])
  <1> DEFINE L == Len(h)
             m == h[L - n + 1]
             cut == Cut(m, p.used)
             t == Len(p.sent)
             sent == <<cut>> \o p.sent
             taken == p.used + cut.chars + cut.thought
             trimmed == (p.trimmed \/ cut # m)
             q == [p EXCEPT !.sent = sent, !.used = taken, !.trimmed = trimmed]
  <1>1. L \in Nat /\ n \in Nat /\ n >= 1 /\ n <= L /\ L - n + 1 \in 1 .. L /\ L \in 1 .. L
    OBVIOUS
  <1>2. m \in Kept
    BY <1>1
  <1>3. /\ p.sent \in Seq(Text) /\ p.used \in Nat /\ p.trimmed \in BOOLEAN /\ p.full = FALSE
        /\ p \in PickedStates /\ t \in Nat /\ t = n - 1
    BY DEF Loop, PickedStates
  <1>4. /\ IsCut(cut, m) /\ taken <= MaxChars
        /\ m.thought = 0 /\ m.chars <= MaxMessage => cut = m
    <2>1. p.used + Least(m.chars, MaxMessage) <= MaxChars
      OBVIOUS
    <2> HIDE DEF m
    <2>2. QED
      BY <1>2, <1>3, <2>1, CutIs
  <1>5. cut \in Text /\ cut.chars \in Nat /\ cut.thought \in Nat
    BY <1>4 DEF IsCut, Text
  <1> HIDE DEF cut
  <1>6. /\ sent \in Seq(Text) /\ Len(sent) = n /\ sent[1] = cut
        /\ \A i \in 1 .. t : sent[i + 1] = p.sent[i]
    <2>1. <<cut>> \in Seq(Text) /\ Len(<<cut>>) = 1 /\ <<cut>>[1] = cut
      BY <1>5
    <2>2. sent \in Seq(Text) /\ Len(sent) = 1 + t
      BY <1>3, <2>1, ConcatProperties
    <2>3. \A i \in 1 .. 1 + t : sent[i] = IF i <= 1 THEN <<cut>>[i] ELSE p.sent[i - 1]
      BY <1>3, <2>1, ConcatProperties
    <2> HIDE DEF sent, t
    <2>4. sent[1] = cut
      BY <1>3, <2>1, <2>3
    <2>5. ASSUME NEW i \in 1 .. t PROVE sent[i + 1] = p.sent[i]
      <3>1. i + 1 \in 1 .. 1 + t /\ ~(i + 1 <= 1) /\ (i + 1) - 1 = i
        BY <1>3
      <3>2. QED
        BY <2>3, <3>1
    <2>6. QED
      BY <1>1, <1>3, <2>2, <2>4, <2>5
  <1> HIDE DEF sent
  <1>7. taken = Characters(sent)
    <2> DEFINE a == [i \in DOMAIN p.sent |-> p.sent[i].chars + p.sent[i].thought]
               b == [i \in DOMAIN sent |-> sent[i].chars + sent[i].thought]
    <2>1. a \in Seq(Nat) /\ b \in Seq(Nat)
      BY <1>3, <1>6, Measures
    <2>2. Len(a) = t /\ Len(b) = t + 1
      BY <1>1, <1>3, <1>6
    <2>3. b[1] = cut.chars + cut.thought
      BY <1>1, <1>6
    <2>4. ASSUME NEW i \in 1 .. t PROVE b[i + 1] = a[i]
      <3>1. i \in DOMAIN p.sent /\ i + 1 \in DOMAIN sent /\ sent[i + 1] = p.sent[i]
        BY <1>1, <1>3, <1>6
      <3>2. QED
        BY <3>1
    <2> HIDE DEF a, b
    <2>5. Total(b) = b[1] + Total(a)
      BY <2>1, <2>2, <2>4, TotalPrepend
    <2>6. Total(a) = p.used
      BY DEF Loop, Characters, a
    <2>7. Total(b) = taken
      BY <1>3, <1>5, <2>3, <2>5, <2>6
    <2>8. QED
      BY <2>7 DEF Characters, b
  <1>8. ASSUME NEW i \in 1 .. n PROVE IsCut(sent[i], h[L - n + i])
    <2>1. CASE i = 1
      BY <1>4, <1>6, <2>1
    <2>2. CASE i # 1
      <3>1. i - 1 \in 1 .. t /\ (i - 1) + 1 = i /\ L - t + (i - 1) = L - n + i
        BY <1>1, <1>3, <2>2
      <3>2. sent[i] = p.sent[i - 1]
        BY <1>6, <3>1
      <3>3. IsCut(p.sent[i - 1], h[L - t + (i - 1)])
        BY <3>1 DEF Loop
      <3>4. QED
        BY <3>1, <3>2, <3>3
    <2>3. QED
      BY <2>1, <2>2
  <1>9. sent[n] = h[L]
    <2>1. CASE n = 1
      <3>1. m = h[L]
        BY <1>1, <2>1
      <3>2. QED
        BY <1>4, <1>6, <2>1, <3>1 DEF IsPrompt
    <2>2. CASE n # 1
      <3>1. n - 1 >= 1 /\ t \in 1 .. t /\ t + 1 = n
        BY <1>1, <1>3, <2>2
      <3>2. p.sent[t] = h[L]
        BY <3>1 DEF Loop
      <3>3. QED
        BY <1>6, <3>1, <3>2
    <2>3. QED
      BY <2>1, <2>2
  <1>10. taken \in Nat /\ trimmed \in BOOLEAN
    BY <1>3, <1>5
  <1> HIDE DEF L, m, taken, trimmed
  <1>11. /\ q.sent = sent /\ q.used = taken /\ q.full = FALSE
         /\ q \in PickedStates
    BY <1>3, <1>6, <1>10 DEF PickedStates
  <1> HIDE DEF q, t
  <1>12. Len(q.sent) <= MaxMessages
    BY <1>1, <1>3, <1>6, <1>11, Limits DEF t
  <1>13. Loop(h, n, q)
    <2>1. Len(q.sent) = n /\ Len(q.sent) <= n /\ Len(q.sent) >= 1
      BY <1>1, <1>6, <1>11
    <2>2. \A i \in 1 .. Len(q.sent) : IsCut(q.sent[i], h[Len(h) - Len(q.sent) + i])
      BY <1>8, <1>11, <2>1 DEF L
    <2>3. q.used = Characters(q.sent) /\ q.used <= MaxChars
      BY <1>4, <1>7, <1>11
    <2>4. ~q.full
      BY <1>11
    <2>5. q.sent[Len(q.sent)] = h[Len(h)]
      BY <1>9, <1>11, <2>1 DEF L
    <2>6. QED
      BY <1>11, <1>12, <2>1, <2>2, <2>3, <2>4, <2>5 DEF Loop
  <1>14. QED
    BY <1>13 DEF q, sent, taken, trimmed, cut, m, L

\* What the loop keeps has its type, whatever it has picked so far.
LEMMA PickTyped ==
    ASSUME NEW p \in PickedStates, NEW m \in Kept
    PROVE  Pick(p, m) \in PickedStates
  <1> DEFINE ends == \/ Len(p.sent) >= MaxMessages
                     \/ p.used + Least(m.chars, MaxMessage) > MaxChars
             cut == Cut(m, p.used)
             sent == <<cut>> \o p.sent
             taken == p.used + cut.chars + cut.thought
             trimmed == (p.trimmed \/ cut # m)
  <1>1. p.sent \in Seq(Text) /\ p.used \in Nat /\ p.trimmed \in BOOLEAN /\ p.full \in BOOLEAN
    BY DEF PickedStates
  <1>2. CASE p.full
    BY <1>2 DEF Pick
  <1>3. CASE ~p.full /\ ends
    <2>1. Pick(p, m) = [p EXCEPT !.trimmed = TRUE, !.full = TRUE]
      BY <1>3 DEF Pick, EndSearch
    <2>2. QED
      BY <2>1 DEF PickedStates
  <1>4. CASE ~p.full /\ ~ends
    <2>1. Pick(p, m) = [p EXCEPT !.sent = sent, !.used = taken, !.trimmed = trimmed]
      BY <1>4 DEF Pick
    <2>2. p.used + Least(m.chars, MaxMessage) <= MaxChars
      <3>1. m.chars \in Nat
        BY DEF Kept, Text
      <3>2. Least(m.chars, MaxMessage) \in Nat /\ MaxChars \in Nat
        BY <3>1, LeastIs, Limits
      <3>3. QED
        BY <1>1, <1>4, <3>2
    <2>3. cut \in Text
      BY <1>1, <2>2, CutIs DEF IsCut
    <2> HIDE DEF cut
    <2>4. sent \in Seq(Text) /\ taken \in Nat /\ trimmed \in BOOLEAN
      <3>1. <<cut>> \in Seq(Text)
        BY <2>3
      <3>2. sent \in Seq(Text)
        BY <1>1, <3>1, ConcatProperties
      <3>3. cut.chars \in Nat /\ cut.thought \in Nat
        BY <2>3 DEF Text
      <3>4. taken \in Nat
        BY <1>1, <3>3
      <3>5. QED
        BY <3>2, <3>4
    <2> HIDE DEF sent, taken, trimmed
    <2>5. QED
      BY <2>1, <2>4 DEF PickedStates
  <1>5. QED
    BY <1>2, <1>3, <1>4

\* One more message.
LEMMA PickKeepsLoop ==
    ASSUME NEW h \in Seq(Kept), NEW n \in 1 .. Len(h), NEW p, Loop(h, n - 1, p),
           IsPrompt(h[Len(h)])
    PROVE  Loop(h, n, Pick(p, h[Len(h) - n + 1]))
  <1> DEFINE m == h[Len(h) - n + 1]
             ends == \/ Len(p.sent) >= MaxMessages
                     \/ p.used + Least(m.chars, MaxMessage) > MaxChars
  <1>1. n \in Nat /\ n >= 1 /\ Len(h) \in Nat /\ m \in Kept
    <2>1. Len(h) - n + 1 \in 1 .. Len(h)
      OBVIOUS
    <2>2. QED
      BY <2>1
  <1>2. p \in PickedStates /\ p.sent \in Seq(Text) /\ Len(p.sent) \in Nat /\ p.used \in Nat
    BY DEF Loop, PickedStates
  <1>3. m.chars \in Nat /\ Least(m.chars, MaxMessage) \in Nat
        /\ Least(m.chars, MaxMessage) <= MaxMessage
    <2>1. m.chars \in Nat
      BY <1>1 DEF Kept, Text
    <2>2. QED
      BY <2>1, LeastIs, Limits
  <1> HIDE DEF m
  <1>4. CASE p.full
    <2>1. Pick(p, m) = p
      BY <1>4 DEF Pick
    <2>2. n - 1 # 0
      BY <1>4 DEF Loop
    <2>3. n - 1 >= 1 /\ n # 0
      BY <1>1, <2>2
    <2>4. Len(p.sent) <= n
      BY <1>1, <1>2 DEF Loop
    <2>5. Loop(h, n, p)
      BY <1>4, <2>3, <2>4 DEF Loop
    <2>6. QED
      BY <2>1, <2>5 DEF m
  <1>5. CASE ~p.full /\ ends
    <2> DEFINE q == [p EXCEPT !.trimmed = TRUE, !.full = TRUE]
    <2>1. Pick(p, m) = q
      BY <1>5 DEF Pick, EndSearch
    <2>2. q.sent = p.sent /\ q.used = p.used /\ q.full = TRUE /\ q \in PickedStates
      BY <1>2 DEF PickedStates
    <2>3. n - 1 # 0
      <3>1. ASSUME n - 1 = 0 PROVE FALSE
        <4>1. Len(p.sent) = 0 /\ p.sent = <<>>
          BY <1>2, <1>5, <3>1 DEF Loop
        <4>2. p.used = 0
          <5> DEFINE a == [i \in DOMAIN p.sent |-> p.sent[i].chars + p.sent[i].thought]
          <5>1. a \in Seq(Nat) /\ Len(a) = 0
            BY <1>2, <4>1, Measures
          <5>2. Characters(p.sent) = Total(a)
            BY DEF Characters
          <5> HIDE DEF a
          <5>3. Total(a) = 0
            BY <5>1, TotalSmall
          <5>4. QED
            BY <5>2, <5>3 DEF Loop
        <4>3. MaxMessage <= MaxChars /\ MaxMessage \in Nat /\ MaxChars \in Nat
              /\ MaxMessages \in Nat /\ MaxMessages >= 1
          BY LimitAssumption, Limits
        <4>4. QED
          BY <1>3, <1>5, <4>1, <4>2, <4>3
      <3>2. QED
        BY <3>1
    <2>4. n - 1 >= 1 /\ n # 0
      BY <1>1, <2>3
    <2> HIDE DEF q
    <2>5. Len(q.sent) <= n
      BY <1>1, <1>2, <2>2 DEF Loop
    <2>6. Loop(h, n, q)
      BY <2>2, <2>4, <2>5 DEF Loop
    <2>7. QED
      BY <2>1, <2>6 DEF m
  <1>6. CASE ~p.full /\ ~ends
    <2>1. Len(p.sent) < MaxMessages /\ p.used + Least(m.chars, MaxMessage) <= MaxChars
      BY <1>2, <1>3, <1>6, Limits
    <2> DEFINE cut == Cut(m, p.used)
               q == [p EXCEPT !.sent = <<cut>> \o @,
                              !.used = @ + cut.chars + cut.thought,
                              !.trimmed = @ \/ cut # m]
    <2>2. Pick(p, m) = q
      BY <1>6 DEF Pick
    <2>3. Loop(h, n, q)
      BY <1>6, <2>1, PrependLoop DEF m
    <2>4. QED
      BY <2>2, <2>3 DEF m
  <1>7. QED
    BY <1>4, <1>5, <1>6

NothingPicked == [sent |-> <<>>, used |-> 0, full |-> FALSE, trimmed |-> FALSE]

\* The function that buildBoundedRequest()'s loop is defined by.
PickedUpTo(h) ==
    CHOOSE picked : picked = [n \in 0 .. Len(h) |->
        IF n = 0
        THEN [sent |-> <<>>, used |-> 0, full |-> FALSE, trimmed |-> FALSE]
        ELSE Pick(picked[n - 1], h[Len(h) - n + 1])]

\* Nothing is picked at first.
LEMMA NothingLoop ==
    ASSUME NEW h
    PROVE  NothingPicked \in PickedStates /\ Loop(h, 0, NothingPicked)
  <1>1. NothingPicked \in PickedStates
    BY DEF NothingPicked, PickedStates
  <1>2. /\ NothingPicked.sent = <<>> /\ NothingPicked.used = 0
        /\ NothingPicked.full = FALSE
    BY DEF NothingPicked
  <1> DEFINE s == NothingPicked.sent
             a == [i \in DOMAIN s |-> s[i].chars + s[i].thought]
  <1>3. s \in Seq(Text) /\ Len(s) = 0
    BY <1>2
  <1>4. a \in Seq(Nat) /\ Len(a) = 0
    BY <1>3, Measures
  <1> HIDE DEF a
  <1>5. Total(a) = 0
    BY <1>4, TotalSmall
  <1>6. Characters(s) = 0
    BY <1>5 DEF Characters, a
  <1>7. MaxMessages \in Nat /\ MaxChars \in Nat
    BY Limits
  <1>8. QED
    BY <1>1, <1>2, <1>3, <1>6, <1>7 DEF Loop

\* The loop as a whole.
LEMMA LoopEnds ==
    ASSUME NEW h \in Seq(Kept), IsPrompt(h[Len(h)])
    PROVE  Loop(h, Len(h), PickedUpTo(h)[Len(h)])
  <1> DEFINE N == Len(h)
             F(f) == [n \in 0 .. N |->
                IF n = 0
                THEN [sent |-> <<>>, used |-> 0, full |-> FALSE, trimmed |-> FALSE]
                ELSE Pick(f[n - 1], h[N - n + 1])]
             step == [n \in 1 .. N |-> [p \in PickedStates |-> Pick(p, h[N - n + 1])]]
             g == PickedUpTo(h)
  <1>1. N \in Nat /\ \A n \in 1 .. N : h[N - n + 1] \in Kept
    OBVIOUS
  <1>2. step \in [1 .. N -> [PickedStates -> PickedStates]]
    BY <1>1, PickTyped
  <1> HIDE DEF N
  <1>3. PICK f \in [0 .. N -> PickedStates] :
           f[0] = NothingPicked /\ \A k \in 1 .. N : f[k] = step[k][f[k - 1]]
    <2>1. NothingPicked \in PickedStates
      BY NothingLoop
    <2> HIDE DEF step
    <2>2. Recursive(N, PickedStates, NothingPicked, step)
      BY <1>1, <1>2, <2>1, RecursionEnds, Zenon
    <2>3. QED
      BY <2>2 DEF Recursive
  <1>4. f = F(f)
    <2>1. ASSUME NEW n \in 0 .. N PROVE f[n] = F(f)[n]
      <3>1. CASE n = 0
        BY <1>3, <3>1 DEF NothingPicked
      <3>2. CASE n # 0
        <4>1. n \in 1 .. N /\ n - 1 \in 0 .. N
          BY <1>1, <3>2
        <4>2. f[n - 1] \in PickedStates
          BY <4>1
        <4>3. step[n][f[n - 1]] = Pick(f[n - 1], h[N - n + 1])
          BY <4>1, <4>2
        <4>4. QED
          BY <1>3, <3>2, <4>1, <4>3
      <3>3. QED
        BY <3>1, <3>2
    <2>2. f = [n \in 0 .. N |-> f[n]] /\ F(f) = [n \in 0 .. N |-> F(f)[n]]
      OBVIOUS
    <2> HIDE DEF F
    <2>3. QED
      BY <2>1, <2>2
  <1>5. g = F(g)
    <2>1. g = CHOOSE picked : picked = F(picked)
      BY DEF PickedUpTo, N
    <2> HIDE DEF g, F
    <2>2. QED
      BY <1>4, <2>1
  <1>6. /\ g[0] = NothingPicked
        /\ \A n \in 1 .. N : g[n] = Pick(g[n - 1], h[N - n + 1])
    <2> HIDE DEF g
    <2>1. ASSUME NEW n \in 0 .. N
          PROVE  g[n] = IF n = 0 THEN NothingPicked ELSE Pick(g[n - 1], h[N - n + 1])
      BY <1>5 DEF NothingPicked
    <2>2. g[0] = NothingPicked
      BY <1>1, <2>1
    <2>3. ASSUME NEW n \in 1 .. N PROVE g[n] = Pick(g[n - 1], h[N - n + 1])
      <3>1. n \in 0 .. N /\ n # 0
        BY <1>1
      <3>2. QED
        BY <2>1, <3>1
    <2>4. QED
      BY <2>2, <2>3
  <1> HIDE DEF g
  <1> DEFINE Wrong == {n \in 0 .. N : ~Loop(h, n, g[n])}
  <1>7. Wrong = {}
    <2> SUFFICES ASSUME Wrong # {} PROVE FALSE
      OBVIOUS
    <2>1. PICK n \in Wrong : \A m \in Wrong : n <= m
      <3>1. Wrong \in SUBSET Nat
        OBVIOUS
      <3> HIDE DEF Wrong
      <3>2. QED
        BY <3>1, FirstPosition
    <2>2. n \in 0 .. N /\ ~Loop(h, n, g[n])
      OBVIOUS
    <2>3. n # 0
      BY <1>6, <2>2, NothingLoop
    <2>4. n \in 1 .. N /\ n - 1 \in 0 .. N /\ ~(n <= n - 1)
      BY <1>1, <2>2, <2>3
    <2>5. Loop(h, n - 1, g[n - 1])
      BY <2>1, <2>4
    <2>6. Loop(h, n, Pick(g[n - 1], h[Len(h) - n + 1]))
      BY <2>4, <2>5, PickKeepsLoop DEF N
    <2>7. QED
      BY <1>6, <2>2, <2>4, <2>6 DEF N
  <1>8. N \in 0 .. N
    BY <1>1
  <1>9. Loop(h, N, g[N])
    BY <1>7, <1>8
  <1>10. QED
    BY <1>9 DEF N, g

\* A part of a sequence of messages is one, and so are its elements those of
\* the whole.
LEMMA EndOf ==
    ASSUME NEW T, NEW s \in Seq(T), NEW n \in 0 .. Len(s)
    PROVE  LET u == SubSeq(s, n + 1, Len(s))
           IN  /\ u \in Seq(T) /\ Len(u) = Len(s) - n
               /\ \A i \in 1 .. Len(s) - n : u[i] = s[n + i]
  <1> DEFINE u == SubSeq(s, n + 1, Len(s))
  <1>1. Len(s) \in Nat /\ n \in Nat /\ n <= Len(s)
    OBVIOUS
  <1>2. u \in Seq(T) /\ Len(u) = Len(s) - n
    BY <1>1
  <1>3. \A i \in 1 .. Len(s) - n : u[i] = s[n + i]
    BY <1>1
  <1>4. QED
    BY <1>2, <1>3

\* A request has a number of bytes.
LEMMA BytesIsNat ==
    ASSUME NEW s \in Seq(Text)
    PROVE  Bytes(s) \in Nat
  <1> DEFINE a == [i \in DOMAIN s |-> Overhead + (s[i].chars + s[i].thought) * s[i].wide]
  <1>1. a \in Seq(Nat)
    BY Measures
  <1> HIDE DEF a
  <1>2. Total(a) \in Nat
    BY <1>1, TotalSmall
  <1>3. QED
    BY <1>2 DEF Bytes, a

\* The oldest messages go until the rest fits, or is the newest message alone.
LEMMA WithinBytesIs ==
    ASSUME NEW s \in Seq(Text), Len(s) >= 1
    PROVE  \E n \in 0 .. Len(s) - 1 :
              /\ WithinBytes(s) = SubSeq(s, n + 1, Len(s))
              /\ Bytes(SubSeq(s, n + 1, Len(s))) <= MaxBytes \/ n = Len(s) - 1
  <1> DEFINE B(n) == Bytes(SubSeq(s, n + 1, Len(s)))
             Enough(n) == B(n) <= MaxBytes \/ n = Len(s) - 1
             First(n) == Enough(n) /\ \A k \in 0 .. n - 1 : B(k) > MaxBytes
             S == {n \in 0 .. Len(s) - 1 : Enough(n)}
  <1>1. Len(s) \in Nat /\ Len(s) - 1 \in 0 .. Len(s) - 1 /\ MaxBytes \in Nat
    BY Limits
  <1>2. ASSUME NEW n \in 0 .. Len(s) PROVE B(n) \in Nat
    BY EndOf, BytesIsNat
  <1> HIDE DEF B
  <1>3. PICK n \in S : \A k \in S : n <= k
    <2>1. S \in SUBSET Nat /\ Len(s) - 1 \in S
      BY <1>1
    <2>2. S # {}
      BY <2>1
    <2> HIDE DEF S
    <2>3. QED
      BY <2>1, <2>2, FirstPosition
  <1>4. n \in 0 .. Len(s) - 1 /\ Enough(n)
    OBVIOUS
  <1>5. ASSUME NEW k \in 0 .. n - 1 PROVE B(k) > MaxBytes
    <2>1. k \in 0 .. Len(s) - 1 /\ ~(n <= k) /\ k \in 0 .. Len(s)
      BY <1>1, <1>4
    <2>2. k \notin S
      BY <1>3, <2>1
    <2>3. ~(B(k) <= MaxBytes)
      BY <2>1, <2>2
    <2>4. QED
      BY <1>1, <1>2, <2>1, <2>3
  <1>6. First(n)
    BY <1>4, <1>5
  <1> HIDE DEF First
  <1> DEFINE c == CHOOSE m \in 0 .. Len(s) - 1 : First(m)
  <1>7. c \in 0 .. Len(s) - 1 /\ First(c)
    BY <1>4, <1>6
  <1>8. WithinBytes(s) = SubSeq(s, c + 1, Len(s))
    BY DEF WithinBytes, First, B
  <1> HIDE DEF c
  <1>9. QED
    BY <1>7, <1>8 DEF First, B

\* A single prompt has room: its bytes are within their limit.
LEMMA PromptFits ==
    ASSUME NEW s \in Seq(Text), Len(s) = 1, IsPrompt(s[1]), s[1].chars <= MaxPrompt
    PROVE  Bytes(s) <= MaxBytes
  <1> DEFINE a == [i \in DOMAIN s |-> Overhead + (s[i].chars + s[i].thought) * s[i].wide]
             c == s[1].chars
             w == s[1].wide
  <1>1. DOMAIN s = 1 .. 1 /\ s[1] \in Text
    OBVIOUS
  <1>2. c \in Nat /\ w \in Widths /\ w \in Nat /\ s[1].thought = 0 /\ c <= MaxPrompt
    BY <1>1, Limits DEF Text, IsPrompt
  <1>3. a \in Seq(Nat) /\ Len(a) = 1 /\ a[1] = Overhead + (c + s[1].thought) * w
    <2>1. a \in Seq(Nat)
      BY Measures
    <2>2. DOMAIN a = 1 .. 1 /\ 1 \in DOMAIN s
      BY <1>1
    <2>3. a[1] = Overhead + (c + s[1].thought) * w
      BY <2>2
    <2> HIDE DEF a, c, w
    <2>4. Len(a) = 1
      BY <2>1, <2>2
    <2>5. QED
      BY <2>1, <2>3, <2>4
  <1> HIDE DEF a, c, w
  <1>4. Bytes(s) = Overhead + c * w
    <2>1. Total(a) = a[1]
      BY <1>3, TotalSmall
    <2>2. c + s[1].thought = c
      BY <1>2
    <2>3. QED
      BY <1>3, <2>1, <2>2 DEF Bytes, a
  <1>5. c * w <= MaxPrompt * w
    <2>1. \A x, y, z \in Nat : x <= y => x * z <= y * z
      OBVIOUS
    <2>2. MaxPrompt \in Nat
      BY Limits
    <2>3. QED
      BY <1>2, <2>1, <2>2
  <1>6. Overhead + MaxPrompt * w <= MaxBytes
    BY <1>2, LimitAssumption
  <1>7. /\ Overhead \in Nat /\ MaxBytes \in Nat
        /\ c * w \in Nat /\ MaxPrompt * w \in Nat
    <2>1. \A x, y \in Nat : x * y \in Nat
      OBVIOUS
    <2>2. QED
      BY <1>2, <2>1, Limits
  <1>8. QED
    BY <1>4, <1>5, <1>6, <1>7

\* A request made of a transcript h: the end of h, each message cut, the
\* newest one as it is, and within all limits.
Context(h, sent) ==
    /\ sent \in Seq(Text) /\ Len(sent) \in 1 .. Len(h) /\ Len(sent) <= MaxMessages
    /\ \A i \in 1 .. Len(sent) : IsCut(sent[i], h[Len(h) - Len(sent) + i])
    /\ sent[Len(sent)] = h[Len(h)]
    /\ Characters(sent) <= MaxChars /\ Bytes(sent) <= MaxBytes

\* The request that the page builds is one.
LEMMA RequestIs ==
    ASSUME NEW h \in Seq(Kept), h # <<>>, IsPrompt(h[Len(h)]), h[Len(h)].chars <= MaxPrompt
    PROVE  /\ BoundedRequest(h).of = h
           /\ Context(h, BoundedRequest(h).messages)
  <1> DEFINE L == Len(h)
             p == PickedUpTo(h)[L]
             s == p.sent
             S == Len(s)
             sent == WithinBytes(s)
             u == Len(sent)
  <1>1. L \in Nat /\ L >= 1 /\ L \in 1 .. L
    OBVIOUS
  <1>2. BoundedRequest(h).of = h /\ BoundedRequest(h).messages = sent
    BY DEF BoundedRequest, PickedUpTo
  <1>3. Loop(h, L, p)
    BY LoopEnds
  <1> HIDE DEF p
  <1>4. /\ s \in Seq(Text) /\ S \in Nat /\ S >= 1 /\ S <= L /\ S <= MaxMessages
        /\ \A i \in 1 .. S : IsCut(s[i], h[L - S + i])
        /\ s[S] = h[L] /\ Characters(s) <= MaxChars
    BY <1>1, <1>3 DEF Loop, PickedStates
  <1> HIDE DEF s, L
  <1>5. PICK n \in 0 .. S - 1 :
           /\ sent = SubSeq(s, n + 1, S)
           /\ Bytes(SubSeq(s, n + 1, S)) <= MaxBytes \/ n = S - 1
    BY <1>4, WithinBytesIs
  <1>6. /\ sent \in Seq(Text) /\ u = S - n
        /\ \A i \in 1 .. S - n : sent[i] = s[n + i]
    <2>1. n \in 0 .. S
      BY <1>4
    <2>2. QED
      BY <1>4, <1>5, <2>1, EndOf
  <1> HIDE DEF S, sent
  <1>7. u \in Nat /\ u >= 1 /\ u <= L /\ u <= MaxMessages /\ n + u = S
        /\ n \in Nat
    <2>1. S \in Nat /\ S >= 1 /\ S <= L /\ S <= MaxMessages /\ u = S - n
      BY <1>4, <1>6
    <2>2. n \in Nat /\ n <= S - 1
      BY <2>1
    <2>3. MaxMessages \in Nat
      BY Limits
    <2> HIDE DEF u
    <2>4. QED
      BY <1>1, <2>1, <2>2, <2>3
  <1>8. ASSUME NEW i \in 1 .. u PROVE IsCut(sent[i], h[L - u + i])
    <2>1. i \in 1 .. S - n /\ n + i \in 1 .. S /\ L - S + (n + i) = L - u + i
      BY <1>1, <1>4, <1>6, <1>7
    <2>2. IsCut(s[n + i], h[L - S + (n + i)])
      BY <1>4, <2>1
    <2>3. QED
      BY <1>6, <2>1, <2>2
  <1>9. sent[u] = h[L]
    BY <1>4, <1>6, <1>7
  <1>10. Characters(sent) <= MaxChars
    <2> DEFINE a == [i \in DOMAIN s |-> s[i].chars + s[i].thought]
               b == [i \in DOMAIN sent |-> sent[i].chars + sent[i].thought]
    <2>1. a \in Seq(Nat) /\ b \in Seq(Nat)
      BY <1>4, <1>6, Measures
    <2>2. DOMAIN s = 1 .. S /\ DOMAIN sent = 1 .. u
      BY <1>4, <1>6 DEF S
    <2>3. Len(a) = S /\ Len(b) = u /\ n \in 0 .. Len(a) /\ Len(b) = Len(a) - n
      BY <1>4, <1>6, <1>7, <2>2
    <2>4. ASSUME NEW i \in 1 .. Len(b) PROVE b[i] = a[n + i]
      <3>1. i \in 1 .. u /\ n + i \in 1 .. S
        <4>1. i \in 1 .. u
          BY <2>3
        <4> HIDE DEF u, a, b
        <4>2. S \in Nat /\ u \in Nat /\ n \in Nat /\ n + u = S
          BY <1>4, <1>7
        <4>3. QED
          BY <4>1, <4>2
      <3>2. sent[i] = s[n + i]
        BY <1>6, <3>1
      <3>3. b[i] = sent[i].chars + sent[i].thought
        BY <2>2, <3>1
      <3>4. a[n + i] = s[n + i].chars + s[n + i].thought
        BY <2>2, <3>1
      <3>5. QED
        BY <3>2, <3>3, <3>4
    <2> HIDE DEF a, b
    <2>5. Total(b) <= Total(a)
      BY <2>1, <2>3, <2>4, TotalSuffix
    <2>6. Total(a) \in Nat /\ Total(b) \in Nat
      BY <2>1, TotalSmall
    <2>7. Characters(sent) = Total(b) /\ Characters(s) = Total(a)
      BY DEF Characters, a, b
    <2>8. QED
      BY <1>4, <2>5, <2>6, <2>7, Limits
  <1>11. Bytes(sent) <= MaxBytes
    <2>1. CASE n = S - 1
      <3>1. u = 1 /\ Len(sent) = 1
        <4>1. S \in Nat /\ u \in Nat /\ n + u = S /\ n \in Nat
          BY <1>4, <1>7
        <4>2. u = 1
          <5> HIDE DEF u
          <5>1. QED
            BY <2>1, <4>1
        <4>3. QED
          BY <4>2
      <3>2. sent[1] = h[L]
        BY <1>9, <3>1
      <3>3. IsPrompt(sent[1]) /\ sent[1].chars <= MaxPrompt
        BY <3>2 DEF L
      <3>4. QED
        BY <1>6, <3>1, <3>3, PromptFits
    <2>2. CASE n # S - 1
      BY <1>5, <2>2
    <2>3. QED
      BY <2>1, <2>2
  <1>12. Context(h, sent)
    <2>1. Len(sent) \in 1 .. Len(h) /\ Len(sent) <= MaxMessages
      BY <1>1, <1>7 DEF L
    <2>2. QED
      BY <1>6, <1>8, <1>9, <1>10, <1>11, <2>1 DEF Context, L
  <1>13. QED
    BY <1>2, <1>12 DEF sent, s, L

\* The newest n elements of a sequence.
LEMMA NewestIs ==
    ASSUME NEW T, NEW s \in Seq(T), NEW n \in Nat
    PROVE  /\ Newest(s, n) \in Seq(T)
           /\ Len(Newest(s, n)) = Least(Len(s), n)
           /\ \A i \in 1 .. Least(Len(s), n) :
                 Newest(s, n)[i] = s[Len(s) - Least(Len(s), n) + i]
  <1> DEFINE k == Least(Len(s), n)
             d == Len(s) - k
  <1>1. Len(s) \in Nat /\ k \in Nat /\ k <= Len(s)
    <2>1. Len(s) \in Nat
      OBVIOUS
    <2>2. QED
      BY <2>1, LeastIs
  <1> HIDE DEF k
  <1>2. d \in 0 .. Len(s) /\ Len(s) - d = k
    BY <1>1
  <1>3. Newest(s, n) = SubSeq(s, d + 1, Len(s))
    BY DEF Newest, k
  <1> HIDE DEF d
  <1>4. LET v == SubSeq(s, d + 1, Len(s))
        IN  /\ v \in Seq(T) /\ Len(v) = Len(s) - d
            /\ \A i \in 1 .. Len(s) - d : v[i] = s[d + i]
    BY <1>2, EndOf
  <1>5. /\ Newest(s, n) \in Seq(T) /\ Len(Newest(s, n)) = k
        /\ \A i \in 1 .. k : Newest(s, n)[i] = s[d + i]
    BY <1>2, <1>3, <1>4
  <1>6. QED
    BY <1>5 DEF d, k

\* The server accepts such a request unless a character was cut in half.
LEMMA ContextAccepted ==
    ASSUME NEW h \in Seq(Kept), NEW sent, Context(h, sent), IsPrompt(h[Len(h)])
    PROVE  Accepts(sent) \/ \E i \in DOMAIN sent : Torn(sent[i])
  <1> DEFINE u == Len(sent)
  <1>1. /\ sent \in Seq(Text) /\ u \in Nat /\ u >= 1 /\ u <= MaxMessages /\ u \in 1 .. u
        /\ sent[u] = h[Len(h)]
        /\ DOMAIN sent = 1 .. u
    BY DEF Context
  <1>2. /\ MaxMessage <= ServerMessage /\ MaxMessages <= ServerMessages
        /\ MaxChars <= ServerChars /\ MaxBytes <= ServerBytes
    BY LimitAssumption
  <1>3. MaxMessage \in Nat /\ MaxMessages \in Nat /\ MaxChars \in Nat /\ MaxBytes \in Nat
        /\ MaxMessage >= 1
    BY Limits
  <1>4. ServerBytes \in Nat /\ ServerChars \in Nat /\ ServerMessage \in Nat
        /\ ServerMessages \in Nat
    BY BoundAssumption
  <1>5. Bytes(sent) \in Nat /\ Characters(sent) \in Nat
    <2> DEFINE a == [i \in DOMAIN sent |-> sent[i].chars + sent[i].thought]
    <2>1. a \in Seq(Nat)
      BY <1>1, Measures
    <2> HIDE DEF a
    <2>2. Total(a) \in Nat
      BY <2>1, TotalSmall
    <2>3. Characters(sent) \in Nat
      BY <2>2 DEF Characters, a
    <2>4. QED
      BY <1>1, <2>3, BytesIsNat
  <1>6. Bytes(sent) <= ServerBytes /\ Characters(sent) <= ServerChars
    <2>1. Bytes(sent) <= MaxBytes /\ Characters(sent) <= MaxChars
      BY DEF Context
    <2>2. QED
      BY <1>2, <1>3, <1>4, <1>5, <2>1
  <1>7. u \in 1 .. ServerMessages
    <2> HIDE DEF u
    <2>1. QED
      BY <1>1, <1>2, <1>3, <1>4
  <1>8. ASSUME NEW i \in 1 .. u
        PROVE  /\ sent[i].chars \in 1 .. ServerMessage
               /\ sent[i].thought \in 0 .. ServerMessage
               /\ sent[i].thought > 0 => sent[i].role = "assistant"
    <2> DEFINE c == sent[i]
               m == h[Len(h) - u + i]
               content == Least(m.chars, MaxMessage)
    <2>1. IsCut(c, m)
      BY DEF Context
    <2>2. m \in Kept
      <3>1. u \in 1 .. Len(h) /\ Len(h) \in Nat
        BY DEF Context
      <3> HIDE DEF u
      <3>2. Len(h) - u + i \in 1 .. Len(h)
        BY <1>1, <3>1
      <3>3. QED
        BY <3>2
    <2> HIDE DEF c, m, u
    <2>3. /\ c \in Text /\ c.thought <= MaxMessage
          /\ c.thought > 0 => m.role = "assistant"
          /\ c = [m EXCEPT !.chars = content, !.thought = c.thought]
      BY <2>1 DEF IsCut
    <2>4. m \in Text
      BY <2>2 DEF Kept
    <2>5. m.chars \in Nat /\ m.chars >= 1 /\ c.chars \in Nat /\ c.thought \in Nat
      BY <2>3, <2>4 DEF Text
    <2>6. content \in Nat /\ content >= 1 /\ content <= MaxMessage
      BY <1>3, <2>5 DEF Least
    <2> HIDE DEF content
    <2>7. c.chars = content /\ c.role = m.role
      BY <2>3, <2>4 DEF Text
    <2>8. c.chars \in 1 .. ServerMessage /\ c.thought \in 0 .. ServerMessage
      BY <1>2, <1>3, <1>4, <2>3, <2>5, <2>6, <2>7
    <2>9. QED
      BY <2>3, <2>7, <2>8 DEF c
  <1>9. sent[u].role = "user"
    BY <1>1 DEF IsPrompt
  <1>10. ASSUME \A i \in 1 .. u : ~Torn(sent[i]) PROVE Accepts(sent)
    BY <1>1, <1>6, <1>7, <1>8, <1>9, <1>10 DEF Accepts
  <1>11. QED
    BY <1>1, <1>10

\* A request that is the end of h, but for what is cut off its messages.
IsEndOf(sent, h) ==
    LET n == Len(sent)
        tail == Newest(h, n)
    IN \A i \in 1 .. n :
          sent[i] = [tail[i] EXCEPT !.chars = Least(@, MaxMessage),
                                    !.thought = sent[i].thought]

\* The request is the end of the transcript.
LEMMA ContextIsEnd ==
    ASSUME NEW h \in Seq(Kept), NEW sent, Context(h, sent)
    PROVE  Last(sent) = Last(h) /\ IsEndOf(sent, h)
  <1> DEFINE n == Len(sent)
             tail == Newest(h, n)
  <1>1. n \in Nat /\ Len(h) \in Nat /\ n \in 1 .. Len(h)
    BY DEF Context
  <1>2. Least(Len(h), n) = n
    BY <1>1 DEF Least
  <1>3. \A i \in 1 .. n : tail[i] = h[Len(h) - n + i]
    <2>1. \A i \in 1 .. Least(Len(h), n) : tail[i] = h[Len(h) - Least(Len(h), n) + i]
      BY <1>1, NewestIs
    <2>2. QED
      BY <1>2, <2>1
  <1> HIDE DEF tail
  <1>4. ASSUME NEW i \in 1 .. n
        PROVE  sent[i] = [tail[i] EXCEPT !.chars = Least(@, MaxMessage),
                                         !.thought = sent[i].thought]
    <2>1. IsCut(sent[i], h[Len(h) - n + i])
      BY DEF Context
    <2>2. IsCut(sent[i], tail[i])
      BY <1>3, <2>1
    <2>3. QED
      BY <2>2 DEF IsCut
  <1>5. Last(sent) = Last(h)
    BY DEF Last, Context
  <1>6. QED
    BY <1>4, <1>5 DEF tail, IsEndOf

-----------------------------------------------------------------------------
(* The chat page.                                                          *)

\* The kept messages of one conversation.
Said(c) == {m \in Kept : m.conv = c}

\* The transcript is kept messages and, until the page is left, those of the
\* conversation on screen.
TranscriptInv ==
    /\ messages \in Seq(Kept)
    /\ ~leaving => conv \in 1 .. MaxTurns + 1 /\ messages \in Seq(Said(conv))

\* A turn has a request that was made of a transcript which ended in a prompt,
\* of the conversation on screen unless the turn was aborted.
RequestInv ==
    /\ ~Generating => request = NoRequest
    /\ Generating => /\ request.of \in Seq(Kept) /\ request.of # <<>>
                     /\ IsPrompt(Last(request.of))
                     /\ Context(request.of, request.messages)
    /\ ~leaving /\ Generating /\ ~aborted => Last(request.of).conv = conv

\* While a turn lasts the transcript stays as its prompt made it, or its
\* conversation has been dropped and the turn is to fail.
TurnInv ==
    Generating =>
        /\ Last(request.of).conv \in Nat /\ Last(request.of).conv <= conv
        /\ ~leaving => \/ Last(request.of).conv = conv /\ messages = request.of
                          /\ prior + 1 = Len(request.of)
                       \/ Last(request.of).conv # conv /\ messages = <<>> /\ aborted

PageInv == TypeOK /\ TranscriptInv /\ RequestInv /\ TurnInv

\* The transcript that a failure leaves is a part of the one before it.
LEMMA FailureKeepsPart ==
    ASSUME NEW T, NEW s \in Seq(T), prior \in Nat
    PROVE  AfterFailure(s) \in Seq(T) /\ Len(AfterFailure(s)) <= MaxStored
  <1> DEFINE k == Least(Len(s), prior + 1)
             cut == SubSeq(s, 1, k)
  <1>1. k \in Nat /\ k <= Len(s)
    <2>1. Len(s) \in Nat /\ prior + 1 \in Nat
      OBVIOUS
    <2>2. QED
      BY <2>1, LeastIs
  <1>2. cut \in Seq(T)
    <2> HIDE DEF k
    <2>1. QED
      BY <1>1
  <1> HIDE DEF k, cut
  <1>3. MaxStored \in Nat
    BY Limits
  <1>4. Newest(cut, MaxStored) \in Seq(T)
        /\ Len(Newest(cut, MaxStored)) = Least(Len(cut), MaxStored)
    BY <1>2, <1>3, NewestIs
  <1>5. Least(Len(cut), MaxStored) <= MaxStored
    <2>1. Len(cut) \in Nat
      BY <1>2
    <2>2. QED
      BY <1>3, <2>1, LeastIs
  <1>6. AfterFailure(s) = Newest(cut, MaxStored)
    BY DEF AfterFailure, cut, k
  <1>7. QED
    BY <1>4, <1>5, <1>6

\* Kept messages are messages, and those of a conversation are kept.
LEMMA Sorts ==
    /\ \A s : s \in Seq(Kept) => s \in Seq(Text)
    /\ \A s, c : s \in Seq(Said(c)) => s \in Seq(Kept)
  <1>1. Kept \subseteq Text /\ \A c : Said(c) \subseteq Kept
    BY DEF Kept, Said
  <1>2. ASSUME NEW S, NEW T, S \subseteq T, NEW s \in Seq(S) PROVE s \in Seq(T)
    BY <1>2
  <1>3. QED
    BY <1>1, <1>2

\* The page starts empty.
LEMMA PageStarts == Init => PageInv
  <1> SUFFICES ASSUME Init PROVE PageInv
    OBVIOUS
  <1> USE DEF Init
  <1>1. TypeOK
    <2>1. view \in [chars : 0 .. MaxAnswer, thought : 0 .. MaxThought, done : BOOLEAN]
      BY Limits DEF Blank
    <2>2. request.messages \in Seq(Text) /\ request.of \in Seq(Text)
      BY DEF NoRequest
    <2>3. prior \in 0 .. MaxStored /\ turns \in 0 .. MaxTurns /\ Len(messages) <= MaxStored
          /\ Len(messages) <= MaxStored + 1 /\ conv \in Nat
      BY Limits
    <2>4. messages \in Seq(Text)
      OBVIOUS
    <2>5. QED
      BY <2>1, <2>2, <2>3, <2>4 DEF TypeOK
  <1>2. TranscriptInv
    <2>1. conv \in 1 .. MaxTurns + 1
      BY Limits
    <2>2. QED
      BY <2>1 DEF TranscriptInv
  <1>3. RequestInv /\ TurnInv
    BY DEF RequestInv, TurnInv, Generating
  <1>4. QED
    BY <1>1, <1>2, <1>3 DEF PageInv

\* A prompt joins the transcript, and a request is made of it.
LEMMA SendKeeps == PageInv /\ Send => PageInv'
  <1> SUFFICES ASSUME PageInv, Send PROVE PageInv'
    OBVIOUS
  <1>1. TypeOK /\ TranscriptInv /\ ~leaving /\ ~Generating /\ turns < MaxTurns
    BY DEF PageInv, Send, UserActs
  <1>2. PICK k \in 1 .. MaxPrompt, w \in Widths :
           LET asked == Append(messages,
                 [role |-> "user", chars |-> k, thought |-> 0, wide |-> w,
                  charSplits |-> {}, thoughtSplits |-> {}, conv |-> conv])
           IN messages' = asked /\ request' = BoundedRequest(asked)
    BY DEF Send
  <1>3. /\ prior' = Len(messages) /\ place' = "fetching" /\ aborted' = FALSE
        /\ view' = Blank /\ turns' = turns + 1
        /\ conv' = conv /\ leaving' = leaving /\ logout' = logout /\ password' = password
    BY DEF Send, handlers
  <1> DEFINE m == [role |-> "user", chars |-> k, thought |-> 0, wide |-> w,
                   charSplits |-> {}, thoughtSplits |-> {}, conv |-> conv]
             h == Append(messages, m)
             N == Len(messages)
  <1>4. messages' = h /\ request' = BoundedRequest(h)
    BY <1>2
  <1>5. conv \in 1 .. MaxTurns + 1 /\ messages \in Seq(Said(conv)) /\ conv \in Nat
    BY <1>1 DEF TranscriptInv
  <1>6. m \in Said(conv) /\ IsPrompt(m) /\ m.chars <= MaxPrompt
    <2>1. k \in Nat /\ k >= 1 /\ k <= MaxPrompt /\ k <= MaxMessage
      <3>1. MaxPrompt <= MaxMessage
        BY LimitAssumption
      <3>2. MaxPrompt \in Nat /\ MaxMessage \in Nat
        BY Limits
      <3>3. QED
        BY <3>1, <3>2
    <2> DEFINE Chars == Nat \ {0}
               Thoughts == Nat
               Convs == 1 .. MaxTurns + 1
               Sets == SUBSET Nat
    <2>2. k \in Chars /\ 0 \in Thoughts /\ conv \in Convs /\ {} \in Sets /\ ~(0 > 0)
      BY <1>5, <2>1
    <2>3. Text = [role : {"user", "assistant"}, chars : Chars, thought : Thoughts,
                  wide : Widths, charSplits : Sets, thoughtSplits : Sets, conv : Convs]
      BY DEF Text
    <2> HIDE DEF Chars, Thoughts, Convs, Sets
    <2>4. m \in Text
      BY <2>2, <2>3
    <2>5. QED
      BY <2>1, <2>2, <2>4 DEF Said, Kept, IsPrompt
  <1> HIDE DEF m
  <1>7. /\ h \in Seq(Said(conv)) /\ h # <<>> /\ N \in Nat /\ Len(h) = N + 1
        /\ h[Len(h)] = m
    BY <1>5, <1>6, AppendProperties
  <1> HIDE DEF h
  <1>8. h \in Seq(Kept) /\ h \in Seq(Text)
    BY <1>7, Sorts
  <1>9. request'.of = h /\ Context(h, request'.messages)
    BY <1>4, <1>6, <1>7, <1>8, RequestIs
  <1>10. TypeOK'
    <2>1. messages' \in Seq(Text) /\ request'.of \in Seq(Text)
          /\ request'.messages \in Seq(Text)
      BY <1>4, <1>8, <1>9 DEF Context
    <2>2. N <= MaxStored /\ turns \in 0 .. MaxTurns
      BY <1>1 DEF TypeOK
    <2>3. Len(messages') <= MaxStored + 1 /\ prior' \in 0 .. MaxStored
      BY <1>3, <1>4, <1>7, <2>2, Limits
    <2>4. turns' \in 0 .. MaxTurns
      BY <1>1, <1>3, <2>2, Limits
    <2>5. view' \in [chars : 0 .. MaxAnswer, thought : 0 .. MaxThought, done : BOOLEAN]
      BY <1>3, Limits DEF Blank
    <2>6. conv' \in Nat /\ leaving' \in BOOLEAN
          /\ {logout, password}' \subseteq {"idle", "waiting"}
      BY <1>1, <1>3 DEF TypeOK
    <2>7. Generating'
      BY <1>3 DEF Generating
    <2>8. QED
      BY <1>3, <2>1, <2>3, <2>4, <2>5, <2>6, <2>7 DEF TypeOK
  <1>11. TranscriptInv'
    BY <1>3, <1>4, <1>5, <1>7, <1>8 DEF TranscriptInv
  <1>12. RequestInv'
    <2>1. Last(h) = m /\ m.conv = conv
      BY <1>6, <1>7 DEF Last, Said
    <2>2. Generating'
      BY <1>3 DEF Generating
    <2>3. QED
      BY <1>3, <1>6, <1>7, <1>8, <1>9, <2>1, <2>2 DEF RequestInv
  <1>13. TurnInv'
    <2>1. Last(h) = m /\ m.conv = conv
      BY <1>6, <1>7 DEF Last, Said
    <2>2. prior' + 1 = Len(h)
      BY <1>3, <1>7
    <2>3. QED
      BY <1>3, <1>4, <1>5, <1>9, <2>1, <2>2 DEF TurnInv
  <1>14. QED
    BY <1>10, <1>11, <1>12, <1>13 DEF PageInv

\* A turn ends with a transcript that satisfies the invariant.
LEMMA TurnEnds ==
    ASSUME PageInv, Finally, UNCHANGED <<turns, conv, handlers>>,
           leaving' = leaving \/ leaving' = TRUE,
           messages' \in Seq(Kept), Len(messages') <= MaxStored + 1,
           leaving' \/ Len(messages') <= MaxStored,
           ~leaving' => messages' \in Seq(Said(conv))
    PROVE  PageInv'
  <1>1. TypeOK /\ TranscriptInv
    BY DEF PageInv
  <1>2. /\ place' = "idle" /\ aborted' = FALSE /\ prior' = 0 /\ view' = Blank
        /\ request' = NoRequest
        /\ turns' = turns /\ conv' = conv /\ logout' = logout /\ password' = password
    BY DEF Finally, handlers
  <1>3. TypeOK'
    <2>1. messages' \in Seq(Text)
      BY Sorts
    <2>2. request'.messages \in Seq(Text) /\ request'.of \in Seq(Text)
      BY <1>2 DEF NoRequest
    <2>3. view' \in [chars : 0 .. MaxAnswer, thought : 0 .. MaxThought, done : BOOLEAN]
      BY <1>2, Limits DEF Blank
    <2>4. prior' \in 0 .. MaxStored
      BY <1>2, Limits
    <2>5. conv' \in Nat /\ leaving' \in BOOLEAN /\ turns' \in 0 .. MaxTurns
          /\ {logout, password}' \subseteq {"idle", "waiting"}
      BY <1>1, <1>2 DEF TypeOK
    <2>6. QED
      BY <1>2, <2>1, <2>2, <2>3, <2>4, <2>5 DEF TypeOK
  <1>4. TranscriptInv'
    BY <1>1, <1>2 DEF TranscriptInv, TypeOK
  <1>5. RequestInv' /\ TurnInv'
    BY <1>2 DEF RequestInv, TurnInv, Generating
  <1>6. QED
    BY <1>3, <1>4, <1>5 DEF PageInv

\* A whole answer joins the transcript.
LEMMA AnsweredKeeps == PageInv /\ Answered => PageInv'
  <1> SUFFICES ASSUME PageInv, Answered PROVE PageInv'
    OBVIOUS
  <1>1. /\ place = "streaming" /\ ~aborted /\ view.done /\ view.chars > 0
        /\ Finally /\ UNCHANGED <<turns, conv, handlers>> /\ leaving' = leaving
    BY DEF Answered, Complete
  <1>2. TypeOK /\ TranscriptInv /\ RequestInv /\ Generating
    BY <1>1 DEF PageInv, Generating
  <1>3. PICK w \in Widths, s0 \in Splits(view.chars) \cap SUBSET {MaxMessage},
             t0 \in Splits(view.thought) :
           messages' = Newest(Append(messages,
              [role |-> "assistant", chars |-> view.chars,
               thought |-> Least(view.thought, MaxMessage), wide |-> w,
               charSplits |-> s0, thoughtSplits |-> t0,
               conv |-> Last(request.of).conv]), MaxStored)
    BY <1>1 DEF Answered
  <1> DEFINE c == Last(request.of).conv
             t == Least(view.thought, MaxMessage)
             m == [role |-> "assistant", chars |-> view.chars, thought |-> t,
                   wide |-> w, charSplits |-> s0, thoughtSplits |-> t0, conv |-> c]
             h == Append(messages, m)
  <1>4. messages' = Newest(h, MaxStored)
    BY <1>3
  <1>5. m \in Said(c)
    <2> DEFINE Chars == Nat \ {0}
               Thoughts == Nat
               Convs == 1 .. MaxTurns + 1
               Sets == SUBSET Nat
               Lengths == 0 .. MaxAnswer
               Traces == 0 .. MaxThought
    <2>1. view \in [chars : Lengths, thought : Traces, done : BOOLEAN]
      BY <1>2 DEF TypeOK
    <2>2. c \in Convs
      <3>1. request.of \in Seq(Kept) /\ request.of # <<>>
        BY <1>2 DEF RequestInv
      <3>2. Last(request.of) \in Kept
        BY <3>1 DEF Last
      <3>3. QED
        BY <3>2 DEF Kept, Text
    <2>3. Text = [role : {"user", "assistant"}, chars : Chars, thought : Thoughts,
                  wide : Widths, charSplits : Sets, thoughtSplits : Sets, conv : Convs]
      BY DEF Text
    <2> HIDE DEF Lengths, Traces
    <2>4. view.chars \in Lengths /\ view.thought \in Traces
      BY <2>1
    <2>5. view.chars \in Chars
      BY <1>1, <2>4, Limits DEF Lengths
    <2>6. t \in Thoughts
      <3>1. view.thought \in Nat /\ MaxMessage \in Nat
        BY <2>4, Limits DEF Traces
      <3>2. QED
        BY <3>1, LeastIs
    <2>7. s0 \in Sets /\ t0 \in Sets
      <3>1. s0 \subseteq 1 .. view.chars - 1 /\ t0 \subseteq 1 .. view.thought - 1
        BY DEF Splits
      <3>2. QED
        BY <3>1
    <2> HIDE DEF Chars, Thoughts, Convs, Sets, c, t
    <2>8. m \in Text /\ m.role = "assistant" /\ m.conv = c
      BY <2>2, <2>3, <2>5, <2>6, <2>7
    <2>9. QED
      BY <2>8 DEF Said, Kept
  <1> HIDE DEF m
  <1>6. m \in Kept
    BY <1>5 DEF Said
  <1>7. h \in Seq(Kept)
    BY <1>2, <1>6, AppendProperties DEF TranscriptInv
  <1>8. MaxStored \in Nat
    BY Limits
  <1>9. messages' \in Seq(Kept) /\ Len(messages') <= MaxStored
    <2>1. Len(messages') = Least(Len(h), MaxStored) /\ messages' \in Seq(Kept)
      BY <1>4, <1>7, <1>8, NewestIs
    <2>2. Len(h) \in Nat
      BY <1>7
    <2> HIDE DEF h
    <2>3. QED
      BY <1>8, <2>1, <2>2, LeastIs
  <1>10. ASSUME ~leaving' PROVE messages' \in Seq(Said(conv))
    <2>1. messages \in Seq(Said(conv)) /\ c = conv
      BY <1>1, <1>2, <1>10 DEF TranscriptInv, RequestInv
    <2>2. h \in Seq(Said(conv))
      BY <1>5, <2>1, AppendProperties
    <2> HIDE DEF h
    <2>3. QED
      BY <1>4, <1>8, <2>2, NewestIs
  <1>11. Len(messages') <= MaxStored + 1
    <2>1. Len(messages') \in Nat
      BY <1>9
    <2>2. QED
      BY <1>8, <1>9, <2>1
  <1>12. QED
    BY <1>1, <1>9, <1>10, <1>11, TurnEnds

\* The transcript is cut after a failure.
LEMMA FailureKeeps == PageInv /\ (Fails \/ BreaksLate) => PageInv'
  <1> SUFFICES ASSUME PageInv, Fails \/ BreaksLate PROVE PageInv'
    OBVIOUS
  <1>1. /\ messages' = AfterFailure(messages)
        /\ Finally /\ UNCHANGED <<turns, conv, handlers>> /\ leaving' = leaving
    BY DEF Fails, BreaksLate
  <1>2. TypeOK /\ TranscriptInv
    BY DEF PageInv
  <1>3. prior \in Nat
    BY <1>2 DEF TypeOK
  <1>4. messages' \in Seq(Kept) /\ Len(messages') <= MaxStored
    BY <1>1, <1>2, <1>3, FailureKeepsPart DEF TranscriptInv
  <1>5. ASSUME ~leaving' PROVE messages' \in Seq(Said(conv))
    <2>1. messages \in Seq(Said(conv))
      BY <1>1, <1>2, <1>5 DEF TranscriptInv
    <2>2. QED
      BY <1>1, <1>3, <2>1, FailureKeepsPart
  <1>6. Len(messages') <= MaxStored + 1
    <2>1. Len(messages') \in Nat
      BY <1>4
    <2>2. QED
      BY <1>4, <2>1, Limits
  <1>7. QED
    BY <1>1, <1>4, <1>5, <1>6, TurnEnds

\* The session is gone.
LEMMA UnauthorizedKeeps == PageInv /\ Unauthorized => PageInv'
  <1> SUFFICES ASSUME PageInv, Unauthorized PROVE PageInv'
    OBVIOUS
  <1>1. /\ messages' = messages /\ leaving' = TRUE
        /\ Finally /\ UNCHANGED <<turns, conv, handlers>>
    BY DEF Unauthorized
  <1>2. messages \in Seq(Kept) /\ Len(messages) <= MaxStored + 1
    BY DEF PageInv, TypeOK, TranscriptInv
  <1>3. QED
    BY <1>1, <1>2, TurnEnds

\* What goes on while the turn and the transcript stay.
LEMMA TurnGoesOn ==
    ASSUME PageInv,
           UNCHANGED <<messages, request, turns, conv, leaving, prior>>,
           Generating' = Generating, place' \in {"idle", "fetching", "streaming"},
           aborted' \in BOOLEAN, aborted => aborted',
           view' \in [chars : 0 .. MaxAnswer, thought : 0 .. MaxThought,
                      done : BOOLEAN],
           {logout, password}' \subseteq {"idle", "waiting"}
    PROVE  PageInv'
  <1>1. TypeOK /\ TranscriptInv /\ RequestInv /\ TurnInv
    BY DEF PageInv
  <1>2. TypeOK'
    BY <1>1 DEF TypeOK
  <1>3. TranscriptInv'
    BY <1>1 DEF TranscriptInv
  <1>4. RequestInv'
    <2>1. aborted \in BOOLEAN
      BY <1>1 DEF TypeOK
    <2>2. QED
      BY <1>1, <2>1 DEF RequestInv
  <1>5. TurnInv'
    <2>1. aborted \in BOOLEAN
      BY <1>1 DEF TypeOK
    <2>2. QED
      BY <1>1, <2>1 DEF TurnInv
  <1>6. QED
    BY <1>2, <1>3, <1>4, <1>5 DEF PageInv

\* A new conversation, or the end of the session, drops the transcript.
LEMMA TranscriptDropped ==
    ASSUME PageInv, messages' = <<>>, conv' = conv + 1, aborted' \in BOOLEAN,
           UNCHANGED <<place, prior, view, request, turns>>,
           \/ leaving' = TRUE
           \/ leaving' = leaving /\ conv <= MaxTurns /\ (Generating => aborted'),
           {logout, password}' \subseteq {"idle", "waiting"}
    PROVE  PageInv'
  <1>1. TypeOK /\ TranscriptInv /\ RequestInv /\ TurnInv
    BY DEF PageInv
  <1>2. messages' \in Seq(Text) /\ messages' \in Seq(Kept) /\ Len(messages') = 0
        /\ messages' \in Seq(Said(conv'))
    OBVIOUS
  <1>3. leaving' \in BOOLEAN /\ conv' \in Nat /\ Len(messages') <= MaxStored
        /\ Len(messages') <= MaxStored + 1
    <2>1. leaving' \in BOOLEAN
      BY <1>1 DEF TypeOK
    <2>2. conv \in Nat
      BY <1>1 DEF TypeOK
    <2>3. MaxStored \in Nat
      BY Limits
    <2>4. conv' \in Nat
      BY <2>2
    <2>5. Len(messages') <= MaxStored /\ Len(messages') <= MaxStored + 1
      BY <1>2, <2>3
    <2>6. QED
      BY <2>1, <2>4, <2>5
  <1>4. TypeOK'
    BY <1>1, <1>2, <1>3 DEF TypeOK
  <1>5. TranscriptInv'
    <2>1. ~leaving' => conv' \in 1 .. MaxTurns + 1
      BY <1>1, <1>3, Limits DEF TypeOK
    <2>2. QED
      BY <1>2, <2>1 DEF TranscriptInv
  <1>6. RequestInv'
    BY <1>1 DEF RequestInv, Generating
  <1>7. TurnInv'
    <2> DEFINE c == Last(request.of).conv
    <2>1. conv \in Nat /\ (Generating' <=> Generating) /\ leaving \in BOOLEAN
      BY <1>1 DEF TypeOK, Generating
    <2>2. Generating => c \in Nat /\ c <= conv
      BY <1>1 DEF TurnInv
    <2>3. Generating => c <= conv + 1 /\ c # conv + 1
      <3> HIDE DEF c
      <3>1. QED
        BY <2>1, <2>2
    <2>4. QED
      BY <2>1, <2>2, <2>3 DEF TurnInv
  <1>8. QED
    BY <1>4, <1>5, <1>6, <1>7 DEF PageInv

\* Every step of the page keeps the invariant.
LEMMA PageStep == PageInv /\ [Next]_vars => PageInv'
  <1> SUFFICES ASSUME PageInv, [Next]_vars PROVE PageInv'
    OBVIOUS
  <1>1. TypeOK
    BY DEF PageInv
  <1>2. /\ place \in {"idle", "fetching", "streaming"} /\ aborted \in BOOLEAN
        /\ view \in [chars : 0 .. MaxAnswer, thought : 0 .. MaxThought, done : BOOLEAN]
        /\ {logout, password} \subseteq {"idle", "waiting"} /\ conv \in Nat
    BY <1>1 DEF TypeOK
  <1>3. CASE Send
    BY <1>3, SendKeeps
  <1>4. CASE Unauthorized
    BY <1>4, UnauthorizedKeeps
  <1>5. CASE Opens
    BY <1>2, <1>5, TurnGoesOn DEF Opens, handlers, Generating
  <1>6. CASE Event
    <2> DEFINE Views == [chars : 0 .. MaxAnswer, thought : 0 .. MaxThought,
                         done : BOOLEAN]
    <2>1. view' \in Views
      <3>1. /\ 0 \in 0 .. MaxAnswer /\ 1 \in 0 .. MaxAnswer
            /\ \A k \in 1 .. MaxAnswer : k \in 0 .. MaxAnswer
            /\ \A k \in 1 .. MaxThought : k \in 0 .. MaxThought
        BY Limits
      <3>2. \/ view' = [view EXCEPT !.chars = 1]
            \/ \E k \in 1 .. MaxThought : view' = [view EXCEPT !.thought = k]
            \/ view' = [view EXCEPT !.chars = 0]
            \/ \E k \in 1 .. MaxAnswer : view' = [view EXCEPT !.chars = k, !.done = TRUE]
        BY <1>6 DEF Event
      <3> DEFINE Lengths == 0 .. MaxAnswer
                 Traces == 0 .. MaxThought
      <3>3. view \in [chars : Lengths, thought : Traces, done : BOOLEAN]
        BY <1>2
      <3>4. /\ 0 \in Lengths /\ 1 \in Lengths
            /\ \A k \in 1 .. MaxAnswer : k \in Lengths
            /\ \A k \in 1 .. MaxThought : k \in Traces
        BY <3>1
      <3> HIDE DEF Lengths, Traces
      <3>5. view' \in [chars : Lengths, thought : Traces, done : BOOLEAN]
        BY <3>2, <3>3, <3>4
      <3>6. QED
        BY <3>5 DEF Lengths, Traces
    <2>2. QED
      BY <1>2, <1>6, <2>1, TurnGoesOn DEF Event, handlers, Generating
  <1>7. CASE Answered
    BY <1>7, AnsweredKeeps
  <1>8. CASE Fails \/ BreaksLate
    BY <1>8, FailureKeeps
  <1>9. CASE Stop
    BY <1>2, <1>9, TurnGoesOn DEF Stop, Abort, handlers, Generating
  <1>10. CASE NewConversation
    BY <1>2, <1>10, TranscriptDropped DEF NewConversation, Abort, handlers, Generating
  <1>11. CASE LogoutStarts
    BY <1>2, <1>11, TurnGoesOn DEF LogoutStarts, Abort, Generating
  <1>12. CASE PasswordStarts
    BY <1>2, <1>12, TurnGoesOn DEF PasswordStarts, Generating
  <1>13. CASE SignedOut
    BY <1>2, <1>13, TranscriptDropped DEF SignedOut
  <1>14. CASE HandlerFails
    BY <1>2, <1>14, TurnGoesOn DEF HandlerFails, Generating
  <1>15. CASE UNCHANGED vars
    BY <1>2, <1>15, TurnGoesOn DEF vars, Generating
  <1>16. CASE Closed
    BY <1>15, <1>16 DEF Closed
  <1>17. QED
    BY <1>3, <1>4, <1>5, <1>6, <1>7, <1>8, <1>9, <1>10, <1>11, <1>12, <1>13,
       <1>14, <1>15, <1>16 DEF Next

\* The page's invariant.
LEMMA PageInvariant == Spec => []PageInv
  BY PageStarts, PageStep, PTL DEF Spec

\* The chat page's variables have their types, and its transcript its bound.
THEOREM PageTypeCorrect == Spec => []TypeOK
  <1>1. PageInv => TypeOK
    BY DEF PageInv
  <1>2. QED
    BY <1>1, PageInvariant, PTL

\* Whatever has been kept of a conversation, the request that
\* buildBoundedRequest() makes of it keeps every limit and rule of the server's
\* validation, for any limits of the page that are within the server's, and the
\* new prompt is in it in full; only half a character can get it refused.
THEOREM RequestsAreWithinLimits == Spec => []RefusedOnlyIfTorn
  <1>1. PageInv => RefusedOnlyIfTorn
    <2> SUFFICES ASSUME PageInv, Generating
                 PROVE  /\ \/ Accepts(request.messages)
                           \/ \E i \in DOMAIN request.messages : Torn(request.messages[i])
                        /\ Last(request.messages) = Last(request.of)
      BY DEF RefusedOnlyIfTorn
    <2>1. /\ request.of \in Seq(Kept) /\ IsPrompt(request.of[Len(request.of)])
          /\ Context(request.of, request.messages)
      BY DEF PageInv, RequestInv, Last
    <2>2. QED
      BY <2>1, ContextAccepted, ContextIsEnd
  <1>2. QED
    BY <1>1, PageInvariant, PTL

\* What buildBoundedRequest() leaves out is the oldest part of the transcript.
THEOREM RequestsHaveNoGap == Spec => []ContextHasNoGap
  <1>1. PageInv => ContextHasNoGap
    <2> SUFFICES ASSUME PageInv PROVE ContextHasNoGap
      OBVIOUS
    <2>1. CASE Generating
      <3>1. request.of \in Seq(Kept) /\ Context(request.of, request.messages)
        BY <2>1 DEF PageInv, RequestInv
      <3>2. IsEndOf(request.messages, request.of)
        BY <3>1, ContextIsEnd
      <3>3. QED
        BY <3>2 DEF ContextHasNoGap, IsEndOf
    <2>2. CASE ~Generating
      <3>1. request.messages = <<>>
        BY <2>2 DEF PageInv, RequestInv, NoRequest
      <3>2. QED
        BY <3>1 DEF ContextHasNoGap
    <2>3. QED
      BY <2>1, <2>2
  <1>2. QED
    BY <1>1, PageInvariant, PTL

\* After a failure the transcript ends in the prompt, as its turn found it; of a
\* conversation that was dropped nothing comes back.
LEMMA FailureEnds ==
    ASSUME PageInv, Fails \/ BreaksLate, ~leaving
    PROVE  IF Last(request.of).conv # conv THEN messages' = <<>>
           ELSE messages' = Newest(request.of, MaxStored)
  <1>1. /\ messages' = AfterFailure(messages) /\ Generating
        /\ TypeOK /\ RequestInv /\ TurnInv
    BY DEF Fails, BreaksLate, PageInv, Generating
  <1>2. request.of \in Seq(Kept) /\ prior \in Nat
    BY <1>1 DEF RequestInv, TypeOK
  <1>3. ASSUME Last(request.of).conv = conv
        PROVE  messages' = Newest(request.of, MaxStored)
    <2>1. messages = request.of /\ prior + 1 = Len(request.of)
      BY <1>1, <1>3 DEF TurnInv
    <2>2. Least(Len(request.of), prior + 1) = Len(request.of)
      BY <2>1 DEF Least
    <2>3. SubSeq(request.of, 1, Len(request.of)) = request.of
      BY <1>2, SubSeqFull
    <2>4. QED
      BY <1>1, <2>1, <2>2, <2>3 DEF AfterFailure
  <1>4. ASSUME Last(request.of).conv # conv PROVE messages' = <<>>
    <2>1. messages = <<>>
      BY <1>1, <1>4 DEF TurnInv
    <2>2. <<>> \in Seq(Kept) /\ Len(<<>>) = 0
      OBVIOUS
    <2>3. Least(0, prior + 1) = 0 /\ Least(0, MaxStored) = 0
      BY <1>2, Limits DEF Least
    <2>4. SubSeq(<<>>, 1, 0) = <<>>
      BY <2>2, SubSeqFull
    <2>5. Newest(<<>>, MaxStored) = <<>>
      <3>1. 0 - 0 + 1 = 1
        OBVIOUS
      <3>2. QED
        BY <2>2, <2>3, <2>4, <3>1 DEF Newest
    <2>6. QED
      BY <1>1, <2>1, <2>2, <2>3, <2>4, <2>5 DEF AfterFailure
  <1>5. QED
    BY <1>3, <1>4

\* An answer is the last message of the transcript that it joins.
LEMMA AnswerEnds ==
    ASSUME PageInv, Answered, ~leaving
    PROVE  /\ Last(request.of).conv = conv /\ view.done /\ ~aborted
           /\ IsAnswer(Last(messages'))
           /\ messages' = Newest(Append(request.of, Last(messages')), MaxStored)
  <1>1. /\ Generating /\ ~aborted /\ view.done /\ RequestInv /\ TurnInv
    BY DEF Answered, Complete, PageInv, Generating
  <1>2. Last(request.of).conv = conv /\ messages = request.of /\ request.of \in Seq(Kept)
    BY <1>1 DEF RequestInv, TurnInv
  <1>3. PICK w \in Widths, s0 \in Splits(view.chars) \cap SUBSET {MaxMessage},
             t0 \in Splits(view.thought) :
           messages' = Newest(Append(messages,
              [role |-> "assistant", chars |-> view.chars,
               thought |-> Least(view.thought, MaxMessage), wide |-> w,
               charSplits |-> s0, thoughtSplits |-> t0,
               conv |-> Last(request.of).conv]), MaxStored)
    BY DEF Answered
  <1> DEFINE t == Least(view.thought, MaxMessage)
             m == [role |-> "assistant", chars |-> view.chars, thought |-> t,
                   wide |-> w, charSplits |-> s0, thoughtSplits |-> t0,
                   conv |-> Last(request.of).conv]
             h == Append(request.of, m)
             n == Least(Len(h), MaxStored)
  <1>4. messages' = Newest(h, MaxStored)
    BY <1>2, <1>3
  <1>5. IsAnswer(m)
    BY DEF IsAnswer
  <1> HIDE DEF t, m
  <1>6. h \in Seq(Kept \cup {m}) /\ Len(h) = Len(request.of) + 1 /\ h[Len(h)] = m
        /\ Len(h) \in Nat /\ Len(h) >= 1
    <2>1. request.of \in Seq(Kept \cup {m}) /\ Len(request.of) \in Nat
      BY <1>2
    <2>2. h \in Seq(Kept \cup {m}) /\ Len(h) = Len(request.of) + 1
          /\ h[Len(request.of) + 1] = m
      BY <2>1, AppendProperties
    <2> HIDE DEF h
    <2>3. QED
      BY <2>1, <2>2
  <1> HIDE DEF h
  <1>7. MaxStored \in Nat /\ MaxStored >= 1
    BY Limits
  <1>8. n \in Nat /\ n >= 1 /\ n <= Len(h)
    BY <1>6, <1>7 DEF Least
  <1>9. Len(messages') = n /\ messages'[n] = h[Len(h) - n + n]
    <2>1. Len(messages') = n /\ \A i \in 1 .. n : messages'[i] = h[Len(h) - n + i]
      BY <1>4, <1>6, <1>7, NewestIs
    <2> HIDE DEF n
    <2>2. n \in 1 .. n
      BY <1>8
    <2>3. QED
      BY <2>1, <2>2
  <1> HIDE DEF n
  <1>10. Len(h) - n + n = Len(h)
    BY <1>6, <1>8
  <1>11. Last(messages') = m
    BY <1>6, <1>9, <1>10 DEF Last
  <1>12. QED
    BY <1>1, <1>2, <1>4, <1>5, <1>11 DEF h

\* However a turn is stopped, breaks or is overtaken by a new conversation, it
\* leaves its whole answer in the transcript, or nothing but its prompt.
THEOREM TurnsAreAllOrNothing == Spec => TurnIsAllOrNothing
  <1> DEFINE Ends == Generating /\ ~Generating' /\ ~leaving'
             Outcome == IF Last(request.of).conv # conv THEN messages' = <<>>
                        ELSE \/ messages' = Newest(request.of, MaxStored)
                             \/ /\ view.done /\ ~aborted /\ IsAnswer(Last(messages'))
                                /\ messages' = Newest(Append(request.of, Last(messages')),
                                                      MaxStored)
  <1>1. ASSUME PageInv, Next, Ends PROVE Outcome
    <2>1. CASE Fails \/ BreaksLate
      <3>1. ~leaving
        BY <1>1, <2>1 DEF Fails, BreaksLate
      <3>2. QED
        BY <1>1, <2>1, <3>1, FailureEnds
    <2>2. CASE Answered
      <3>1. ~leaving
        BY <1>1, <2>2 DEF Answered
      <3>2. QED
        BY <1>1, <2>2, <3>1, AnswerEnds
    <2>3. ~Unauthorized
      BY <1>1 DEF Unauthorized
    <2> HIDE DEF Outcome
    <2>4. CASE \/ Send \/ Opens \/ Event \/ Stop \/ NewConversation
               \/ LogoutStarts \/ PasswordStarts \/ SignedOut \/ HandlerFails \/ Closed
      BY <1>1, <2>4 DEF Send, Opens, Event, Stop, NewConversation, LogoutStarts,
                        PasswordStarts, SignedOut, HandlerFails, Closed, vars, Generating
    <2>5. QED
      BY <1>1, <2>1, <2>2, <2>3, <2>4 DEF Next
  <1>2. PageInv /\ [Next]_vars => [Ends => Outcome]_vars
    BY <1>1
  <1>3. QED
    BY <1>2, PageInvariant, PTL DEF Spec, TurnIsAllOrNothing

\* An answer to the conversation before does not enter the one on screen.
THEOREM ConversationsStayApart == Spec => []OnlyThisConversation
  <1>1. PageInv => OnlyThisConversation
    BY DEF PageInv, TranscriptInv, Said, OnlyThisConversation
  <1>2. QED
    BY <1>1, PageInvariant, PTL

-----------------------------------------------------------------------------
(* The credential page.                                                    *)

\* No element occurs twice.
Once(s) == \A i, j \in DOMAIN s : s[i] = s[j] => i = j

\* A sequence without repetitions is as long as its set of elements is large.
LEMMA OnceCounts ==
    ASSUME NEW T, NEW s \in Seq(T), Once(s)
    PROVE  Len(s) = Cardinality(ToSet(s))
  <1> DEFINE S == ToSet(s)
  <1>1. Len(s) \in Nat /\ DOMAIN s = 1 .. Len(s)
    OBVIOUS
  <1>2. s \in Bijection(1 .. Len(s), S)
    BY <1>1 DEF Bijection, Injection, Surjection, IsInjective, Once, ToSet
  <1> HIDE DEF S
  <1>3. ExistsBijection(1 .. Len(s), S)
    BY <1>2 DEF ExistsBijection
  <1>4. IsFiniteSet(1 .. Len(s)) /\ Cardinality(1 .. Len(s)) = Len(s)
    BY <1>1, FS_Interval
  <1>5. QED
    BY <1>3, <1>4, FS_Bijection DEF S

\* The sequence of a set has each element once.
LEMMA SetToSeqIs ==
    ASSUME NEW T, NEW S \in SUBSET T, IsFiniteSet(S)
    PROVE  /\ SetToSeq(S) \in Seq(T) /\ Once(SetToSeq(S))
           /\ ToSet(SetToSeq(S)) = S /\ Len(SetToSeq(S)) = Cardinality(S)
  <1> DEFINE n == Cardinality(S)
             q == SetToSeq(S)
  <1>1. n \in Nat /\ ExistsBijection(1 .. n, S)
    BY FS_CardinalityType
  <1>2. PICK f \in [1 .. n -> S] : IsInjective(f)
    BY <1>1 DEF ExistsBijection, Bijection, Injection
  <1>3. q \in [1 .. n -> S] /\ IsInjective(q)
    BY <1>2 DEF SetToSeq
  <1>4. IsFiniteSet(1 .. n) /\ Cardinality(1 .. n) = n
    BY <1>1, FS_Interval
  <1> HIDE DEF q
  <1>5. q \in Injection(1 .. n, S)
    BY <1>3 DEF Injection
  <1>6. q \in Surjection(1 .. n, S)
    BY <1>4, <1>5, FS_Injection
  <1>7. q \in Seq(T) /\ Len(q) = n /\ DOMAIN q = 1 .. n
    BY <1>1, <1>3
  <1>8. Once(q)
    BY <1>3 DEF Once, IsInjective
  <1>9. ToSet(q) = S
    BY <1>3, <1>6 DEF ToSet, Surjection
  <1>10. QED
    BY <1>7, <1>8, <1>9 DEF q

\* The list without c.
LEMMA OthersIs ==
    ASSUME credentials \in Seq(Credentials), Once(credentials), NEW c
    PROVE  /\ Others(c) \in Seq(Credentials) /\ Once(Others(c))
           /\ ToSet(Others(c)) = ToSet(credentials) \ {c}
  <1> DEFINE s == credentials
             kept == {i \in DOMAIN s : s[i] # c}
             q == Picked(s, kept)
  <1>1. kept \in SUBSET (DOMAIN s) /\ s \in Seq(Credentials)
    OBVIOUS
  <1>2. q \in Seq(Credentials)
    BY <1>1, PickedIsSeq
  <1>3. /\ \A i \in kept : Rank(kept, i) \in DOMAIN q /\ q[Rank(kept, i)] = s[i]
        /\ \A k \in DOMAIN q : \E i \in kept : Rank(kept, i) = k /\ q[k] = s[i]
    BY <1>1, PickedElements
  <1>4. Others(c) = q
    BY DEF Others
  <1> HIDE DEF q
  <1>5. Once(q)
    <2>1. ASSUME NEW k \in DOMAIN q, NEW l \in DOMAIN q, q[k] = q[l] PROVE k = l
      <3>1. PICK i \in kept : Rank(kept, i) = k /\ q[k] = s[i]
        BY <1>3
      <3>2. PICK j \in kept : Rank(kept, j) = l /\ q[l] = s[j]
        BY <1>3
      <3>3. i = j
        BY <2>1, <3>1, <3>2 DEF Once
      <3>4. QED
        BY <3>1, <3>2, <3>3
    <2>2. QED
      BY <2>1 DEF Once
  <1>6. ToSet(q) = ToSet(s) \ {c}
    <2>1. ASSUME NEW x \in ToSet(q) PROVE x \in ToSet(s) \ {c}
      <3>1. PICK k \in DOMAIN q : x = q[k]
        BY DEF ToSet
      <3>2. PICK i \in kept : Rank(kept, i) = k /\ q[k] = s[i]
        BY <1>3
      <3>3. i \in DOMAIN s /\ s[i] # c
        OBVIOUS
      <3> HIDE DEF s
      <3>4. QED
        BY <3>1, <3>2, <3>3 DEF ToSet
    <2>2. ASSUME NEW x \in ToSet(s) \ {c} PROVE x \in ToSet(q)
      <3>1. PICK i \in DOMAIN s : x = s[i]
        BY DEF ToSet
      <3>2. i \in kept
        BY <2>2, <3>1
      <3>3. Rank(kept, i) \in DOMAIN q /\ q[Rank(kept, i)] = x
        BY <1>3, <3>1, <3>2
      <3>4. QED
        BY <3>3 DEF ToSet
    <2>3. QED
      BY <2>1, <2>2
  <1>7. QED
    BY <1>2, <1>4, <1>5, <1>6

\* A list with c in front of it.
LEMMA InFront ==
    ASSUME NEW T, NEW s \in Seq(T), Once(s), NEW c \in T, c \notin ToSet(s)
    PROVE  /\ <<c>> \o s \in Seq(T) /\ Once(<<c>> \o s)
           /\ ToSet(<<c>> \o s) = ToSet(s) \cup {c}
  <1> DEFINE q == <<c>> \o s
  <1>1. <<c>> \in Seq(T) /\ Len(<<c>>) = 1 /\ <<c>>[1] = c
    OBVIOUS
  <1>2. /\ q \in Seq(T) /\ Len(q) = 1 + Len(s)
        /\ \A i \in 1 .. 1 + Len(s) : q[i] = IF i <= 1 THEN <<c>>[i] ELSE s[i - 1]
    BY <1>1, ConcatProperties
  <1>3. Len(s) \in Nat /\ DOMAIN s = 1 .. Len(s) /\ DOMAIN q = 1 .. 1 + Len(s)
    BY <1>2
  <1> HIDE DEF q
  <1>4. q[1] = c
    BY <1>1, <1>2, <1>3
  <1>5. ASSUME NEW i \in 1 .. Len(s) PROVE i + 1 \in DOMAIN q /\ q[i + 1] = s[i]
    <2>1. i + 1 \in 1 .. 1 + Len(s) /\ ~(i + 1 <= 1) /\ (i + 1) - 1 = i
      BY <1>3
    <2>2. QED
      BY <1>2, <1>3, <2>1
  <1>6. ASSUME NEW i \in DOMAIN q, i # 1
        PROVE  i - 1 \in DOMAIN s /\ q[i] = s[i - 1] /\ i \in Int
    BY <1>2, <1>3, <1>6
  <1>7. Once(q)
    <2>1. ASSUME NEW i \in DOMAIN q, NEW j \in DOMAIN q, q[i] = q[j] PROVE i = j
      <3>1. CASE i = 1 /\ j = 1
        BY <3>1
      <3>2. CASE i = 1 /\ j # 1
        BY <1>4, <1>6, <2>1, <3>2 DEF ToSet
      <3>3. CASE i # 1 /\ j = 1
        BY <1>4, <1>6, <2>1, <3>3 DEF ToSet
      <3>4. CASE i # 1 /\ j # 1
        <4>1. i - 1 = j - 1
          BY <1>6, <2>1, <3>4 DEF Once
        <4>2. QED
          BY <1>3, <4>1
      <3>5. QED
        BY <3>1, <3>2, <3>3, <3>4
    <2>2. QED
      BY <2>1 DEF Once
  <1>8. ToSet(q) = ToSet(s) \cup {c}
    <2>1. ASSUME NEW x \in ToSet(q) PROVE x \in ToSet(s) \cup {c}
      BY <1>4, <1>6 DEF ToSet
    <2>2. ASSUME NEW x \in ToSet(s) PROVE x \in ToSet(q)
      BY <1>3, <1>5 DEF ToSet
    <2>3. c \in ToSet(q)
      BY <1>3, <1>4 DEF ToSet
    <2>4. QED
      BY <2>1, <2>2, <2>3
  <1>9. QED
    BY <1>2, <1>7, <1>8 DEF q

\* A created credential whose answer has not come, and those that are deleted
\* but whose answer has not come.
Made == IF create.place = "made" THEN {create.id} ELSE {}
Deleted == {c \in Credentials : revoke[c] = "deleted"}

\* A set of rows that differs from the table by unanswered changes only.
UpToAnswers(L) == table \ L \subseteq Made /\ L \ table \subseteq Deleted

\* The list differs from the table by unanswered changes, and so does a list on
\* its way that no answer has passed.  A deleted id stays used and gone.
ListInv ==
    /\ Once(credentials)
    /\ Made \subseteq Credentials /\ Deleted \subseteq used \ table
    /\ ~doubt => UpToAnswers(ToSet(credentials))
    /\ ~doubt /\ refresh.place = "answered" /\ ~refresh.passed
          => UpToAnswers(refresh.rows)
    /\ ~doubt /\ ~expired => off \subseteq RevokingIds
    /\ doubt \in BOOLEAN

CredentialInv == ZcTypeOK /\ ListInv

\* Every set of credentials can be listed.
LEMMA Listed ==
    ASSUME NEW S \in SUBSET Credentials
    PROVE  /\ SetToSeq(S) \in Seq(Credentials) /\ Once(SetToSeq(S))
           /\ ToSet(SetToSeq(S)) = S /\ Len(SetToSeq(S)) = Cardinality(S)
  <1>1. IsFiniteSet(S)
    BY CredentialsAssumption, FS_Subset
  <1>2. QED
    BY <1>1, SetToSeqIs

\* The page has just loaded its list.
LEMMA CredentialsStart == ZcInit => CredentialInv
  <1> SUFFICES ASSUME ZcInit PROVE CredentialInv
    OBVIOUS
  <1>1. table \in SUBSET Credentials /\ used = table /\ credentials = SetToSeq(table)
    BY DEF ZcInit
  <1>2. credentials \in Seq(Credentials) /\ Once(credentials) /\ ToSet(credentials) = table
    BY <1>1, Listed
  <1>3. Deleted = {} /\ Made = {} /\ refresh.place = "idle" /\ off = {} /\ doubt = FALSE
    BY DEF ZcInit, Deleted, Made, NoRefresh, NoCreate
  <1>4. ListInv
    BY <1>2, <1>3 DEF ListInv, UpToAnswers
  <1>5. ZcTypeOK
    <2>1. refresh \in [place : {"idle", "asked", "answered"},
                       rows : SUBSET Credentials, passed : BOOLEAN]
      BY DEF ZcInit, NoRefresh
    <2>2. create \in [place : {"idle", "asked", "made", "checking"},
                      id : Credentials \cup {None}]
      BY DEF ZcInit, NoCreate
    <2>3. revoke \in [Credentials -> {"idle", "asked", "deleted"}]
      BY DEF ZcInit
    <2>4. QED
      BY <1>1, <1>2, <2>1, <2>2, <2>3 DEF ZcTypeOK, ZcInit
  <1>6. QED
    BY <1>4, <1>5 DEF CredentialInv

Refreshes == [place : {"idle", "asked", "answered"}, rows : SUBSET Credentials,
              passed : BOOLEAN]
Creates == [place : {"idle", "asked", "made", "checking"}, id : Credentials \cup {None}]
Revokes == [Credentials -> {"idle", "asked", "deleted"}]

\* The types, one by one.
ZcSorts ==
    /\ table \subseteq used /\ used \subseteq Credentials
    /\ credentials \in Seq(Credentials)
    /\ refresh \in Refreshes /\ create \in Creates /\ revoke \in Revokes
    /\ key \in Credentials \cup {None}
    /\ confirming \subseteq Credentials /\ off \subseteq Credentials
    /\ held \subseteq Credentials
    /\ expired \in BOOLEAN

\* They are the page's types, before and after a step.
LEMMA Sorted == (ZcTypeOK <=> ZcSorts) /\ (ZcTypeOK' <=> ZcSorts')
  <1>1. ASSUME NEW a, NEW b, NEW c
        PROVE  {a, b, c} \subseteq SUBSET Credentials
               <=> /\ a \subseteq Credentials /\ b \subseteq Credentials
                   /\ c \subseteq Credentials
    BY Zenon
  <1>2. ZcTypeOK <=> ZcSorts
    BY <1>1 DEF ZcTypeOK, ZcSorts, Refreshes, Creates, Revokes
  <1>3. ZcTypeOK' <=> ZcSorts'
    BY <1>1 DEF ZcTypeOK, ZcSorts, Refreshes, Creates, Revokes
  <1>4. QED
    BY <1>2, <1>3

\* A step that leaves the list and the table alone, and loses track of no change
\* whose answer has not come, keeps what is known of the list.
LEMMA ListKept ==
    ASSUME ListInv, UNCHANGED <<table, used, credentials>>, Deleted' \subseteq Deleted,
           Made' \subseteq Made,
           ~doubt' => ~doubt /\ Made' = Made /\ Deleted \subseteq Deleted',
           refresh'.place = "answered" => refresh' = refresh,
           ~doubt' /\ ~expired' => off' \subseteq RevokingIds',
           doubt' \in BOOLEAN
    PROVE  ListInv'
  <1>1. Once(credentials')
    BY DEF ListInv
  <1>2. Made' \subseteq Credentials /\ Deleted' \subseteq used' \ table'
    BY DEF ListInv
  <1>3. ASSUME NEW L, UpToAnswers(L), ~doubt'
        PROVE  table' \ L \subseteq Made' /\ L \ table' \subseteq Deleted'
    BY <1>3 DEF UpToAnswers
  <1>4. ~doubt' => table' \ ToSet(credentials') \subseteq Made'
                   /\ ToSet(credentials') \ table' \subseteq Deleted'
    <2>1. ASSUME ~doubt' PROVE UpToAnswers(ToSet(credentials))
      BY <2>1 DEF ListInv
    <2>2. QED
      BY <1>3, <2>1
  <1>5. ~doubt' /\ refresh'.place = "answered" /\ ~refresh'.passed
           => table' \ refresh'.rows \subseteq Made'
              /\ refresh'.rows \ table' \subseteq Deleted'
    <2>1. ASSUME ~doubt', refresh'.place = "answered", ~refresh'.passed
          PROVE  UpToAnswers(refresh.rows) /\ refresh' = refresh
      BY <2>1 DEF ListInv
    <2>2. QED
      BY <1>3, <2>1
  <1>6. QED
    BY <1>1, <1>2, <1>4, <1>5 DEF ListInv, UpToAnswers

\* A step that changes the list keeps the invariant if the new list and the
\* list on its way are up to answers.
LEMMA ListChanges ==
    ASSUME CredentialInv, UNCHANGED <<table, used>>, Render,
           credentials' \in Seq(Credentials), Once(credentials'),
           Deleted' \subseteq Deleted, Made' \subseteq Made,
           RevokingIds \cap ToSet(credentials') \subseteq RevokingIds',
           ~doubt' => /\ table \ ToSet(credentials') \subseteq Made'
                      /\ ToSet(credentials') \ table \subseteq Deleted',
           ~doubt' /\ refresh'.place = "answered" /\ ~refresh'.passed =>
               table \ refresh'.rows \subseteq Made' /\ refresh'.rows \ table \subseteq Deleted',
           doubt' \in BOOLEAN,
           refresh' \in Refreshes, create' \in Creates, revoke' \in Revokes,
           key' \in Credentials \cup {None}, expired' = expired
    PROVE  CredentialInv'
  <1>1. ZcTypeOK /\ ListInv
    BY DEF CredentialInv
  <1>2. off' \subseteq RevokingIds' /\ confirming' = {} /\ held' = {}
        /\ off' \subseteq Credentials
    <2>1. off' = RevokingIds \cap ToSet(credentials') /\ confirming' = {} /\ held' = {}
      BY DEF Render
    <2>2. RevokingIds \subseteq Credentials
      BY DEF RevokingIds
    <2>3. QED
      BY <2>1, <2>2
  <1>3. ZcTypeOK'
    <2>1. /\ table' \subseteq used' /\ used' \subseteq Credentials /\ expired' \in BOOLEAN
          /\ confirming' \subseteq Credentials /\ held' \subseteq Credentials
      BY <1>1, <1>2, Sorted DEF ZcSorts
    <2>2. ZcSorts'
      BY <1>2, <2>1 DEF ZcSorts
    <2>3. QED
      BY <2>2, Sorted
  <1>4. Made' \subseteq Credentials /\ Deleted' \subseteq used' \ table'
    BY <1>1 DEF ListInv
  <1>5. ListInv'
    BY <1>2, <1>4 DEF ListInv, UpToAnswers
  <1>6. QED
    BY <1>3, <1>5 DEF CredentialInv

\* The list of the server replaces the page's.
LEMMA AppliesKeeps == CredentialInv /\ RefreshApplies => CredentialInv'
  <1> SUFFICES ASSUME CredentialInv, RefreshApplies PROVE CredentialInv'
    OBVIOUS
  <1>1. ZcSorts /\ ListInv
    BY Sorted DEF CredentialInv
  <1>2. /\ refresh.place = "answered" /\ credentials' = SetToSeq(refresh.rows) /\ Render
        /\ refresh' = NoRefresh
        /\ doubt' = (refresh.rows # table /\ (doubt \/ refresh.passed))
        /\ UNCHANGED <<table, used>> /\ create' = create /\ revoke' = revoke
        /\ key' = key /\ expired' = expired
    BY DEF RefreshApplies, rows
  <1>3. refresh.rows \in SUBSET Credentials
    BY <1>1 DEF ZcSorts, Refreshes
  <1>4. credentials' \in Seq(Credentials) /\ Once(credentials')
        /\ ToSet(credentials') = refresh.rows
    BY <1>2, <1>3, Listed
  <1>5. Deleted' = Deleted /\ Made' = Made /\ RevokingIds' = RevokingIds
    BY <1>2 DEF Deleted, Made, RevokingIds
  <1>6. ASSUME ~doubt'
        PROVE  table \ refresh.rows \subseteq Made /\ refresh.rows \ table \subseteq Deleted
    <2>1. CASE refresh.rows = table
      BY <2>1
    <2>2. CASE refresh.rows # table
      BY <1>1, <1>2, <1>6, <2>2 DEF ListInv, UpToAnswers
    <2>3. QED
      BY <2>1, <2>2
  <1>7. refresh' \in Refreshes /\ refresh'.place # "answered"
    BY <1>2 DEF NoRefresh, Refreshes
  <1>8. doubt' \in BOOLEAN
    BY <1>2
  <1>9. create' \in Creates /\ revoke' \in Revokes /\ key' \in Credentials \cup {None}
    BY <1>1, <1>2 DEF ZcSorts
  <1>10. QED
    BY <1>2, <1>4, <1>5, <1>6, <1>7, <1>8, <1>9, ListChanges

\* A list that was on its way when an answer came.
LEMMA PassesIs ==
    ASSUME refresh \in Refreshes, NEW older \in BOOLEAN, Passes(older)
    PROVE  /\ refresh' \in Refreshes
           /\ refresh'.place = refresh.place /\ refresh'.rows = refresh.rows
           /\ refresh.place = "answered" /\ ~refresh'.passed => ~refresh.passed /\ ~older
  <1> DEFINE all == SUBSET Credentials
             v == (refresh.passed \/ (refresh.place = "answered" /\ older))
  <1>1. Refreshes = [place : {"idle", "asked", "answered"}, rows : all, passed : BOOLEAN]
    BY DEF Refreshes
  <1>2. refresh' = [refresh EXCEPT !.passed = v] /\ v \in BOOLEAN
    BY DEF Passes
  <1> HIDE DEF all, v
  <1>3. /\ refresh' \in Refreshes /\ refresh'.passed = v
        /\ refresh'.place = refresh.place /\ refresh'.rows = refresh.rows
    BY <1>1, <1>2
  <1>4. refresh.place = "answered" /\ ~refresh'.passed => ~refresh.passed /\ ~older
    BY <1>3 DEF v
  <1>5. QED
    BY <1>3, <1>4

\* A created credential is shown.
LEMMA CreateShowsKeeps == CredentialInv /\ CreateShows => CredentialInv'
  <1> SUFFICES ASSUME CredentialInv, CreateShows PROVE CredentialInv'
    OBVIOUS
  <1> DEFINE c == create.id
             older == c \notin refresh.rows
  <1>1. ZcSorts /\ ListInv
    BY Sorted DEF CredentialInv
  <1>2. /\ create.place = "made" /\ credentials' = WithNew(c) /\ Render
        /\ key' = c /\ create' = NoCreate /\ Passes(older)
        /\ doubt' = (doubt \/ c \notin table)
        /\ UNCHANGED <<table, used>> /\ revoke' = revoke /\ expired' = expired
    BY DEF CreateShows, rows
  <1>3. c \in Credentials /\ Made = {c} /\ Made' = {} /\ Deleted' = Deleted
        /\ RevokingIds' = RevokingIds
    BY <1>1, <1>2 DEF ListInv, Made, NoCreate, Deleted, RevokingIds
  <1> DEFINE o == Others(c)
  <1>4. /\ o \in Seq(Credentials) /\ Once(o) /\ ToSet(o) = ToSet(credentials) \ {c}
        /\ credentials' = <<c>> \o o
    BY <1>1, <1>2, OthersIs DEF ZcSorts, ListInv, WithNew
  <1> HIDE DEF o, c
  <1>5. /\ credentials' \in Seq(Credentials) /\ Once(credentials')
        /\ ToSet(credentials') = ToSet(credentials) \cup {c}
    <2>1. c \notin ToSet(o)
      BY <1>4
    <2>2. ToSet(credentials') = ToSet(o) \cup {c}
          /\ credentials' \in Seq(Credentials) /\ Once(credentials')
      BY <1>3, <1>4, <2>1, InFront
    <2>3. QED
      BY <1>4, <2>2
  <1>6. /\ refresh' \in Refreshes
        /\ refresh'.place = refresh.place /\ refresh'.rows = refresh.rows
        /\ refresh.place = "answered" /\ ~refresh'.passed => ~refresh.passed /\ ~older
    BY <1>1, <1>2, PassesIs DEF ZcSorts
  <1>7. ASSUME ~doubt'
        PROVE  /\ table \ ToSet(credentials') \subseteq {}
               /\ ToSet(credentials') \ table \subseteq Deleted
    BY <1>1, <1>2, <1>3, <1>5, <1>7 DEF ListInv, UpToAnswers
  <1>8. ASSUME ~doubt', refresh'.place = "answered", ~refresh'.passed
        PROVE  table \ refresh'.rows \subseteq {} /\ refresh'.rows \ table \subseteq Deleted
    <2>1. UpToAnswers(refresh.rows) /\ c \in refresh.rows
      BY <1>1, <1>2, <1>6, <1>8 DEF ListInv
    <2>2. QED
      BY <1>3, <1>6, <2>1 DEF UpToAnswers
  <1>9. doubt' \in BOOLEAN
    BY <1>1, <1>2 DEF ListInv
  <1>10. create' \in Creates /\ revoke' \in Revokes /\ key' \in Credentials \cup {None}
    BY <1>1, <1>2, <1>3 DEF ZcSorts, NoCreate, Creates
  <1>11. QED
    BY <1>2, <1>3, <1>5, <1>6, <1>7, <1>8, <1>9, <1>10, ListChanges

\* A revoked credential leaves the list.
LEMMA RevokeShowsKeeps ==
    ASSUME CredentialInv, NEW c \in Credentials, RevokeShows(c)
    PROVE  CredentialInv'
  <1> DEFINE older == c \in refresh.rows
  <1>1. ZcSorts /\ ListInv
    BY Sorted DEF CredentialInv
  <1>2. /\ revoke[c] = "deleted" /\ credentials' = Others(c) /\ Render
        /\ revoke' = [revoke EXCEPT ![c] = "idle"] /\ Passes(older)
        /\ UNCHANGED <<table, used>> /\ create' = create /\ key' = key
        /\ expired' = expired /\ doubt' = doubt
    BY DEF RevokeShows, rows
  <1>3. /\ credentials' \in Seq(Credentials) /\ Once(credentials')
        /\ ToSet(credentials') = ToSet(credentials) \ {c}
    BY <1>1, <1>2, OthersIs DEF ZcSorts, ListInv
  <1>4. c \in Deleted /\ c \notin table
    BY <1>1, <1>2 DEF ListInv, Deleted
  <1>5. /\ Deleted' = Deleted \ {c} /\ Made' = Made
        /\ RevokingIds' = RevokingIds \ {c} /\ revoke' \in Revokes
    BY <1>1, <1>2 DEF ZcSorts, Revokes, Deleted, Made, RevokingIds
  <1>6. /\ refresh' \in Refreshes
        /\ refresh'.place = refresh.place /\ refresh'.rows = refresh.rows
        /\ refresh.place = "answered" /\ ~refresh'.passed => ~refresh.passed /\ ~older
    <2>1. older \in BOOLEAN /\ Passes(older) /\ refresh \in Refreshes
      BY <1>1, <1>2 DEF ZcSorts
    <2> HIDE DEF older
    <2>2. QED
      BY <2>1, PassesIs
  <1>7. ASSUME ~doubt'
        PROVE  /\ table \ ToSet(credentials') \subseteq Made'
               /\ ToSet(credentials') \ table \subseteq Deleted'
    BY <1>1, <1>2, <1>3, <1>4, <1>5, <1>7 DEF ListInv, UpToAnswers
  <1>8. ASSUME ~doubt', refresh'.place = "answered", ~refresh'.passed
        PROVE  table \ refresh'.rows \subseteq Made' /\ refresh'.rows \ table \subseteq Deleted'
    <2>1. UpToAnswers(refresh.rows) /\ c \notin refresh.rows
      BY <1>1, <1>2, <1>6, <1>8 DEF ListInv
    <2>2. QED
      BY <1>5, <1>6, <2>1 DEF UpToAnswers
  <1>9. doubt' \in BOOLEAN
    BY <1>1, <1>2 DEF ListInv
  <1>10. create' \in Creates /\ key' \in Credentials \cup {None}
    BY <1>1, <1>2 DEF ZcSorts
  <1>11. QED
    BY <1>2, <1>3, <1>5, <1>6, <1>7, <1>8, <1>9, <1>10, ListChanges

\* The server reads the table.
LEMMA RefreshServedKeeps == CredentialInv /\ RefreshServed => CredentialInv'
  <1> SUFFICES ASSUME CredentialInv, RefreshServed PROVE CredentialInv'
    OBVIOUS
  <1>1. ZcSorts /\ ListInv
    BY Sorted DEF CredentialInv
  <1>2. /\ refresh' = [place |-> "answered", rows |-> table, passed |-> FALSE]
        /\ UNCHANGED <<table, used, credentials, create, revoke, key, confirming, off,
                       held, expired, doubt>>
    BY DEF RefreshServed, rows, buttons
  <1>3. refresh' \in Refreshes /\ refresh'.rows = table
    BY <1>1, <1>2 DEF ZcSorts, Refreshes
  <1>4. Made' = Made /\ Deleted' = Deleted /\ RevokingIds' = RevokingIds
    BY <1>2 DEF Made, Deleted, RevokingIds
  <1>5. ListInv'
    BY <1>1, <1>2, <1>3, <1>4 DEF ListInv, UpToAnswers
  <1>6. ZcSorts'
    BY <1>1, <1>2, <1>3 DEF ZcSorts
  <1>7. QED
    BY <1>5, <1>6, Sorted DEF CredentialInv

\* The server inserts a row under a new id.
LEMMA CreateServedKeeps == CredentialInv /\ CreateServed => CredentialInv'
  <1> SUFFICES ASSUME CredentialInv, CreateServed PROVE CredentialInv'
    OBVIOUS
  <1>1. ZcSorts /\ ListInv
    BY Sorted DEF CredentialInv
  <1>2. PICK c \in Credentials \ used :
           /\ table' = table \cup {c} /\ used' = used \cup {c}
           /\ create' = [place |-> "made", id |-> c]
    BY DEF CreateServed
  <1>3. /\ create.place = "asked"
        /\ UNCHANGED <<credentials, refresh, revoke, key, confirming, off, held, expired,
                       doubt>>
    BY DEF CreateServed, buttons
  <1>4. /\ Made = {} /\ Made' = {c} /\ Deleted' = Deleted /\ RevokingIds' = RevokingIds
        /\ create' \in Creates
    BY <1>2, <1>3 DEF Made, Deleted, RevokingIds, Creates
  <1>5. ASSUME NEW L, UpToAnswers(L)
        PROVE  table' \ L \subseteq Made' /\ L \ table' \subseteq Deleted'
    BY <1>2, <1>4, <1>5 DEF UpToAnswers
  <1>6. ListInv'
    <2>1. Deleted' \subseteq used' \ table' /\ Made' \subseteq Credentials
      BY <1>1, <1>2, <1>4 DEF ListInv
    <2>2. ~doubt => table' \ ToSet(credentials) \subseteq Made'
                    /\ ToSet(credentials) \ table' \subseteq Deleted'
      BY <1>1, <1>5 DEF ListInv
    <2>3. ~doubt /\ refresh.place = "answered" /\ ~refresh.passed
            => table' \ refresh.rows \subseteq Made' /\ refresh.rows \ table' \subseteq Deleted'
      BY <1>1, <1>5 DEF ListInv
    <2>4. QED
      BY <1>1, <1>3, <1>4, <2>1, <2>2, <2>3 DEF ListInv, UpToAnswers
  <1>7. ZcSorts'
    BY <1>1, <1>2, <1>3, <1>4 DEF ZcSorts
  <1>8. QED
    BY <1>6, <1>7, Sorted DEF CredentialInv

\* The server deletes a row.
LEMMA RevokeServedKeeps ==
    ASSUME CredentialInv, NEW c \in Credentials, RevokeServed(c)
    PROVE  CredentialInv'
  <1>1. ZcSorts /\ ListInv
    BY Sorted DEF CredentialInv
  <1>2. /\ revoke[c] = "asked" /\ c \in table /\ table' = table \ {c}
        /\ revoke' = [revoke EXCEPT ![c] = "deleted"]
        /\ UNCHANGED <<used, credentials, refresh, create, key, confirming, off, held,
                       expired, doubt>>
    BY DEF RevokeServed, buttons
  <1>3. /\ Made' = Made /\ Deleted' = Deleted \cup {c} /\ RevokingIds' = RevokingIds
        /\ revoke' \in Revokes
    BY <1>1, <1>2 DEF ZcSorts, Revokes, Made, Deleted, RevokingIds
  <1>4. ASSUME NEW L, UpToAnswers(L)
        PROVE  table' \ L \subseteq Made' /\ L \ table' \subseteq Deleted'
    BY <1>2, <1>3, <1>4 DEF UpToAnswers
  <1>5. ListInv'
    <2>1. Deleted' \subseteq used' \ table' /\ Made' \subseteq Credentials
      BY <1>1, <1>2, <1>3 DEF ListInv, ZcSorts
    <2>2. ~doubt => table' \ ToSet(credentials) \subseteq Made'
                    /\ ToSet(credentials) \ table' \subseteq Deleted'
      BY <1>1, <1>4 DEF ListInv
    <2>3. ~doubt /\ refresh.place = "answered" /\ ~refresh.passed
            => table' \ refresh.rows \subseteq Made' /\ refresh.rows \ table' \subseteq Deleted'
      BY <1>1, <1>4 DEF ListInv
    <2>4. QED
      BY <1>1, <1>2, <1>3, <2>1, <2>2, <2>3 DEF ListInv, UpToAnswers
  <1>6. ZcSorts'
    BY <1>1, <1>2, <1>3 DEF ZcSorts
  <1>7. QED
    BY <1>5, <1>6, Sorted DEF CredentialInv

\* The table changes for a reason the page does not know.
LEMMA ElsewhereKeeps == CredentialInv /\ Elsewhere => CredentialInv'
  <1> SUFFICES ASSUME CredentialInv, Elsewhere PROVE CredentialInv'
    OBVIOUS
  <1>1. ZcSorts /\ ListInv
    BY Sorted DEF CredentialInv
  <1>2. /\ doubt' = TRUE
        /\ UNCHANGED <<credentials, refresh, create, revoke, key, confirming, off, held,
                       expired>>
    BY DEF Elsewhere, buttons
  <1>3. table' \subseteq used' /\ used' \subseteq Credentials /\ used \ table \subseteq used' \ table'
    BY <1>1 DEF Elsewhere, ZcSorts
  <1>4. Made' = Made /\ Deleted' = Deleted
    BY <1>2 DEF Made, Deleted
  <1>5. ListInv'
    BY <1>1, <1>2, <1>3, <1>4 DEF ListInv
  <1>6. ZcSorts'
    BY <1>1, <1>2, <1>3 DEF ZcSorts
  <1>7. QED
    BY <1>5, <1>6, Sorted DEF CredentialInv

\* A step that neither serves a request nor shows an answer.
LEMMA QuietKeeps ==
    ASSUME CredentialInv, UNCHANGED <<table, used, credentials>>,
           refresh' \in Refreshes, create' \in Creates, revoke' \in Revokes,
           key' \in Credentials \cup {None}, confirming' \subseteq Credentials,
           off' \subseteq Credentials, held' \subseteq Credentials, expired' \in BOOLEAN,
           Deleted' \subseteq Deleted, Made' \subseteq Made,
           ~doubt' => ~doubt /\ Made' = Made /\ Deleted \subseteq Deleted',
           refresh'.place = "answered" => refresh' = refresh,
           ~doubt' /\ ~expired' => off' \subseteq RevokingIds',
           doubt' \in BOOLEAN
    PROVE  CredentialInv'
  <1>1. ZcSorts /\ ListInv
    BY Sorted DEF CredentialInv
  <1>2. ListInv'
    BY <1>1, ListKept
  <1>3. ZcSorts'
    BY <1>1 DEF ZcSorts
  <1>4. QED
    BY <1>2, <1>3, Sorted DEF CredentialInv

\* The steps of a list's request and of a creation that change no list.
LEMMA QuietRequests ==
    ASSUME CredentialInv,
           \/ RefreshStarts \/ RefreshFails \/ CreateStarts \/ CreateUnauthorized
           \/ CreateFails \/ Dismiss \/ UNCHANGED zcVars
    PROVE  CredentialInv'
  <1>1. ZcSorts /\ ListInv
    BY Sorted DEF CredentialInv
  <1>2. /\ UNCHANGED <<table, used, credentials>> /\ revoke' = revoke
        /\ confirming' = confirming /\ off' = off /\ held' = held
    BY DEF RefreshStarts, RefreshFails, CreateStarts, CreateUnauthorized, CreateFails,
           Dismiss, zcVars, rows, buttons
  <1>3. /\ refresh' \in Refreshes /\ (refresh'.place = "answered" => refresh' = refresh)
        /\ expired' \in BOOLEAN /\ (~expired' => ~expired)
    <2>1. CASE RefreshStarts
      BY <1>1, <2>1 DEF RefreshStarts, NoRefresh, ZcSorts, Refreshes
    <2>2. CASE RefreshFails
      BY <1>1, <2>2 DEF RefreshFails, NoRefresh, ZcSorts, Refreshes
    <2>3. CASE CreateStarts \/ CreateUnauthorized \/ Dismiss \/ UNCHANGED zcVars
      BY <1>1, <2>3 DEF CreateStarts, CreateUnauthorized, Dismiss, zcVars, ZcSorts
    <2>4. CASE CreateFails
      BY <1>1, <2>4 DEF CreateFails, ZcSorts
    <2>5. QED
      BY <2>1, <2>2, <2>3, <2>4
  <1>4. /\ create' \in Creates /\ Made' \subseteq Made
        /\ doubt' \in BOOLEAN /\ (~doubt' => ~doubt /\ Made' = Made)
    <2>1. CASE RefreshStarts \/ RefreshFails \/ Dismiss \/ UNCHANGED zcVars
      BY <1>1, <2>1 DEF RefreshStarts, RefreshFails, Dismiss, zcVars, ZcSorts, ListInv,
                        Made
    <2>2. CASE CreateStarts
      BY <1>1, <2>2 DEF CreateStarts, NoCreate, ZcSorts, Creates, ListInv, Made
    <2>3. CASE CreateUnauthorized
      <3>1. /\ create' = [create EXCEPT !.place = "checking"] /\ create.place = "asked"
            /\ doubt' = doubt
        BY <2>3 DEF CreateUnauthorized
      <3>2. create' \in Creates /\ create'.place = "checking"
        BY <1>1, <3>1 DEF ZcSorts, Creates
      <3>3. Made = {} /\ Made' = {}
        BY <3>1, <3>2 DEF Made
      <3>4. QED
        BY <1>1, <3>1, <3>2, <3>3 DEF ListInv
    <2>4. CASE CreateFails
      <3>1. create' = NoCreate /\ doubt' = (doubt \/ create.place = "made")
        BY <2>4 DEF CreateFails
      <3>2. create' \in Creates /\ Made' = {} /\ (create.place # "made" => Made = {})
        BY <3>1 DEF NoCreate, Creates, Made
      <3>3. doubt' \in BOOLEAN /\ (~doubt' => ~doubt /\ create.place # "made")
        BY <3>1
      <3>4. QED
        BY <3>2, <3>3
    <2>5. QED
      BY <2>1, <2>2, <2>3, <2>4
  <1>5. key' \in Credentials \cup {None}
    BY <1>1 DEF RefreshStarts, RefreshFails, CreateStarts, CreateUnauthorized, CreateFails,
                Dismiss, zcVars, ZcSorts
  <1>6. Deleted' = Deleted /\ RevokingIds' = RevokingIds
    BY <1>2 DEF Deleted, RevokingIds
  <1>7. ~doubt' /\ ~expired' => off' \subseteq RevokingIds'
    BY <1>1, <1>2, <1>3, <1>4, <1>6 DEF ListInv
  <1>8. /\ revoke' \in Revokes /\ confirming' \subseteq Credentials
        /\ off' \subseteq Credentials /\ held' \subseteq Credentials
    BY <1>1, <1>2 DEF ZcSorts
  <1>9. QED
    BY <1>2, <1>3, <1>4, <1>5, <1>6, <1>7, <1>8, QuietKeeps

\* The steps of a revocation that change neither the table nor the list.
LEMMA QuietRevocations ==
    ASSUME CredentialInv, NEW c \in Credentials,
           \/ RevokeAsks(c) \/ ConfirmLapses(c) \/ RevokeStarts(c) \/ RevokeFails(c)
           \/ RevokeUnauthorized(c)
    PROVE  CredentialInv'
  <1>1. ZcSorts /\ ListInv
    BY Sorted DEF CredentialInv
  <1>2. /\ UNCHANGED <<table, used, credentials>>
        /\ refresh' = refresh /\ create' = create /\ key' = key
    BY DEF RevokeAsks, ConfirmLapses, RevokeStarts, RevokeFails, RevokeUnauthorized, rows
  <1>3. /\ confirming' \subseteq Credentials /\ off' \subseteq Credentials
        /\ held' \subseteq Credentials
    BY <1>1 DEF RevokeAsks, ConfirmLapses, RevokeStarts, RevokeFails, RevokeUnauthorized,
                EnableButton, buttons, ZcSorts
  <1>4. expired' \in BOOLEAN
    BY <1>1 DEF RevokeAsks, ConfirmLapses, RevokeStarts, RevokeFails, RevokeUnauthorized,
                ZcSorts
  <1>5. /\ revoke' \in Revokes /\ Deleted' \subseteq Deleted
        /\ doubt' \in BOOLEAN /\ (~doubt' => ~doubt /\ Deleted \subseteq Deleted')
        /\ ~doubt' /\ ~expired' => off' \subseteq RevokingIds'
    <2>1. CASE RevokeAsks(c) \/ ConfirmLapses(c)
      BY <1>1, <2>1 DEF RevokeAsks, ConfirmLapses, ZcSorts, ListInv, Deleted, RevokingIds
    <2>2. CASE RevokeStarts(c)
      <3>1. /\ revoke[c] = "idle" /\ revoke' = [revoke EXCEPT ![c] = "asked"]
            /\ off' = off \cup {c} /\ doubt' = doubt /\ expired' = expired
        BY <2>2 DEF RevokeStarts, Clickable
      <3>2. revoke' \in Revokes /\ Deleted' = Deleted /\ RevokingIds' = RevokingIds \cup {c}
        BY <1>1, <3>1 DEF ZcSorts, Revokes, Deleted, RevokingIds
      <3>3. QED
        BY <1>1, <3>1, <3>2 DEF ListInv
    <2>3. CASE RevokeFails(c)
      <3>1. /\ revoke' = [revoke EXCEPT ![c] = "idle"] /\ EnableButton(c)
            /\ doubt' = (doubt \/ revoke[c] = "deleted" \/ c \notin held)
            /\ expired' = expired
        BY <2>3 DEF RevokeFails
      <3>2. /\ revoke' \in Revokes /\ Deleted' = Deleted \ {c}
            /\ RevokingIds' = RevokingIds \ {c}
        BY <1>1, <3>1 DEF ZcSorts, Revokes, Deleted, RevokingIds
      <3>3. doubt' \in BOOLEAN /\ (~doubt' => ~doubt /\ revoke[c] # "deleted" /\ c \in held)
        BY <3>1
      <3>4. revoke[c] # "deleted" => c \notin Deleted
        BY DEF Deleted
      <3>5. c \in held => off' = off \ {c}
        BY <3>1 DEF EnableButton
      <3>6. QED
        BY <1>1, <3>1, <3>2, <3>3, <3>4, <3>5 DEF ListInv
    <2>4. CASE RevokeUnauthorized(c)
      <3>1. /\ revoke[c] = "asked" /\ revoke' = [revoke EXCEPT ![c] = "idle"]
            /\ doubt' = doubt /\ expired' = TRUE
        BY <2>4 DEF RevokeUnauthorized
      <3>2. revoke' \in Revokes /\ Deleted' = Deleted
        BY <1>1, <3>1 DEF ZcSorts, Revokes, Deleted
      <3>3. QED
        BY <1>1, <3>1, <3>2 DEF ListInv
    <2>5. QED
      BY <2>1, <2>2, <2>3, <2>4
  <1>6. Made' = Made
    BY <1>2 DEF Made
  <1>7. refresh' \in Refreshes /\ create' \in Creates /\ key' \in Credentials \cup {None}
    BY <1>1, <1>2 DEF ZcSorts
  <1>8. QED
    BY <1>2, <1>3, <1>4, <1>5, <1>6, <1>7, QuietKeeps

\* Every step of the page and the server keeps the invariant.
LEMMA CredentialStep == CredentialInv /\ [ZcNext]_zcVars => CredentialInv'
  <1> SUFFICES ASSUME CredentialInv, [ZcNext]_zcVars PROVE CredentialInv'
    OBVIOUS
  <1>1. CASE RefreshServed \/ RefreshApplies \/ CreateServed \/ CreateShows \/ Elsewhere
    BY <1>1, RefreshServedKeeps, AppliesKeeps, CreateServedKeeps, CreateShowsKeeps,
       ElsewhereKeeps
  <1>2. CASE \/ RefreshStarts \/ RefreshFails \/ CreateStarts \/ CreateUnauthorized
             \/ CreateFails \/ Dismiss \/ UNCHANGED zcVars
    BY <1>2, QuietRequests
  <1>3. ASSUME NEW c \in Credentials,
               \/ RevokeAsks(c) \/ ConfirmLapses(c) \/ RevokeStarts(c)
               \/ RevokeServed(c) \/ RevokeShows(c) \/ RevokeFails(c)
               \/ RevokeUnauthorized(c)
        PROVE  CredentialInv'
    BY <1>3, RevokeServedKeeps, RevokeShowsKeeps, QuietRevocations
  <1>4. CASE Left
    BY <1>2, <1>4 DEF Left
  <1>5. QED
    BY <1>1, <1>2, <1>3, <1>4 DEF ZcNext

\* The credential page's invariant.
LEMMA CredentialInvariant == ZcSpec => []CredentialInv
  BY CredentialsStart, CredentialStep, PTL DEF ZcSpec

\* The credential page's variables have their types.
THEOREM CredentialTypeCorrect == ZcSpec => []ZcTypeOK
  <1>1. CredentialInv => ZcTypeOK
    BY DEF CredentialInv
  <1>2. QED
    BY <1>1, CredentialInvariant, PTL

\* For any number of credentials and any overlap of refreshes, creations and
\* revocations: once they are answered, and unless one of the cases that
\* `doubt' names has come, the page lists each row of api_tokens once, and none
\* of its buttons is stuck.
THEOREM ListsAreCurrent == ZcSpec => []ListIsCurrent
  <1>1. CredentialInv => ListIsCurrent
    <2> SUFFICES ASSUME CredentialInv, Settled, ~expired, ~doubt
                 PROVE  /\ ToSet(credentials) = table
                        /\ Len(credentials) = Len(SetToSeq(table))
                        /\ off = {}
      BY DEF ListIsCurrent
    <2>1. ZcSorts /\ ListInv
      BY Sorted DEF CredentialInv
    <2>2. Made = {} /\ Deleted = {} /\ RevokingIds = {}
      BY DEF Settled, Made, Deleted, RevokingIds
    <2>3. UpToAnswers(ToSet(credentials)) /\ off \subseteq RevokingIds
      BY <2>1 DEF ListInv
    <2>4. ToSet(credentials) = table /\ off = {}
      BY <2>2, <2>3 DEF UpToAnswers
    <2>5. Len(credentials) = Cardinality(table)
      BY <2>1, <2>4, OnceCounts DEF ZcSorts, ListInv
    <2>6. Len(SetToSeq(table)) = Cardinality(table)
      BY <2>1, Listed DEF ZcSorts
    <2>7. QED
      BY <2>4, <2>5, <2>6
  <1>2. QED
    BY <1>1, CredentialInvariant, PTL

=============================================================================
