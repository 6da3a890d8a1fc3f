-------------------------- MODULE AlgorithmProofs ---------------------------
(***************************************************************************)
(* What is proved of the algorithms over data: the context that fits a     *)
(* model's window (module ContextWindow), the chunks a document is split   *)
(* into (Chunker) and the packages that an image is built from (Packages), *)
(* for every history of messages, every document and every file of         *)
(* packages, all budgets and all sizes.                                    *)
(***************************************************************************)
EXTENDS ContextWindow, Chunker, Packages, FoldingProofs, FiniteSetTheorems

----------------------------------------------------------------------------
(* THE CONTEXT OF A MODEL (module ContextWindow).                          *)

----------------------------------------------------------------------------
(* Sums and selections of messages.                                        *)

\* Tokens are numbers, and at most 1.3 to a word with half a one for rounding.
LEMMA TokensFacts ==
    /\ \A w \in Nat : EstimateTokens(w) \in Nat /\ 10 * EstimateTokens(w) <= 13 * w + 5
    /\ \A m \in Message : MessageTokens(m) \in Nat
<1>1. ASSUME NEW w \in Nat PROVE EstimateTokens(w) \in Nat /\ 10 * EstimateTokens(w) <= 13 * w + 5
  <2> DEFINE n == 13 * w
             q == n \div 10
             r == n % 10
  <2>1. n \in Nat /\ q \in Nat /\ r \in 0 .. 9 /\ n = 10 * q + r
    OBVIOUS
  <2>2. EstimateTokens(w) = IF r > 5 \/ (r = 5 /\ q % 2 = 1) THEN q + 1 ELSE q
    BY DEF EstimateTokens, Rounded
  <2> HIDE DEF n, q, r
  <2>3. EstimateTokens(w) \in Nat /\ 10 * EstimateTokens(w) <= n + 5
    BY <2>1, <2>2
  <2> QED
    BY <2>3 DEF n
<1>2. ASSUME NEW m \in Message PROVE MessageTokens(m) \in Nat
  <2>1. m.words \in Nat
    BY DEF Message
  <2>2. EstimateTokens(m.words) \in Nat
    BY <1>1, <2>1
  <2> QED
    BY <2>2 DEF MessageTokens
<1> QED
  BY <1>1, <1>2

\* The tokens of messages are the sum of theirs.
LEMMA CountAppend ==
    /\ CountTokens(<<>>) = 0
    /\ \A ms \in Seq(Message) : CountTokens(ms) \in Nat
    /\ \A ms \in Seq(Message), m \in Message :
          CountTokens(Append(ms, m)) = CountTokens(ms) + MessageTokens(m)
    /\ \A ms, ns \in Seq(Message) : CountTokens(ms \o ns) = CountTokens(ms) + CountTokens(ns)
<1> DEFINE w == [m \in Message |-> MessageTokens(m)]
<1>1. w \in [Message -> Nat] /\ \A m \in Message : w[m] = MessageTokens(m)
  BY TokensFacts
<1>2. \A ms : CountTokens(ms) = Total(w, ms)
  BY DEF CountTokens
<1> HIDE DEF w
<1>3. Sums(w, Message)
  BY <1>1, TotalFacts
<1> QED
  BY <1>1, <1>2, <1>3 DEF Sums

\* The messages of some roles, message by message.
LEMMA ThoseAppend ==
    ASSUME NEW R
    PROVE  /\ Those(<<>>, R) = <<>>
           /\ \A ms \in Seq(Message) : Those(ms, R) \in Seq(Message)
           /\ \A ms \in Seq(Message), m \in Message :
                 Those(Append(ms, m), R) =
                     IF m.role \in R THEN Append(Those(ms, R), m) ELSE Those(ms, R)
           /\ \A ms, ns \in Seq(Message) : Those(ms \o ns, R) = Those(ms, R) \o Those(ns, R)
<1> DEFINE S == {m \in Message : m.role \in R}
<1>1. \A m \in Message : m \in S <=> m.role \in R
  OBVIOUS
<1>2. \A ms : Those(ms, R) = Kept(ms, Message, S)
  BY DEF Those
<1> HIDE DEF S
<1>3. Selects(Message, S)
  BY KeptFacts
<1>4. /\ Those(<<>>, R) = <<>>
      /\ \A ms \in Seq(Message) : Those(ms, R) \in Seq(Message)
  BY <1>2, <1>3 DEF Selects
<1>6. \A ms, ns \in Seq(Message) : Those(ms \o ns, R) = Those(ms, R) \o Those(ns, R)
  <2>1. \A ms, ns \in Seq(Message) :
            Kept(ms \o ns, Message, S) = Kept(ms, Message, S) \o Kept(ns, Message, S)
    BY <1>3 DEF Selects
  <2> QED
    BY <1>2, <2>1
<1>5. \A ms \in Seq(Message), m \in Message :
          Those(Append(ms, m), R) = IF m \in S THEN Append(Those(ms, R), m) ELSE Those(ms, R)
  BY <1>2, <1>3 DEF Selects
<1> QED
  BY <1>1, <1>4, <1>5, <1>6, Zenon

\* All of them, or none; and what is left does not depend on roles nobody has.
LEMMA ThoseAll ==
    ASSUME NEW R, NEW ms \in Seq(Message)
    PROVE  /\ (\A i \in DOMAIN ms : ms[i].role \in R) => Those(ms, R) = ms
           /\ (\A i \in DOMAIN ms : ms[i].role \notin R) => Those(ms, R) = <<>>
           /\ \A i \in DOMAIN Those(ms, R) : Those(ms, R)[i].role \in R
<1> DEFINE S == {m \in Message : m.role \in R}
<1>1. \A m \in Message : m \in S <=> m.role \in R
  OBVIOUS
<1>2. Those(ms, R) = Kept(ms, Message, S)
  BY DEF Those
<1> HIDE DEF S
<1>3. Selects(Message, S)
  BY KeptFacts
<1>4. /\ Range(ms) \subseteq S => Those(ms, R) = ms
      /\ Range(ms) \cap S = {} => Those(ms, R) = <<>>
      /\ Range(Those(ms, R)) \subseteq S
  BY <1>2, <1>3 DEF Selects
<1>5. S \subseteq Message /\ Range(ms) \subseteq Message
  BY RangeFacts DEF S
<1>6. ASSUME \A i \in DOMAIN ms : ms[i].role \in R PROVE Range(ms) \subseteq S
  BY <1>1, <1>5, <1>6 DEF Range
<1>7. ASSUME \A i \in DOMAIN ms : ms[i].role \notin R PROVE Range(ms) \cap S = {}
  BY <1>1, <1>5, <1>7 DEF Range
<1>8. ASSUME NEW i \in DOMAIN Those(ms, R) PROVE Those(ms, R)[i].role \in R
  <2>1. Those(ms, R)[i] \in S
    BY <1>4 DEF Range
  <2> QED
    BY <1>1, <1>5, <2>1
<1> QED
  BY <1>4, <1>6, <1>7, <1>8

\* Selecting by roles that agree on the messages gives the same.
LEMMA ThoseSame ==
    ASSUME NEW R, NEW Q, NEW ms \in Seq(Message),
           \A i \in DOMAIN ms : ms[i].role \in R <=> ms[i].role \in Q
    PROVE  Those(ms, R) = Those(ms, Q)
<1> DEFINE S == {m \in Message : m.role \in R}
           T == {m \in Message : m.role \in Q}
<1>1. \A m \in Range(ms) : m \in S <=> m \in T
  BY DEF Range
<1>2. Range(ms) \cap S = Range(ms) \cap T
  BY <1>1
<1>3. Those(ms, R) = Kept(ms, Message, S) /\ Those(ms, Q) = Kept(ms, Message, T)
  BY DEF Those
<1> HIDE DEF S, T
<1> QED
  BY <1>2, <1>3, KeptSame

\* The system messages and the others have all the tokens.
LEMMA CountSplits ==
    \A ms \in Seq(Message) :
        CountTokens(ms) = CountTokens(System(ms)) + CountTokens(Spoken(ms))
<1> DEFINE S == {ms \in Seq(Message) :
                     CountTokens(ms) = CountTokens(System(ms)) + CountTokens(Spoken(ms))}
<1>1. <<>> \in S
  <2>1. System(<<>>) = <<>> /\ Spoken(<<>>) = <<>> /\ <<>> \in Seq(Message)
    BY ThoseAppend DEF System, Spoken
  <2> QED
    BY <2>1, CountAppend
<1>2. ASSUME NEW t \in Seq(Message), NEW m \in Message, t \in S PROVE Append(t, m) \in S
  <2>1. m.role \in {"system", "user", "summary"} /\ Append(t, m) \in Seq(Message)
    BY DEF Message
  <2>2. System(t) \in Seq(Message) /\ Spoken(t) \in Seq(Message)
    BY ThoseAppend DEF System, Spoken
  <2>3. /\ System(Append(t, m)) = IF m.role = "system" THEN Append(System(t), m) ELSE System(t)
        /\ Spoken(Append(t, m)) = IF m.role = "system" THEN Spoken(t) ELSE Append(Spoken(t), m)
    <3>1. m.role \in {"system"} <=> m.role = "system"
      OBVIOUS
    <3>2. m.role \in {"user", "summary"} <=> ~(m.role = "system")
      BY <2>1
    <3>3. /\ Those(Append(t, m), {"system"}) =
                IF m.role \in {"system"} THEN Append(Those(t, {"system"}), m) ELSE Those(t, {"system"})
          /\ Those(Append(t, m), {"user", "summary"}) =
                IF m.role \in {"user", "summary"} THEN Append(Those(t, {"user", "summary"}), m)
                ELSE Those(t, {"user", "summary"})
      BY ThoseAppend
    <3> QED
      BY <3>1, <3>2, <3>3 DEF System, Spoken
  <2>4. MessageTokens(m) \in Nat /\ CountTokens(System(t)) \in Nat /\ CountTokens(Spoken(t)) \in Nat
    BY <2>2, TokensFacts, CountAppend
  <2>5. /\ CountTokens(Append(t, m)) = CountTokens(t) + MessageTokens(m)
        /\ CountTokens(Append(System(t), m)) = CountTokens(System(t)) + MessageTokens(m)
        /\ CountTokens(Append(Spoken(t), m)) = CountTokens(Spoken(t)) + MessageTokens(m)
    BY <2>2, CountAppend
  <2>6. CountTokens(t) = CountTokens(System(t)) + CountTokens(Spoken(t))
    BY <1>2
  <2> DEFINE u == Append(t, m)
  <2>7. CountTokens(u) = CountTokens(System(u)) + CountTokens(Spoken(u))
    BY <2>3, <2>4, <2>5, <2>6
  <2> HIDE DEF u
  <2>8. u \in S
    BY <2>1, <2>7 DEF u
  <2> QED
    BY <2>8 DEF u
<1> HIDE DEF S
<1>3. Seq(Message) \subseteq S
  BY <1>1, <1>2, SeqInduction
<1> QED
  BY <1>3 DEF S

----------------------------------------------------------------------------
(* Suffixes.                                                               *)

\* The suffixes of a sequence and their elements.
LEMMA SuffixesAre ==
    ASSUME NEW A, NEW s \in Seq(A)
    PROVE  /\ Suffixes(s) = {SubSeq(s, n + 1, Len(s)) : n \in 0 .. Len(s)}
           /\ \A n \in 0 .. Len(s) : LET t == SubSeq(s, n + 1, Len(s)) IN
                /\ t \in Seq(A) /\ Len(t) = Len(s) - n
                /\ \A i \in 1 .. Len(s) - n : t[i] = s[n + i]
                /\ Len(t) = 0 => t = <<>>
<1> DEFINE L == Len(s)
           T(n) == SubSeq(s, n + 1, L)
<1>1. \A n \in 0 .. L : /\ T(n) \in Seq(A) /\ Len(T(n)) = L - n
                        /\ \A i \in 1 .. L - n : T(n)[i] = s[n + i]
                        /\ Len(T(n)) = 0 => T(n) = <<>>
  OBVIOUS
<1>2. L \in Nat
  OBVIOUS
<1>3. T(L) = <<>>
  BY <1>1, <1>2
<1>4. Suffixes(s) = {SubSeq(s, l, L) : l \in 1 .. L} \cup {<<>>}
  BY DEF Suffixes
<1>5. Suffixes(s) \subseteq {T(n) : n \in 0 .. L}
  <2>1. ASSUME NEW l \in 1 .. L PROVE SubSeq(s, l, L) \in {T(n) : n \in 0 .. L}
    <3>1. l - 1 \in 0 .. L /\ l - 1 + 1 = l
      BY <1>2
    <3>2. SubSeq(s, l, L) = T(l - 1)
      BY <3>1
    <3> QED
      BY <3>1, <3>2
  <2>2. <<>> \in {T(n) : n \in 0 .. L}
    BY <1>2, <1>3
  <2> QED
    BY <1>4, <2>1, <2>2
<1>6. ASSUME NEW n \in 0 .. L PROVE T(n) \in Suffixes(s)
  <2>1. CASE n = L
    BY <1>3, <1>4, <2>1
  <2>2. CASE n # L
    <3>1. n + 1 \in 1 .. L
      BY <1>2, <2>2
    <3> QED
      BY <1>4, <3>1
  <2> QED
    BY <2>1, <2>2
<1> QED
  BY <1>1, <1>5, <1>6

\* A suffix of a suffix is one.
LEMMA SuffixOfSuffix ==
    ASSUME NEW A, NEW s \in Seq(A), NEW n \in 0 .. Len(s)
    PROVE  Suffixes(SubSeq(s, n + 1, Len(s))) \subseteq Suffixes(s)
<1> DEFINE u == SubSeq(s, n + 1, Len(s))
<1>1. /\ u \in Seq(A) /\ Len(u) = Len(s) - n /\ Len(s) \in Nat
      /\ \A i \in 1 .. Len(s) - n : u[i] = s[n + i]
  BY SuffixesAre
<1> HIDE DEF u
<1>2. ASSUME NEW m \in 0 .. Len(u) PROVE SubSeq(u, m + 1, Len(u)) \in Suffixes(s)
  <2> DEFINE k == n + m
             t == SubSeq(u, m + 1, Len(u))
  <2>1. k \in 0 .. Len(s)
    BY <1>1
  <2> HIDE DEF k
  <2> DEFINE v == SubSeq(s, k + 1, Len(s))
  <2>2. /\ t \in Seq(A) /\ Len(t) = Len(u) - m
        /\ \A i \in 1 .. Len(u) - m : t[i] = u[m + i]
    BY <1>1, SuffixesAre
  <2>3. /\ v \in Seq(A) /\ Len(v) = Len(s) - k
        /\ \A i \in 1 .. Len(s) - k : v[i] = s[k + i]
        /\ v \in Suffixes(s)
    <3>1. Suffixes(s) = {SubSeq(s, i + 1, Len(s)) : i \in 0 .. Len(s)}
      BY SuffixesAre
    <3>2. v \in Suffixes(s)
      BY <2>1, <3>1
    <3>3. /\ v \in Seq(A) /\ Len(v) = Len(s) - k
          /\ \A i \in 1 .. Len(s) - k : v[i] = s[k + i]
      BY <2>1, SuffixesAre, Zenon
    <3> QED
      BY <3>2, <3>3
  <2> HIDE DEF t, v
  <2>4. Len(t) = Len(v) /\ \A i \in 1 .. Len(t) : t[i] = v[i]
    <3>1. Len(u) - m = Len(s) - k
      BY <1>1 DEF k
    <3>2. ASSUME NEW i \in 1 .. Len(t) PROVE t[i] = v[i]
      <4>1. i \in 1 .. Len(u) - m /\ i \in 1 .. Len(s) - k /\ m + i \in 1 .. Len(s) - n /\ n + (m + i) = k + i
        BY <1>1, <2>2, <3>1 DEF k
      <4> QED
        BY <1>1, <2>2, <2>3, <4>1
    <3> QED
      BY <2>2, <2>3, <3>1, <3>2
  <2>5. t = v
    BY <2>2, <2>3, <2>4
  <2> QED
    BY <2>3, <2>5 DEF t
<1>3. Suffixes(u) = {SubSeq(u, m + 1, Len(u)) : m \in 0 .. Len(u)}
  BY <1>1, SuffixesAre
<1> QED
  BY <1>2, <1>3 DEF u

\* The messages that are kept are the longest suffix that fits.
LEMMA TrimmedFacts ==
    ASSUME NEW s \in Seq(Message), NEW room \in Int
    PROVE  /\ Trimmed(s, room) \in Suffixes(s)
           /\ CountTokens(Trimmed(s, room)) <= room \/ Trimmed(s, room) = <<>>
<1> DEFINE L == Len(s)
           T(n) == SubSeq(s, n + 1, L)
           Fits(t) == CountTokens(t) <= room \/ t = <<>>
           N == {n \in 0 .. L : Fits(T(n))}
           Longest(t) == Fits(t) /\ \A u \in Suffixes(s) : Len(u) > Len(t) => CountTokens(u) > room
<1>1. /\ L \in Nat /\ Suffixes(s) = {T(n) : n \in 0 .. L}
      /\ \A n \in 0 .. L : T(n) \in Seq(Message) /\ Len(T(n)) = L - n /\ (Len(T(n)) = 0 => T(n) = <<>>)
  BY SuffixesAre
<1> HIDE DEF L, T
<1>2. N # {} /\ N \in SUBSET Nat
  <2>1. L \in 0 .. L /\ Len(T(L)) = 0
    BY <1>1
  <2>2. T(L) = <<>>
    BY <1>1, <2>1
  <2>3. L \in N
    BY <2>1, <2>2
  <2>4. \A n \in N : n \in 0 .. L
    OBVIOUS
  <2> HIDE DEF N
  <2> QED
    BY <1>1, <2>3, <2>4
<1> HIDE DEF N
<1>3. PICK n \in N : \A m \in N : n <= m
  BY <1>2, LeastNumber
<1>4. n \in 0 .. L /\ Fits(T(n))
  BY DEF N
<1>5. ASSUME NEW u \in Suffixes(s), Len(u) > Len(T(n)) PROVE CountTokens(u) > room
  <2>1. PICK m \in 0 .. L : u = T(m)
    BY <1>1
  <2>2. m < n /\ m \notin N
    BY <1>1, <1>3, <1>4, <1>5, <2>1
  <2>3. ~(CountTokens(u) <= room) /\ u \in Seq(Message)
    BY <1>1, <2>1, <2>2 DEF N
  <2>4. CountTokens(u) \in Nat
    BY <2>3, CountAppend
  <2> QED
    BY <2>3, <2>4
<1>6. T(n) \in Suffixes(s) /\ Longest(T(n))
  BY <1>1, <1>4, <1>5
<1>7. Trimmed(s, room) = CHOOSE t \in Suffixes(s) : Longest(t)
  BY DEF Trimmed
<1> HIDE DEF Longest
<1>8. Trimmed(s, room) \in Suffixes(s) /\ Longest(Trimmed(s, room))
  BY <1>6, <1>7
<1> QED
  BY <1>8 DEF Longest

----------------------------------------------------------------------------
(* Numbers.                                                                *)

\* Even the longest summary fits.
LEMMA SummaryLimitFits ==
    ASSUME NEW room \in Nat, room >= 5, NEW w \in Nat, w <= SummaryLimit(room)
    PROVE  EstimateTokens(w) + 4 <= room
<1> DEFINE k == AtMost(Reserve, room \div 3)
           d == (10 * k) \div 13
<1>1. Reserve \in Nat
  BY ContextAssumption
<1>2. room \div 3 \in Nat /\ room \div 3 <= room
  OBVIOUS
<1>3. k \in Nat /\ k <= room
  BY <1>1, <1>2 DEF AtMost
<1>4. SummaryLimit(room) = IF 1 > d - 4 THEN 1 ELSE d - 4
  BY DEF SummaryLimit, AtLeast
<1> HIDE DEF k
<1>5. d \in Nat /\ 13 * d <= 10 * k
  BY <1>3
<1> HIDE DEF d
<1>6. EstimateTokens(w) \in Nat /\ 10 * EstimateTokens(w) <= 13 * w + 5
  BY TokensFacts
<1> DEFINE e == EstimateTokens(w)
<1> HIDE DEF e
<1>7. e \in Nat /\ 10 * e <= 13 * w + 5
  BY <1>6 DEF e
<1>8. CASE 1 > d - 4
  BY <1>4, <1>5, <1>7, <1>8 DEF e
<1>9. CASE ~(1 > d - 4)
  <2>1. w <= d - 4
    BY <1>4, <1>9
  <2>2. 10 * e <= 10 * k - 47
    BY <1>3, <1>5, <1>7, <2>1
  <2>3. e + 4 <= room
    BY <1>3, <1>7, <2>2
  <2> QED
    BY <2>3 DEF e
<1> QED
  BY <1>8, <1>9

\* The shortest summary has five tokens.
LEMMA LeastSummaryIs == LeastSummary = 5
<1>1. 13 * 1 = 13 /\ 13 \div 10 = 1 /\ 13 % 10 = 3
  OBVIOUS
<1>2. EstimateTokens(1) = 1
  BY <1>1 DEF EstimateTokens, Rounded
<1> QED
  BY <1>2 DEF LeastSummary, MessageTokens

\* A summary has some number of words.
LEMMA SummaryWordsNat == \A ms \in Seq(Message) : SummaryWords(ms) \in Nat
<1> DEFINE w == [m \in Message |-> 1 + m.words]
<1>1. w \in [Message -> Nat]
  BY DEF Message
<1>2. \A ms : SummaryWords(ms) = 2 + Total(w, ms)
  BY DEF SummaryWords
<1> HIDE DEF w
<1>3. Sums(w, Message)
  BY <1>1, TotalFacts
<1> QED
  BY <1>2, <1>3 DEF Sums

\* One message has its own tokens.
LEMMA CountOne ==
    ASSUME NEW m \in Message
    PROVE  CountTokens(<<m>>) = MessageTokens(m)
<1>1. <<m>> = Append(<<>>, m) /\ <<>> \in Seq(Message)
  OBVIOUS
<1>2. CountTokens(Append(<<>>, m)) = CountTokens(<<>>) + MessageTokens(m) /\ CountTokens(<<>>) = 0
  BY <1>1, CountAppend
<1>3. MessageTokens(m) \in Nat
  BY TokensFacts
<1> QED
  BY <1>1, <1>2, <1>3

\* A summary is one message or none.
LEMMA SummaryFacts ==
    ASSUME NEW ms \in Seq(Message), NEW room \in Nat
    PROVE  /\ Summary(ms, room) \in Seq(Message)
           /\ \A i \in DOMAIN Summary(ms, room) : Summary(ms, room)[i].role = "summary"
           /\ room >= 5 => CountTokens(Summary(ms, room)) <= room
<1> DEFINE older == SubSeq(ms, 1, Split(ms))
           w == AtMost(SummaryWords(older), SummaryLimit(room))
           m == [role |-> "summary", words |-> w]
<1>1. Split(ms) \in 0 .. Len(ms)
  <2>1. Len(ms) \in Nat /\ RecentTurns \in Nat
    BY ContextAssumption
  <2> QED
    BY <2>1 DEF Split, AtLeast
<1>2. older \in Seq(Message)
  BY <1>1
<1>3. Summary(ms, room) = IF older = <<>> THEN <<>> ELSE <<m>>
  BY DEF Summary
<1> HIDE DEF older
<1>4. SummaryLimit(room) \in Nat
  <2> DEFINE k == AtMost(Reserve, room \div 3)
             d == (10 * k) \div 13
  <2>1. Reserve \in Nat /\ room \div 3 \in Nat
    BY ContextAssumption
  <2>2. k \in Nat
    BY <2>1 DEF AtMost
  <2> HIDE DEF k
  <2>3. d \in Nat
    BY <2>2
  <2> HIDE DEF d
  <2>4. SummaryLimit(room) = IF 1 > d - 4 THEN 1 ELSE d - 4
    BY DEF SummaryLimit, AtLeast, d, k
  <2> QED
    BY <2>3, <2>4
<1>5. SummaryWords(older) \in Nat
  BY <1>2, SummaryWordsNat
<1>6. w \in Nat /\ w <= SummaryLimit(room)
  BY <1>4, <1>5 DEF AtMost
<1> HIDE DEF w
<1>7. m \in Message /\ m.words = w /\ m.role = "summary"
  BY <1>6 DEF Message
<1> HIDE DEF m
<1>8. ASSUME room >= 5 PROVE CountTokens(Summary(ms, room)) <= room
  <2>1. CountTokens(<<m>>) = EstimateTokens(w) + 4
    BY <1>7, CountOne DEF MessageTokens
  <2>2. EstimateTokens(w) + 4 <= room
    BY <1>6, <1>8, SummaryLimitFits
  <2>3. CountTokens(<<>>) = 0
    BY CountAppend
  <2> QED
    BY <1>3, <1>8, <2>1, <2>2, <2>3
<1> QED
  BY <1>3, <1>7, <1>8

\* What is kept beside the system messages: a summary and the latest messages.
LEMMA CompactFacts ==
    ASSUME NEW ms \in Seq(Message), NEW room \in Nat
    PROVE  \E sum, kept \in Seq(Message) :
              /\ Compact(ms, room) = sum \o kept
              /\ \A i \in DOMAIN sum : sum[i].role = "summary"
              /\ kept \in Suffixes(ms)
              /\ room >= 5 => CountTokens(sum \o kept) <= room
<1> DEFINE sum == Summary(ms, room)
           r == Recent(ms)
           left == room - CountTokens(sum)
           kept == Trimmed(r, left)
<1>1. /\ sum \in Seq(Message) /\ \A i \in DOMAIN sum : sum[i].role = "summary"
      /\ room >= 5 => CountTokens(sum) <= room
  BY SummaryFacts
<1>2. Split(ms) \in 0 .. Len(ms)
  <2>1. Len(ms) \in Nat /\ RecentTurns \in Nat
    BY ContextAssumption
  <2> QED
    BY <2>1 DEF Split, AtLeast
<1>3. r \in Seq(Message) /\ Suffixes(r) \subseteq Suffixes(ms)
  BY <1>2, SuffixesAre, SuffixOfSuffix, Zenon DEF Recent
<1> HIDE DEF sum, r
<1>4. CountTokens(sum) \in Nat /\ left \in Int
  <2>1. CountTokens(sum) \in Nat
    BY <1>1, CountAppend
  <2> QED
    BY <2>1
<1>5. Compact(ms, room) = sum \o kept
  BY DEF Compact, sum, r
<1> HIDE DEF left
<1>6. kept \in Suffixes(r) /\ (CountTokens(kept) <= left \/ kept = <<>>)
  BY <1>3, <1>4, TrimmedFacts
<1>7. kept \in Seq(Message)
  <2>1. /\ Suffixes(r) = {SubSeq(r, n + 1, Len(r)) : n \in 0 .. Len(r)}
        /\ \A n \in 0 .. Len(r) : SubSeq(r, n + 1, Len(r)) \in Seq(Message)
    BY <1>3, SuffixesAre, Zenon
  <2> QED
    BY <1>6, <2>1, Zenon
<1> HIDE DEF kept
<1>8. ASSUME room >= 5 PROVE CountTokens(sum \o kept) <= room
  <2>1. CountTokens(sum \o kept) = CountTokens(sum) + CountTokens(kept)
    BY <1>1, <1>7, CountAppend
  <2>2. CountTokens(kept) \in Nat /\ CountTokens(<<>>) = 0
    BY <1>7, CountAppend
  <2> QED
    BY <1>1, <1>4, <1>6, <1>8, <2>1, <2>2 DEF left
<1> QED
  BY <1>1, <1>3, <1>5, <1>6, <1>7, <1>8

\* What a context is, however many messages there are and whatever the budget.
ContextIsSound(ms, tokens) ==
    LET c == Context(ms, tokens) IN
    /\ c \in Seq(Message)
    /\ tokens >= CountTokens(System(ms)) + LeastSummary => CountTokens(c) <= tokens
    /\ System(c) = System(ms)
    /\ Those(c, {"user"}) \in Suffixes(Spoken(ms))

\* What compact builds from any history and budget: it starts with the system
\* messages, ends with the latest of the others, and fits when anything can.
LEMMA ContextFacts ==
    ASSUME NEW tokens \in Nat, NEW ms \in Seq(Message),
           \A i \in DOMAIN ms : ms[i].role \in {"system", "user"}
    PROVE  ContextIsSound(ms, tokens)
<1> DEFINE sys == System(ms)
           spo == Spoken(ms)
           room == tokens - CountTokens(sys)
           c == Context(ms, tokens)
<1>1. sys \in Seq(Message) /\ spo \in Seq(Message)
  BY ThoseAppend DEF System, Spoken
<1>2. Those(ms, {"user"}) = spo
  <2>1. \A i \in DOMAIN ms : ms[i].role \in {"user", "summary"} <=> ms[i].role \in {"user"}
    OBVIOUS
  <2>2. Those(ms, {"user", "summary"}) = Those(ms, {"user"})
    BY <2>1, ThoseSame
  <2> QED
    BY <2>2 DEF Spoken
<1>3. /\ \A i \in DOMAIN sys : sys[i].role \in {"system"}
      /\ \A i \in DOMAIN spo : spo[i].role \in {"user"}
  <2>1. \A i \in DOMAIN sys : sys[i].role \in {"system"}
    BY ThoseAll DEF System
  <2>2. \A i \in DOMAIN Those(ms, {"user"}) : Those(ms, {"user"})[i].role \in {"user"}
    BY ThoseAll, Zenon
  <2> QED
    BY <1>2, <2>1, <2>2
<1>4. CountTokens(ms) = CountTokens(sys) + CountTokens(spo)
  BY CountSplits
<1>5. CountTokens(sys) \in Nat /\ CountTokens(spo) \in Nat
  BY <1>1, CountAppend
<1>6. c = IF room <= 0 THEN sys ELSE IF CountTokens(spo) <= room THEN ms ELSE sys \o Compact(spo, room)
  BY DEF Context
<1>7. <<>> \in Suffixes(spo) /\ spo \in Suffixes(spo)
  <2> DEFINE T(n) == SubSeq(spo, n + 1, Len(spo))
  <2>1. Suffixes(spo) = {T(n) : n \in 0 .. Len(spo)} /\ Len(spo) \in Nat
    BY <1>1, SuffixesAre
  <2>2. 0 \in 0 .. Len(spo) /\ Len(spo) \in 0 .. Len(spo)
    BY <2>1
  <2>3. T(0) = spo /\ T(Len(spo)) = <<>>
    BY <1>1
  <2> QED
    BY <2>1, <2>2, <2>3
<1>8. System(sys) = sys /\ Those(sys, {"user"}) = <<>>
  <2>1. \A i \in DOMAIN sys : sys[i].role \notin {"user"}
    BY <1>3
  <2>2. Those(sys, {"user"}) = <<>>
    BY <1>1, <2>1, ThoseAll
  <2>3. Those(sys, {"system"}) = sys
    BY <1>1, <1>3, ThoseAll
  <2> QED
    BY <2>2, <2>3 DEF System
<1>9. System(<<>>) = <<>> /\ Those(<<>>, {"user"}) = <<>>
  BY ThoseAppend DEF System
<1>10. Spoken(ms) = spo /\ System(ms) = sys
  OBVIOUS
<1> HIDE DEF sys, spo, room, c
<1>11. room \in Int
  BY <1>5 DEF room
<1>12. LeastSummary = 5
  BY LeastSummaryIs
<1>13. CASE room <= 0
  <2>1. c = sys
    BY <1>6, <1>13
  <2>2. ~(tokens >= CountTokens(sys) + LeastSummary)
    BY <1>5, <1>12, <1>13 DEF room
  <2> QED
    BY <1>1, <1>7, <1>8, <1>10, <2>1, <2>2 DEF ContextIsSound, c
<1>14. CASE ~(room <= 0) /\ CountTokens(spo) <= room
  <2>1. c = ms
    BY <1>6, <1>14
  <2>2. CountTokens(c) <= tokens
    BY <1>4, <1>5, <1>14, <2>1 DEF room
  <2> QED
    BY <1>2, <1>7, <1>10, <2>1, <2>2 DEF ContextIsSound, c
<1>15. CASE ~(room <= 0) /\ ~(CountTokens(spo) <= room)
  <2>1. room \in Nat
    BY <1>11, <1>15
  <2>2. PICK sum, kept \in Seq(Message) :
              /\ Compact(spo, room) = sum \o kept
              /\ \A i \in DOMAIN sum : sum[i].role = "summary"
              /\ kept \in Suffixes(spo)
              /\ room >= 5 => CountTokens(sum \o kept) <= room
    BY <1>1, <2>1, CompactFacts
  <2> DEFINE com == sum \o kept
  <2>3. com \in Seq(Message) /\ c = sys \o com
    BY <1>6, <1>15, <2>2
  <2>4. \A i \in DOMAIN kept : kept[i].role \in {"user"}
    <3>1. PICK n \in 0 .. Len(spo) : kept = SubSeq(spo, n + 1, Len(spo))
      BY <1>1, <2>2, SuffixesAre
    <3>2. Len(kept) = Len(spo) - n /\ \A i \in 1 .. Len(spo) - n : kept[i] = spo[n + i]
      BY <1>1, <3>1, SuffixesAre
    <3>3. ASSUME NEW i \in DOMAIN kept PROVE kept[i].role \in {"user"}
      <4>1. i \in 1 .. Len(spo) - n /\ n + i \in DOMAIN spo
        BY <1>1, <3>2, <2>2
      <4> QED
        BY <1>3, <3>2, <4>1
    <3> QED
      BY <3>3
  <2>5. System(sum) = <<>> /\ Those(sum, {"user"}) = <<>>
    <3>1. \A i \in DOMAIN sum : sum[i].role \notin {"user"} /\ sum[i].role \notin {"system"}
      BY <2>2
    <3> QED
      BY <3>1, ThoseAll DEF System
  <2>6. System(kept) = <<>> /\ Those(kept, {"user"}) = kept
    <3>1. \A i \in DOMAIN kept : kept[i].role \notin {"system"}
      BY <2>4
    <3> QED
      BY <2>4, <3>1, ThoseAll DEF System
  <2>7. System(com) = <<>> \o <<>> /\ Those(com, {"user"}) = <<>> \o kept
    <3>1. \A R : Those(sum \o kept, R) = Those(sum, R) \o Those(kept, R)
      BY ThoseAppend
    <3>2. /\ Those(com, {"system"}) = Those(sum, {"system"}) \o Those(kept, {"system"})
          /\ Those(com, {"user"}) = Those(sum, {"user"}) \o Those(kept, {"user"})
      BY <3>1
    <3> QED
      BY <2>5, <2>6, <3>2, Zenon DEF System
  <2> HIDE DEF com
  <2>8. System(c) = sys \o System(com) /\ Those(c, {"user"}) = <<>> \o Those(com, {"user"})
    <3>1. \A R : Those(sys \o com, R) = Those(sys, R) \o Those(com, R)
      BY <1>1, <2>3, ThoseAppend
    <3> QED
      BY <1>8, <2>3, <3>1 DEF System
  <2>9. System(c) = sys /\ Those(c, {"user"}) = kept
    <3>1. <<>> \o <<>> = <<>> /\ <<>> \o kept = kept /\ sys \o <<>> = sys
      BY <1>1
    <3> QED
      BY <2>7, <2>8, <3>1
  <2>10. ASSUME tokens >= CountTokens(sys) + LeastSummary PROVE CountTokens(c) <= tokens
    <3>1. room >= 5
      BY <1>5, <1>12, <2>10 DEF room
    <3>2. CountTokens(com) <= room
      BY <2>2, <3>1 DEF com
    <3>3. CountTokens(c) = CountTokens(sys) + CountTokens(com)
      BY <1>1, <2>3, CountAppend
    <3>4. CountTokens(com) \in Nat
      BY <2>3, CountAppend
    <3> QED
      BY <1>5, <3>2, <3>3, <3>4 DEF room
  <2>11. c \in Seq(Message)
    BY <1>1, <2>3
  <2> QED
    BY <1>10, <2>2, <2>9, <2>10, <2>11 DEF ContextIsSound, c
<1> QED
  BY <1>13, <1>14, <1>15

----------------------------------------------------------------------------
(* The conversation.                                                       *)

ContextBuilt ==
    \/ context = <<>> /\ budget = 0
    \/ budget \in Budgets /\ context = Context(messages, budget)

ContextInv == ContextTypeOK /\ ContextBuilt

\* Whatever is stored, a context can be built from it.
LEMMA MessagesAre ==
    ASSUME ContextTypeOK
    PROVE  messages \in Seq(Message) /\ \A i \in DOMAIN messages : messages[i].role \in {"system", "user"}
<1> DEFINE M == [role : {"system", "user"}, words : MessageWords]
<1>1. M \subseteq Message /\ \A m \in M : m.role \in {"system", "user"}
  BY ContextAssumption DEF Message
<1>2. messages \in Seq(M)
  BY DEF ContextTypeOK
<1> HIDE DEF M
<1>3. messages \in Seq(Message)
  BY <1>1, <1>2
<1>4. \A i \in DOMAIN messages : messages[i] \in M
  BY <1>2
<1> QED
  BY <1>1, <1>3, <1>4

\* Every request leaves a context that is built from the history stored.
LEMMA ContextStep ==
    ASSUME ContextInv, [ContextNext]_contextVars
    PROVE  ContextInv'
<1> USE DEF ContextInv, ContextBuilt
<1>0. \A b \in Budgets : b \in Nat
  BY ContextAssumption
<1>1. CASE StoreCreate
  BY <1>1 DEF StoreCreate, ContextTypeOK
<1>2. CASE StoreDelete
  <2>1. exists' = FALSE /\ messages' = <<>> /\ context' = <<>> /\ budget' = 0
    BY <1>2 DEF StoreDelete, Forget
  <2>2. MaxMessages \in Nat
    BY ContextAssumption
  <2>3. \A M : <<>> \in Seq(M) /\ Len(<<>>) = 0
    OBVIOUS
  <2>4. messages' \in Seq([role : {"system", "user"}, words : MessageWords]) /\ context' \in Seq(Message)
    BY <2>1, <2>3, Zenon
  <2>5. Len(messages') <= MaxMessages
    BY <2>1, <2>2
  <2> QED
    BY <2>1, <2>4, <2>5, Zenon DEF ContextTypeOK
<1>3. ASSUME NEW role \in {"system", "user"}, NEW w \in MessageWords, AddMessage(role, w)
      PROVE  ContextInv'
  <2> DEFINE M == [role : {"system", "user"}, words : MessageWords]
             m == [role |-> role, words |-> w]
  <2>1. /\ exists /\ Len(messages) < MaxMessages /\ messages' = Append(messages, m)
        /\ context' = <<>> /\ budget' = 0 /\ exists' = exists
    BY <1>3 DEF AddMessage, Forget
  <2>2. messages \in Seq(M) /\ exists \in BOOLEAN /\ MaxMessages \in Nat
    BY ContextAssumption DEF ContextTypeOK
  <2>3. messages' \in Seq(M) /\ Len(messages') = Len(messages) + 1 /\ Len(messages) \in Nat
    BY <2>1, <2>2
  <2>4. Len(messages') <= MaxMessages
    BY <2>1, <2>2, <2>3
  <2> QED
    BY <2>1, <2>2, <2>3, <2>4 DEF ContextTypeOK
<1>4. ASSUME NEW b \in Budgets, BuildContext(b) PROVE ContextInv'
  <2>1. context' = Context(messages, b) /\ budget' = b /\ UNCHANGED <<exists, messages>>
    BY <1>4 DEF BuildContext
  <2>2. ContextIsSound(messages, b)
    BY <1>0, MessagesAre, ContextFacts
  <2>3. context' \in Seq(Message)
    BY <2>1, <2>2 DEF ContextIsSound
  <2> QED
    BY <2>1, <2>3 DEF ContextTypeOK
<1>5. CASE UNCHANGED contextVars
  BY <1>5 DEF contextVars, ContextTypeOK
<1> QED
  BY <1>1, <1>2, <1>3, <1>4, <1>5 DEF ContextNext

\* A context that is built so has what ContextFits asks for.
LEMMA ContextInvFits ==
    ASSUME ContextInv
    PROVE  ContextFits
<1>1. messages \in Seq(Message) /\ \A i \in DOMAIN messages : messages[i].role \in {"system", "user"}
  BY MessagesAre DEF ContextInv
<1>2. CASE context = <<>> /\ budget = 0
  <2>1. Spoken(messages) \in Seq(Message) /\ System(messages) \in Seq(Message) /\ Those(<<>>, {"user"}) = <<>>
    BY <1>1, ThoseAppend DEF Spoken, System
  <2>2. <<>> \in Suffixes(Spoken(messages))
    BY DEF Suffixes
  <2>3. CountTokens(System(messages)) \in Nat
    BY <2>1, CountAppend
  <2> QED
    BY <1>2, <2>1, <2>2, <2>3, LeastSummaryIs DEF ContextFits
<1>3. CASE budget \in Budgets /\ context = Context(messages, budget)
  <2>1. budget \in Nat
    BY <1>3, ContextAssumption
  <2>2. ContextIsSound(messages, budget)
    BY <1>1, <2>1, ContextFacts
  <2> QED
    BY <1>3, <2>2 DEF ContextIsSound, ContextFits
<1> QED
  BY <1>2, <1>3 DEF ContextInv, ContextBuilt

\* The invariant of the module: types, and the context built from its history.
LEMMA ContextInvariant == ContextSpec => []ContextInv
<1>1. ContextInit => ContextInv
  <2> SUFFICES ASSUME ContextInit PROVE ContextInv
    OBVIOUS
  <2>1. MaxMessages \in Nat
    BY ContextAssumption
  <2>2. \A M : <<>> \in Seq(M) /\ Len(<<>>) = 0
    OBVIOUS
  <2>3. messages \in Seq([role : {"system", "user"}, words : MessageWords]) /\ context \in Seq(Message)
    BY <2>2, Zenon DEF ContextInit
  <2>4. Len(messages) <= MaxMessages
    BY <2>1 DEF ContextInit
  <2> QED
    BY <2>3, <2>4, Zenon DEF ContextInit, ContextInv, ContextBuilt, ContextTypeOK
<1>2. ContextInv /\ [ContextNext]_contextVars => ContextInv'
  BY ContextStep
<1> QED
  BY <1>1, <1>2, PTL DEF ContextSpec

\* Every variable of the context window keeps its type (memory/context.py), for
\* every budget, reserve and length of message.
THEOREM ContextTypes == ContextSpec => []ContextTypeOK
<1>1. ContextInv => ContextTypeOK
  BY DEF ContextInv
<1> QED
  BY <1>1, ContextInvariant, PTL

\* The context sent to a model fits the budget whenever the system messages leave
\* room for it, keeps them, and ends with the latest turns (memory/context.py
\* compact), whatever history a conversation has and however long its messages are.
THEOREM ContextAlwaysFits == ContextSpec => []ContextFits
<1>1. ContextInv => ContextFits
  BY ContextInvFits
<1> QED
  BY <1>1, ContextInvariant, PTL

----------------------------------------------------------------------------
(* THE CHUNKS OF A DOCUMENT (module Chunker).                              *)

----------------------------------------------------------------------------
(* Lines in their order.                                                   *)

Inc(s) == \A i, j \in DOMAIN s : i < j => s[i] < s[j]
Precedes(S, T) == \A x \in S, y \in T : x < y

\* Two increasing sequences in a row increase when the first ends before the second.
LEMMA IncConcat ==
    ASSUME NEW A \in SUBSET Nat, NEW s \in Seq(A), NEW t \in Seq(A)
    PROVE  Inc(s \o t) <=> Inc(s) /\ Inc(t) /\ Precedes(Range(s), Range(t))
<1> DEFINE u == s \o t
<1>1. /\ DOMAIN u = 1 .. Len(s) + Len(t) /\ Len(s) \in Nat /\ Len(t) \in Nat
      /\ DOMAIN s = 1 .. Len(s) /\ DOMAIN t = 1 .. Len(t)
      /\ \A i \in 1 .. Len(s) : u[i] = s[i]
      /\ \A i \in 1 .. Len(t) : u[Len(s) + i] = t[i]
  OBVIOUS
<1> HIDE DEF u
<1>2. ASSUME Inc(u) PROVE Inc(s) /\ Inc(t) /\ Precedes(Range(s), Range(t))
  <2>1. Inc(s)
    BY <1>1, <1>2 DEF Inc
  <2>2. ASSUME NEW i \in 1 .. Len(t), NEW j \in 1 .. Len(t), i < j PROVE t[i] < t[j]
    <3>1. Len(s) + i \in DOMAIN u /\ Len(s) + j \in DOMAIN u /\ Len(s) + i < Len(s) + j
      BY <1>1, <2>2
    <3> QED
      BY <1>1, <1>2, <3>1 DEF Inc
  <2>3. ASSUME NEW i \in 1 .. Len(s), NEW j \in 1 .. Len(t) PROVE s[i] < t[j]
    <3>1. i \in DOMAIN u /\ Len(s) + j \in DOMAIN u /\ i < Len(s) + j
      BY <1>1
    <3> QED
      BY <1>1, <1>2, <3>1 DEF Inc
  <2>4. Inc(t)
    BY <1>1, <2>2 DEF Inc
  <2> QED
    BY <1>1, <2>1, <2>3, <2>4 DEF Precedes, Range
<1>3. ASSUME Inc(s), Inc(t), Precedes(Range(s), Range(t)) PROVE Inc(u)
  <2> SUFFICES ASSUME NEW i \in DOMAIN u, NEW j \in DOMAIN u, i < j PROVE u[i] < u[j]
    BY DEF Inc
  <2>1. CASE j <= Len(s)
    <3>1. i \in DOMAIN s /\ j \in DOMAIN s
      BY <1>1, <2>1
    <3> QED
      BY <1>1, <1>3, <3>1 DEF Inc
  <2>2. CASE i > Len(s)
    <3>1. i - Len(s) \in DOMAIN t /\ j - Len(s) \in DOMAIN t /\ i - Len(s) < j - Len(s)
      BY <1>1, <2>2
    <3>2. u[i] = t[i - Len(s)] /\ u[j] = t[j - Len(s)]
      <4>1. Len(s) + (i - Len(s)) = i /\ Len(s) + (j - Len(s)) = j
        BY <1>1
      <4> QED
        BY <1>1, <3>1, <4>1
    <3> QED
      BY <1>3, <3>1, <3>2 DEF Inc
  <2>3. CASE i <= Len(s) /\ j > Len(s)
    <3>1. i \in DOMAIN s /\ j - Len(s) \in DOMAIN t /\ Len(s) + (j - Len(s)) = j
      BY <1>1, <2>3
    <3>2. u[i] = s[i] /\ u[j] = t[j - Len(s)]
      BY <1>1, <3>1
    <3>3. s[i] \in Range(s) /\ t[j - Len(s)] \in Range(t)
      BY <3>1 DEF Range
    <3> QED
      BY <1>3, <3>2, <3>3 DEF Precedes
  <2> QED
    BY <1>1, <2>1, <2>2, <2>3
<1> QED
  BY <1>2, <1>3 DEF u

\* Short sequences increase, and an increasing one ends with its greatest element.
LEMMA IncFacts ==
    /\ Inc(<<>>) /\ \A i : Inc(<<i>>)
    /\ \A A \in SUBSET Nat : \A s \in Seq(A) : Inc(s) /\ s # <<>> => \A x \in Range(s) : x <= Last(s)
<1>1. Inc(<<>>) /\ \A i : Inc(<<i>>)
  BY DEF Inc
<1>2. ASSUME NEW A \in SUBSET Nat, NEW s \in Seq(A), Inc(s), s # <<>>, NEW x \in Range(s) PROVE x <= Last(s)
  <2>1. PICK i \in DOMAIN s : x = s[i]
    BY DEF Range
  <2>2. Len(s) \in DOMAIN s /\ i \in 1 .. Len(s) /\ Len(s) \in Nat /\ Last(s) = s[Len(s)]
    BY <1>2 DEF Last
  <2>3. s[i] \in A
    OBVIOUS
  <2>4. s[i] \in Nat
    BY <2>3
  <2>5. i = Len(s) \/ s[i] < s[Len(s)]
    BY <1>2, <2>2 DEF Inc
  <2>6. CASE i = Len(s)
    BY <2>1, <2>2, <2>4, <2>6
  <2>7. CASE s[i] < s[Len(s)]
    <3>1. s[Len(s)] \in A
      BY <2>2
    <3>2. s[Len(s)] \in Nat
      BY <3>1
    <3> QED
      BY <2>1, <2>2, <2>4, <2>7, <3>2
  <2> QED
    BY <2>5, <2>6, <2>7
<1> QED
  BY <1>1, <1>2

\* A line of a sequence and the next one.
LEMMA IncNext ==
    ASSUME NEW A \in SUBSET Nat, NEW s \in Seq(A), Inc(s), NEW m \in 1 .. Len(s) - 1
    PROVE  s[m] < s[m + 1]
<1>1. m \in DOMAIN s /\ m + 1 \in DOMAIN s /\ m < m + 1
  OBVIOUS
<1> QED
  BY <1>1 DEF Inc

----------------------------------------------------------------------------
(* The lines of a document and their words.                                *)

\* The lines of a document are numbered from one and have words.
LEMMA LineFacts ==
    ASSUME ChunkTypeOK
    PROVE  /\ Line = 1 .. Len(text) /\ Len(text) \in Nat /\ Line \in SUBSET Nat
           /\ \A i \in Line : text[i].words \in Nat /\ text[i].kind \in LineKinds[docKind]
<1> DEFINE T == [kind : LineKinds[docKind], words : LineWords]
<1>1. \A t \in T : t.words \in Nat /\ t.kind \in LineKinds[docKind]
  BY ChunkerAssumption
<1>2. text \in Seq(T)
  BY DEF ChunkTypeOK
<1> HIDE DEF T
<1>3. DOMAIN text = 1 .. Len(text) /\ Len(text) \in Nat /\ \A i \in DOMAIN text : text[i] \in T
  BY <1>2
<1> QED
  BY <1>1, <1>3 DEF Line

\* The words of a piece are the sum of those of its parts.
LEMMA WordsFacts ==
    ASSUME ChunkTypeOK
    PROVE  /\ Words(<<>>) = 0
           /\ \A s \in Piece : Words(s) \in Nat
           /\ \A s, t \in Piece : Words(s \o t) = Words(s) + Words(t)
           /\ \A i \in Line : Words(<<i>>) = text[i].words
<1> DEFINE w == [i \in Line |-> text[i].words]
<1>1. w \in [Line -> Nat] /\ \A i \in Line : w[i] = text[i].words
  BY LineFacts
<1>2. \A s : Words(s) = Total(w, s)
  BY DEF Words
<1> HIDE DEF w
<1>3. Sums(w, Line)
  BY <1>1, TotalFacts
<1>4. /\ Words(<<>>) = 0
      /\ \A s \in Piece : Words(s) \in Nat
      /\ \A s, t \in Piece : Words(s \o t) = Words(s) + Words(t)
      /\ \A s \in Piece, i \in Line : Words(Append(s, i)) = Words(s) + text[i].words
  BY <1>1, <1>2, <1>3 DEF Sums, Piece
<1>5. ASSUME NEW i \in Line PROVE Words(<<i>>) = text[i].words
  <2>1. <<i>> = Append(<<>>, i) /\ <<>> \in Piece /\ text[i].words \in Nat
    BY LineFacts DEF Piece
  <2>2. Words(Append(<<>>, i)) = Words(<<>>) + text[i].words
    BY <1>4, <2>1
  <2> DEFINE x == text[i].words
  <2>3. Words(<<i>>) = Words(Append(<<>>, i))
    BY <2>1
  <2>4. x \in Nat /\ Words(Append(<<>>, i)) = 0 + x
    BY <1>4, <2>1, <2>2
  <2> HIDE DEF x
  <2>5. 0 + x = x
    BY <2>4
  <2> QED
    BY <2>3, <2>4, <2>5 DEF x
<1> QED
  BY <1>4, <1>5

\* The lines of pieces.
L(c) == Joined(c, Line)

\* The lines of pieces, piece by piece.
LEMMA PieceFacts ==
    /\ L(<<>>) = <<>>
    /\ \A ss \in Seq(Piece) : L(ss) \in Piece /\ Range(L(ss)) = UNION {Range(s) : s \in Range(ss)}
    /\ \A ss \in Seq(Piece), s \in Piece : L(Append(ss, s)) = L(ss) \o s
    /\ \A ss, tt \in Seq(Piece) : L(ss \o tt) = L(ss) \o L(tt)
    /\ \A s \in Piece : L(<<s>>) = s
    /\ \A ss : PieceWords(ss) = Words(L(ss))
    /\ <<>> \in Piece
<1>1. Joins(Line)
  BY JoinedFacts
<1>2. \A ss : PieceWords(ss) = Words(L(ss))
  BY DEF PieceWords, L
<1>3. <<>> \in Piece
  BY DEF Piece
<1> QED
  BY <1>1, <1>2, <1>3, Zenon DEF Joins, L, Piece

----------------------------------------------------------------------------
(* What a list of chunks must be, a chunk by itself and next to another.   *)

ChunkIsSound(c) ==
    /\ c \in Seq(Piece) /\ c # <<>>
    /\ Inc(L(c))
    /\ Words(L(c)) > ChunkSize => PieceWords(Front(c)) <= Overlap

Follows(c, d) ==
    L(c) # <<>> /\ L(d) # <<>> =>
        /\ Last(L(d)) > Last(L(c))
        /\ Words(Kept(L(d), Line, Range(L(c)))) <= Overlap

Neighbours(cs) ==
    /\ \A k \in DOMAIN cs : ChunkIsSound(cs[k])
    /\ \A k \in DOMAIN cs : k > 1 => Follows(cs[k - 1], cs[k])

Held(cs) == UNION {Range(L(c)) : c \in Range(cs)}

\* A chunk more at the end, or one less.
LEMMA NeighboursAppend ==
    ASSUME NEW cs \in Seq(Seq(Piece)), NEW c \in Seq(Piece)
    PROVE  /\ Neighbours(<<>>) /\ Held(<<>>) = {}
           /\ Neighbours(Append(cs, c)) <=>
                 Neighbours(cs) /\ ChunkIsSound(c) /\ (cs # <<>> => Follows(Last(cs), c))
           /\ Held(Append(cs, c)) = Held(cs) \cup Range(L(c))
<1> DEFINE ds == Append(cs, c)
           n == Len(cs)
<1>1. /\ n \in Nat /\ DOMAIN cs = 1 .. n /\ DOMAIN ds = 1 .. n + 1 /\ ds[n + 1] = c
      /\ \A k \in 1 .. n : ds[k] = cs[k]
      /\ cs = <<>> <=> n = 0
  OBVIOUS
<1>2. Last(cs) = cs[n]
  BY DEF Last
<1> HIDE DEF ds, n
<1>3. Neighbours(<<>>)
  BY DEF Neighbours
<1>4. Held(<<>>) = {} /\ Range(ds) = Range(cs) \cup {c}
  BY RangeFacts DEF Held, ds
<1>5. Held(ds) = Held(cs) \cup Range(L(c))
  BY <1>4 DEF Held
<1>6. ASSUME Neighbours(ds)
      PROVE  Neighbours(cs) /\ ChunkIsSound(c) /\ (cs # <<>> => Follows(Last(cs), c))
  <2>1. ASSUME NEW k \in 1 .. n PROVE ChunkIsSound(cs[k]) /\ (k > 1 => Follows(cs[k - 1], cs[k]))
    <3>1. k \in 1 .. n + 1 /\ (k > 1 => k - 1 \in 1 .. n)
      BY <1>1
    <3> QED
      BY <1>1, <1>6, <3>1 DEF Neighbours
  <2>2. ChunkIsSound(c)
    BY <1>1, <1>6 DEF Neighbours
  <2>3. ASSUME cs # <<>> PROVE Follows(Last(cs), c)
    <3>1. n \in 1 .. n /\ n + 1 \in 1 .. n + 1 /\ n + 1 > 1 /\ n + 1 - 1 = n
      BY <1>1, <2>3
    <3>2. \A k \in 1 .. n + 1 : k > 1 => Follows(ds[k - 1], ds[k])
      BY <1>1, <1>6 DEF Neighbours
    <3>3. Follows(ds[n + 1 - 1], ds[n + 1])
      BY <3>1, <3>2
    <3> QED
      BY <1>1, <1>2, <3>1, <3>3
  <2> QED
    BY <1>1, <2>1, <2>2, <2>3 DEF Neighbours
<1>7. ASSUME Neighbours(cs), ChunkIsSound(c), cs # <<>> => Follows(Last(cs), c)
      PROVE  Neighbours(ds)
  <2>1. ASSUME NEW k \in 1 .. n + 1 PROVE ChunkIsSound(ds[k]) /\ (k > 1 => Follows(ds[k - 1], ds[k]))
    <3>1. CASE k \in 1 .. n
      <4>1. k > 1 => k - 1 \in 1 .. n
        BY <1>1, <3>1
      <4> QED
        BY <1>1, <1>7, <3>1, <4>1 DEF Neighbours
    <3>2. CASE k = n + 1
      <4>1. k > 1 => n \in 1 .. n /\ k - 1 = n
        BY <1>1, <3>2
      <4> QED
        BY <1>1, <1>2, <1>7, <3>2, <4>1
    <3> QED
      BY <1>1, <3>1, <3>2
  <2> QED
    BY <1>1, <2>1 DEF Neighbours
<1> QED
  BY <1>3, <1>4, <1>5, <1>6, <1>7 DEF ds

\* A chunk that grows by a later piece still comes after the one before.
LEMMA FollowsGrown ==
    ASSUME ChunkTypeOK, NEW b \in Seq(Piece), NEW c \in Seq(Piece), NEW p \in Piece,
           Follows(b, c), L(c) # <<>>, p # <<>>, Precedes(Range(L(b)), Range(p))
    PROVE  Follows(b, Append(c, p))
<1> SUFFICES ASSUME L(b) # <<>>
             PROVE  /\ Last(L(Append(c, p))) > Last(L(b))
                    /\ Words(Kept(L(Append(c, p)), Line, Range(L(b)))) <= Overlap
  BY DEF Follows
<1> DEFINE R == Range(L(b))
<1>1. L(Append(c, p)) = L(c) \o p /\ L(c) \in Piece /\ L(b) \in Piece
  BY PieceFacts
<1>2. Last(L(c) \o p) = Last(p) /\ Last(p) \in Range(p) /\ Last(L(b)) \in R
  <2>1. L(c) \in Seq(Line) /\ L(b) \in Seq(Line) /\ p \in Seq(Line)
    BY <1>1 DEF Piece
  <2>2. Last(p) \in Range(p)
    BY <2>1, FrontLast, Zenon
  <2>3. Last(L(b)) \in Range(L(b))
    BY <2>1, FrontLast, Zenon
  <2>4. Last(L(c) \o p) = Last(p)
    BY <2>1, LastAppended, Zenon
  <2> QED
    BY <2>2, <2>3, <2>4
<1>3. Last(L(b)) < Last(p)
  BY <1>2 DEF Precedes
<1>4. Range(p) \cap R = {}
  <2>1. R \subseteq Line /\ Line \subseteq Nat
    BY <1>1, RangeFacts, LineFacts DEF Piece
  <2> SUFFICES ASSUME NEW x \in Range(p), x \in R PROVE FALSE
    OBVIOUS
  <2>2. x \in Nat
    BY <2>1
  <2>3. x < x
    BY DEF Precedes
  <2> QED
    BY <2>2, <2>3
<1>5. Last(p) \in Nat /\ Last(L(b)) \in Nat
  <2>1. Last(p) \in Line /\ Last(L(b)) \in Line /\ Line \subseteq Nat
    BY <1>1, <1>2, RangeFacts, LineFacts DEF Piece
  <2> QED
    BY <2>1
<1> HIDE DEF R
<1>6. Selects(Line, R)
  BY KeptFacts
<1>7. Kept(L(c) \o p, Line, R) = Kept(L(c), Line, R) \o Kept(p, Line, R) /\ Kept(p, Line, R) = <<>>
  BY <1>1, <1>4, <1>6 DEF Selects, Piece
<1>8. Kept(L(c), Line, R) \o <<>> = Kept(L(c), Line, R)
  <2>1. Kept(L(c), Line, R) \in Seq(Line)
    BY <1>1, <1>6 DEF Selects, Piece
  <2> QED
    BY <2>1
<1>9. Words(Kept(L(c), Line, R)) <= Overlap
  BY DEF Follows, R
<1> QED
  BY <1>1, <1>2, <1>3, <1>5, <1>7, <1>8, <1>9 DEF R

\* The end of a chunk that is carried into the next one is short enough.
LEMMA CarriedFacts ==
    ASSUME ChunkTypeOK, NEW c \in Seq(Piece)
    PROVE  \E k \in 1 .. Len(c) + 1 :
              Carried(c) = SubSeq(c, k, Len(c)) /\ PieceWords(Carried(c)) <= Overlap
<1> DEFINE Start(k) == SubSeq(c, k, Len(c))
           N == Len(c)
           T == {k \in 1 .. N + 1 : PieceWords(Start(k)) <= Overlap}
           First(k) == /\ PieceWords(Start(k)) <= Overlap
                       /\ \A j \in 1 .. (k - 1) : PieceWords(Start(j)) > Overlap
<1>1. N \in Nat /\ Start(N + 1) = <<>> /\ \A k \in 1 .. N + 1 : Start(k) \in Seq(Piece)
  OBVIOUS
<1>2. Carried(c) = Start(CHOOSE k \in 1 .. N + 1 : First(k))
  BY DEF Carried
<1> HIDE DEF Start, N
<1>3. \A k \in 1 .. N + 1 : PieceWords(Start(k)) \in Nat
  BY <1>1, PieceFacts, WordsFacts
<1>4. N + 1 \in T
  <2>1. PieceWords(<<>>) = 0
    BY PieceFacts, WordsFacts
  <2>2. 0 <= Overlap
    BY ChunkerAssumption
  <2>3. N + 1 \in 1 .. N + 1
    BY <1>1
  <2> QED
    BY <1>1, <2>1, <2>2, <2>3
<1>5. T \in SUBSET Nat /\ \A k \in T : k \in 1 .. N + 1 /\ PieceWords(Start(k)) <= Overlap
  BY <1>1
<1>6. \A k \in 1 .. N + 1 : k \notin T => ~(PieceWords(Start(k)) <= Overlap)
  OBVIOUS
<1> HIDE DEF T
<1>7. PICK k \in T : \A j \in T : k <= j
  <2>1. T # {}
    BY <1>4
  <2> QED
    BY <1>5, <2>1, LeastNumber
<1>8. First(k)
  <2>1. ASSUME NEW j \in 1 .. (k - 1) PROVE PieceWords(Start(j)) > Overlap
    <3>1. j \in 1 .. N + 1 /\ ~(k <= j)
      BY <1>1, <1>5, <1>7
    <3>2. ~(PieceWords(Start(j)) <= Overlap)
      BY <1>6, <1>7, <3>1
    <3>3. PieceWords(Start(j)) \in Nat /\ Overlap \in Nat
      BY <1>3, <3>1, ChunkerAssumption
    <3> QED
      BY <3>2, <3>3
  <2> QED
    BY <1>5, <1>7, <2>1
<1>9. k \in 1 .. N + 1
  BY <1>5, <1>7
<1> HIDE DEF First
<1>10. \E i \in 1 .. N + 1 : Carried(c) = Start(i) /\ First(i)
  <2> DEFINE i == CHOOSE i \in 1 .. N + 1 : First(i)
  <2>1. i \in 1 .. N + 1 /\ First(i)
    BY <1>8, <1>9
  <2> QED
    BY <1>2, <2>1
<1> QED
  BY <1>10 DEF First, Start, N

\* A chunk opened by a later piece after the end of another follows it.
LEMMA FollowsOpened ==
    ASSUME ChunkTypeOK, NEW c \in Seq(Piece), Inc(L(c)), NEW p \in Piece, p # <<>>,
           Precedes(Range(L(c)), Range(p)),
           NEW k \in 1 .. Len(c) + 1, NEW d, d = SubSeq(c, k, Len(c)), PieceWords(d) <= Overlap
    PROVE  /\ d \in Seq(Piece) /\ Range(L(d)) \subseteq Range(L(c)) /\ Inc(L(d))
           /\ Follows(c, Append(d, p))
<1> DEFINE a == SubSeq(c, 1, k - 1)
           R == Range(L(c))
<1>1. a \in Seq(Piece) /\ d \in Seq(Piece) /\ c = a \o d
  BY SplitAt
<1> HIDE DEF a
<1>2. /\ L(c) = L(a) \o L(d) /\ L(a) \in Seq(Line) /\ L(d) \in Seq(Line) /\ L(c) \in Seq(Line)
      /\ L(Append(d, p)) = L(d) \o p /\ p \in Seq(Line) /\ PieceWords(d) = Words(L(d))
  BY <1>1, PieceFacts DEF Piece
<1>3. R = Range(L(a)) \cup Range(L(d))
  <2>1. Range(L(a) \o L(d)) = Range(L(a)) \cup Range(L(d))
    <3> DEFINE x == L(a)
               y == L(d)
    <3>1. x \in Seq(Line) /\ y \in Seq(Line)
      BY <1>2
    <3> HIDE DEF x, y
    <3>2. Range(x \o y) = Range(x) \cup Range(y)
      BY <3>1, RangeFacts
    <3> QED
      BY <3>2 DEF x, y
  <2> QED
    BY <1>2, <2>1
<1>4. Line \in SUBSET Nat
  BY LineFacts
<1>5. Inc(L(d))
  <2>1. Inc(L(a) \o L(d)) <=> Inc(L(a)) /\ Inc(L(d)) /\ Precedes(Range(L(a)), Range(L(d)))
    BY <1>2, <1>4, IncConcat
  <2> QED
    BY <1>2, <2>1
<1>6. ASSUME L(c) # <<>>
      PROVE  /\ Last(L(Append(d, p))) > Last(L(c))
             /\ Words(Kept(L(Append(d, p)), Line, R)) <= Overlap
  <2>1. Last(L(d) \o p) = Last(p)
    BY <1>2, LastAppended, Zenon
  <2>2. Last(p) \in Range(p) /\ Last(p) \in Line
    BY <1>2, FrontLast, Zenon
  <2>3. Last(L(c)) \in R /\ Last(L(c)) \in Line
    BY <1>2, <1>6, FrontLast, Zenon
  <2>4. Last(L(c)) < Last(p) /\ Last(L(c)) \in Nat /\ Last(p) \in Nat
    BY <1>4, <2>2, <2>3 DEF Precedes
  <2>5. Range(p) \cap R = {}
    <3> SUFFICES ASSUME NEW x \in Range(p), x \in R PROVE FALSE
      OBVIOUS
    <3>1. x \in Line
      BY <1>2, RangeFacts
    <3>2. x \in Nat /\ x < x
      BY <1>4, <3>1 DEF Precedes
    <3> QED
      BY <3>2
  <2> HIDE DEF R
  <2>6. Selects(Line, R)
    BY KeptFacts
  <2>7. Kept(L(d) \o p, Line, R) = Kept(L(d), Line, R) \o Kept(p, Line, R)
    BY <1>2, <2>6, Zenon DEF Selects
  <2>8. Kept(p, Line, R) = <<>>
    BY <1>2, <2>5, <2>6, Zenon DEF Selects
  <2>9. Kept(L(d), Line, R) = L(d)
    BY <1>2, <1>3, <2>6 DEF Selects
  <2>10. L(d) \o <<>> = L(d)
    BY <1>2
  <2>11. Words(Kept(L(Append(d, p)), Line, R)) <= Overlap
    BY <1>2, <2>7, <2>8, <2>9, <2>10
  <2> QED
    BY <1>2, <2>1, <2>4, <2>11
<1> QED
  BY <1>1, <1>3, <1>5, <1>6, Zenon DEF Follows

----------------------------------------------------------------------------
(* _merge_splits.                                                          *)

\* Adding a piece to the chunks so far.
Merged(chunks, piece) ==
    IF chunks = <<>> THEN << <<piece>> >>
    ELSE IF PieceWords(Append(Last(chunks), piece)) > ChunkSize
         THEN Append(chunks, Append(Carried(Last(chunks)), piece))
    ELSE Append(Front(chunks), Append(Last(chunks), piece))

\* _merge_splits, piece by piece.
LEMMA MergeAppend ==
    ASSUME ChunkTypeOK
    PROVE  /\ MergeSplits(<<>>) = <<>>
           /\ \A ps \in Seq(Piece) : MergeSplits(ps) \in Seq(Seq(Piece))
           /\ \A ps \in Seq(Piece), p \in Piece : MergeSplits(Append(ps, p)) = Merged(MergeSplits(ps), p)
<1> DEFINE D == Seq(Seq(Piece))
           f == [p \in Piece |-> [chunks \in D |->
                   IF chunks = <<>> THEN << <<p>> >>
                   ELSE IF PieceWords(Append(Last(chunks), p)) > ChunkSize
                        THEN Append(chunks, Append(Carried(Last(chunks)), p))
                   ELSE [chunks EXCEPT ![Len(chunks)] = Append(@, p)]]]
           z == <<>>
           H(ps) == MergeSplits(ps)
<1>1. ASSUME NEW p \in Piece, NEW chunks \in D
      PROVE  f[p][chunks] = Merged(chunks, p) /\ Merged(chunks, p) \in D
  <2>1. CASE chunks = <<>>
    <3>1. Merged(chunks, p) = << <<p>> >> /\ << <<p>> >> \in D
      BY <2>1 DEF Merged
    <3> QED
      BY <2>1, <3>1
  <2>2. CASE chunks # <<>>
    <3> DEFINE n == Len(chunks)
               c == Last(chunks)
    <3>1. /\ Front(chunks) \in D /\ c \in Seq(Piece)
          /\ \A a : [chunks EXCEPT ![n] = a] = Append(Front(chunks), a)
      BY <2>2, FrontLast, Zenon
    <3>2. chunks[n] = c
      BY DEF Last
    <3>3. PICK k \in 1 .. Len(c) + 1 : Carried(c) = SubSeq(c, k, Len(c))
      BY <3>1, CarriedFacts
    <3>4. Carried(c) \in Seq(Piece)
      BY <3>1, <3>3
    <3> HIDE DEF c
    <3>5. Append(Carried(c), p) \in Seq(Piece) /\ Append(c, p) \in Seq(Piece)
      BY <3>1, <3>4
    <3>6. Append(chunks, Append(Carried(c), p)) \in D /\ Append(Front(chunks), Append(c, p)) \in D
      BY <3>1, <3>5
    <3>7. [chunks EXCEPT ![n] = Append(@, p)] = Append(Front(chunks), Append(c, p))
      <4>1. [chunks EXCEPT ![n] = Append(@, p)] = [chunks EXCEPT ![n] = Append(chunks[n], p)]
        OBVIOUS
      <4> QED
        BY <3>1, <3>2, <4>1
    <3>8. f[p][chunks] = IF PieceWords(Append(c, p)) > ChunkSize
                         THEN Append(chunks, Append(Carried(c), p))
                         ELSE [chunks EXCEPT ![n] = Append(@, p)]
      BY <2>2 DEF c
    <3> QED
      BY <2>2, <3>6, <3>7, <3>8 DEF Merged, c
  <2> QED
    BY <2>1, <2>2
<1>2. f \in [Piece -> [D -> D]]
  <2>1. \A p \in Piece : f[p] = [chunks \in D |-> f[p][chunks]]
    OBVIOUS
  <2>2. f = [p \in Piece |-> f[p]]
    OBVIOUS
  <2> HIDE DEF f
  <2>3. \A p \in Piece : f[p] \in [D -> D]
    BY <1>1, <2>1
  <2> QED
    BY <2>2, <2>3
<1>3. \A ps : H(ps) = Fold(f, z, ps)
  BY DEF MergeSplits
<1>4. z \in D
  OBVIOUS
<1> HIDE DEF f, D, z, H
<1>5. /\ Fold(f, z, <<>>) = z
      /\ \A s \in Seq(Piece) : Fold(f, z, s) \in D
      /\ \A s \in Seq(Piece), a \in Piece : Fold(f, z, Append(s, a)) = f[a][Fold(f, z, s)]
  BY <1>2, <1>4, FoldAppend
<1>6. H(<<>>) = z /\ \A ps \in Seq(Piece) : H(ps) \in D
  BY <1>3, <1>5
<1>7. \A ps \in Seq(Piece), p \in Piece : H(Append(ps, p)) = Merged(H(ps), p)
  BY <1>1, <1>3, <1>5
<1> QED
  BY <1>6, <1>7 DEF H, D, z

\* Pieces in the order of the document, none of them empty.
Ordered(ps) == ps \in Seq(Piece) /\ <<>> \notin Range(ps) /\ Inc(L(ps))

MergedWell(ps, cs) ==
    /\ Neighbours(cs)
    /\ Held(cs) = Range(L(ps))
    /\ \A c \in Range(cs) : L(c) # <<>>

\* One piece more, by the three cases of the loop.
LEMMA MergedStep ==
    ASSUME ChunkTypeOK, NEW ps \in Seq(Piece), NEW cs \in Seq(Seq(Piece)), NEW p \in Piece,
           MergedWell(ps, cs), p # <<>>, Inc(p), Precedes(Range(L(ps)), Range(p))
    PROVE  MergedWell(Append(ps, p), Merged(cs, p))
<1> DEFINE R == Range(L(ps))
<1>1. Line \in SUBSET Nat
  BY LineFacts
<1>2. L(Append(ps, p)) = L(ps) \o p /\ L(ps) \in Seq(Line) /\ p \in Seq(Line)
  BY PieceFacts DEF Piece
<1>3. Range(L(ps) \o p) = R \cup Range(p)
  BY <1>2, RangeFacts
<1>4. Held(cs) = R /\ Neighbours(cs) /\ \A c \in Range(cs) : L(c) # <<>>
  BY DEF MergedWell
<1>5. Range(L(Append(ps, p))) = R \cup Range(p)
  BY <1>2, <1>3
<1> HIDE DEF R
<1>6. ASSUME NEW ds, Neighbours(ds), Held(ds) = R \cup Range(p), \A c \in Range(ds) : L(c) # <<>>
      PROVE  MergedWell(Append(ps, p), ds)
  BY <1>5, <1>6 DEF MergedWell
<1>7. CASE cs = <<>>
  <2> DEFINE c == <<p>>
  <2>1. c \in Seq(Piece) /\ <<c>> = Append(<<>>, c) /\ <<>> \in Seq(Seq(Piece)) /\ c # <<>> /\ Front(c) = <<>>
    BY DEF Front
  <2>2. L(c) = p /\ PieceWords(<<>>) = 0 /\ 0 <= Overlap
    BY PieceFacts, WordsFacts, ChunkerAssumption
  <2>3. Merged(cs, p) = <<c>>
    BY <1>7 DEF Merged
  <2> HIDE DEF c
  <2>4. ChunkIsSound(c)
    BY <2>1, <2>2 DEF ChunkIsSound
  <2>5. Neighbours(<<>>) /\ Held(<<>>) = {} /\ (Neighbours(Append(<<>>, c)) <=>
           Neighbours(<<>>) /\ ChunkIsSound(c) /\ (<<>> # <<>> => Follows(Last(<<>>), c)))
        /\ Held(Append(<<>>, c)) = Held(<<>>) \cup Range(L(c))
    BY <2>1, NeighboursAppend, Zenon
  <2>6. Range(<<c>>) = {c}
    BY <2>1, RangeFacts
  <2>7. Held(<<c>>) = R \cup Range(p)
    BY <1>4, <1>7, <2>1, <2>2, <2>5
  <2>8. Neighbours(<<c>>)
    BY <2>1, <2>4, <2>5
  <2> QED
    BY <1>6, <2>2, <2>3, <2>6, <2>7, <2>8
<1>8. CASE cs # <<>>
  <2> DEFINE F == Front(cs)
             c == Last(cs)
             g == Append(c, p)
             d == Carried(c)
             o == Append(d, p)
  <2>1. F \in Seq(Seq(Piece)) /\ c \in Seq(Piece) /\ c \in Range(cs) /\ cs = Append(F, c)
    BY <1>8, FrontLast, Zenon
  <2>2. /\ PieceWords(g) > ChunkSize => Merged(cs, p) = Append(cs, o)
        /\ ~(PieceWords(g) > ChunkSize) => Merged(cs, p) = Append(F, g)
    BY <1>8 DEF Merged
  <2> HIDE DEF F, c
  <2>3. /\ Neighbours(Append(F, c)) <=> Neighbours(F) /\ ChunkIsSound(c) /\ (F # <<>> => Follows(Last(F), c))
        /\ Held(Append(F, c)) = Held(F) \cup Range(L(c))
    BY <2>1, NeighboursAppend, Zenon
  <2>4. Neighbours(F) /\ ChunkIsSound(c) /\ (F # <<>> => Follows(Last(F), c)) /\ R = Held(F) \cup Range(L(c))
    BY <1>4, <2>1, <2>3
  <2>5. L(c) # <<>> /\ Inc(L(c)) /\ Precedes(Range(L(c)), Range(p))
    BY <1>4, <2>1, <2>4 DEF ChunkIsSound, Precedes, R
  <2>6. L(g) = L(c) \o p /\ L(c) \in Seq(Line) /\ PieceWords(g) = Words(L(g))
    BY <2>1, PieceFacts DEF Piece
  <2>7. Range(cs) = Range(F) \cup {c}
    BY <2>1, RangeFacts
  <2>8. CASE ~(PieceWords(g) > ChunkSize)
    <3>1. Inc(L(c) \o p)
      BY <1>1, <1>2, <2>5, <2>6, IncConcat
    <3>2. g # <<>> /\ g \in Seq(Piece) /\ L(c) \o p # <<>>
      <4>1. g # <<>> /\ g \in Seq(Piece)
        BY <2>1, LastAppended
      <4>2. L(c) \o p # <<>>
        BY <1>2, <2>6, LastAppended
      <4> QED
        BY <4>1, <4>2
    <3>3. ChunkIsSound(g)
      BY <2>6, <2>8, <3>1, <3>2 DEF ChunkIsSound
    <3>4. ASSUME F # <<>> PROVE Follows(Last(F), g)
      <4> DEFINE b == Last(F)
      <4>1. b \in Seq(Piece) /\ b \in Range(F)
        BY <2>1, <3>4, FrontLast, Zenon
      <4>2. Range(L(b)) \subseteq R
        BY <2>4, <4>1 DEF Held
      <4>3. Precedes(Range(L(b)), Range(p)) /\ Follows(b, c)
        BY <2>4, <3>4, <4>2 DEF Precedes, R
      <4> HIDE DEF b
      <4>4. Follows(b, Append(c, p))
        BY <2>1, <2>5, <4>1, <4>3, FollowsGrown
      <4> QED
        BY <4>4 DEF b
    <3> HIDE DEF g
    <3>5. /\ Neighbours(Append(F, g)) <=> Neighbours(F) /\ ChunkIsSound(g) /\ (F # <<>> => Follows(Last(F), g))
          /\ Held(Append(F, g)) = Held(F) \cup Range(L(g))
      BY <2>1, <3>2, NeighboursAppend, Zenon
    <3>6. Range(L(g)) = Range(L(c)) \cup Range(p)
      BY <1>2, <2>6, RangeFacts
    <3>7. Held(Append(F, g)) = R \cup Range(p)
      BY <2>4, <3>5, <3>6
    <3>8. Range(Append(F, g)) = Range(F) \cup {g}
      BY <2>1, <3>2, RangeFacts
    <3>9. \A x \in Range(Append(F, g)) : L(x) # <<>>
      BY <1>4, <2>6, <2>7, <3>2, <3>8
    <3>10. Neighbours(Append(F, g))
      BY <2>4, <3>3, <3>4, <3>5
    <3>11. Merged(cs, p) = Append(F, g)
      BY <2>2, <2>8
    <3> QED
      BY <1>6, <3>7, <3>9, <3>10, <3>11
  <2>9. CASE PieceWords(g) > ChunkSize
    <3>1. PICK k \in 1 .. Len(c) + 1 : d = SubSeq(c, k, Len(c)) /\ PieceWords(d) <= Overlap
      BY <2>1, CarriedFacts
    <3> HIDE DEF d
    <3>2. /\ d \in Seq(Piece) /\ Range(L(d)) \subseteq Range(L(c)) /\ Inc(L(d)) /\ Follows(c, o)
      BY <2>1, <2>5, <3>1, FollowsOpened
    <3>3. L(o) = L(d) \o p /\ L(d) \in Seq(Line)
      BY <3>2, PieceFacts DEF Piece
    <3>4. Inc(L(d) \o p) /\ L(d) \o p # <<>>
      <4>1. Precedes(Range(L(d)), Range(p))
        BY <2>5, <3>2 DEF Precedes
      <4>2. Inc(L(d) \o p)
        BY <1>1, <1>2, <3>2, <3>3, <4>1, IncConcat
      <4>3. L(d) \o p # <<>>
        BY <1>2, <3>3, LastAppended
      <4> QED
        BY <4>2, <4>3
    <3>5. o \in Seq(Piece) /\ o # <<>> /\ Front(o) = d
      BY <3>2, LastAppended
    <3>6. ChunkIsSound(o)
      BY <3>1, <3>3, <3>4, <3>5 DEF ChunkIsSound
    <3> HIDE DEF o
    <3>7. /\ Neighbours(Append(cs, o)) <=> Neighbours(cs) /\ ChunkIsSound(o) /\ (cs # <<>> => Follows(Last(cs), o))
          /\ Held(Append(cs, o)) = Held(cs) \cup Range(L(o))
      BY <3>5, NeighboursAppend, Zenon
    <3>8. Neighbours(Append(cs, o))
      BY <1>4, <3>2, <3>6, <3>7 DEF c
    <3>9. Range(L(o)) = Range(L(d)) \cup Range(p)
      BY <1>2, <3>3, RangeFacts
    <3>10. Held(Append(cs, o)) = R \cup Range(p)
      BY <1>4, <2>4, <3>2, <3>7, <3>9
    <3>11. Range(Append(cs, o)) = Range(cs) \cup {o}
      BY <3>5, RangeFacts
    <3>12. \A x \in Range(Append(cs, o)) : L(x) # <<>>
      BY <1>4, <3>3, <3>4, <3>11
    <3>13. Merged(cs, p) = Append(cs, o)
      BY <2>2, <2>9
    <3> QED
      BY <1>6, <3>8, <3>10, <3>12, <3>13
  <2> QED
    BY <2>8, <2>9
<1> QED
  BY <1>7, <1>8

\* The chunks of pieces in their order hold all their lines and no others.
LEMMA MergeSound ==
    ASSUME ChunkTypeOK, NEW ps, Ordered(ps)
    PROVE  MergeSplits(ps) \in Seq(Seq(Piece)) /\ MergedWell(ps, MergeSplits(ps))
<1> DEFINE S == {s \in Seq(Piece) : Ordered(s) => MergedWell(s, MergeSplits(s))}
<1>0. /\ MergeSplits(<<>>) = <<>>
      /\ \A s \in Seq(Piece) : MergeSplits(s) \in Seq(Seq(Piece))
      /\ \A s \in Seq(Piece), p \in Piece : MergeSplits(Append(s, p)) = Merged(MergeSplits(s), p)
  BY MergeAppend
<1>1. <<>> \in S
  <2>1. L(<<>>) = <<>> /\ Range(<<>>) = {} /\ <<>> \in Seq(Piece)
    BY PieceFacts, RangeFacts
  <2>2. Neighbours(<<>>) /\ Held(<<>>) = {}
    <3>1. <<>> \in Seq(Seq(Piece)) /\ <<>> \in Seq(Piece)
      OBVIOUS
    <3> QED
      BY <3>1, NeighboursAppend, Zenon
  <2> QED
    BY <1>0, <2>1, <2>2 DEF MergedWell
<1>2. ASSUME NEW s \in Seq(Piece), NEW p \in Piece, s \in S PROVE Append(s, p) \in S
  <2> SUFFICES ASSUME Ordered(Append(s, p)) PROVE MergedWell(Append(s, p), MergeSplits(Append(s, p)))
    OBVIOUS
  <2>1. Range(Append(s, p)) = Range(s) \cup {p}
    BY RangeFacts
  <2>2. L(Append(s, p)) = L(s) \o p /\ L(s) \in Seq(Line) /\ p \in Seq(Line)
    BY PieceFacts DEF Piece
  <2>3. Line \in SUBSET Nat
    BY LineFacts
  <2>4. Inc(L(s)) /\ Inc(p) /\ Precedes(Range(L(s)), Range(p))
    BY <2>2, <2>3, IncConcat DEF Ordered
  <2>5. Ordered(s) /\ p # <<>>
    BY <2>1, <2>4 DEF Ordered
  <2>6. MergedWell(s, MergeSplits(s))
    BY <1>2, <2>5
  <2> QED
    BY <1>0, <2>4, <2>5, <2>6, MergedStep
<1> HIDE DEF S
<1>3. Seq(Piece) \subseteq S
  BY <1>1, <1>2, SeqInduction
<1> QED
  BY <1>0, <1>3 DEF S, Ordered

\* One piece makes one chunk.
LEMMA MergeOne ==
    ASSUME ChunkTypeOK, NEW p \in Piece
    PROVE  MergeSplits(<<p>>) = << <<p>> >>
<1>1. <<p>> = Append(<<>>, p) /\ <<>> \in Seq(Piece)
  OBVIOUS
<1>2. MergeSplits(Append(<<>>, p)) = Merged(MergeSplits(<<>>), p) /\ MergeSplits(<<>>) = <<>>
  BY <1>1, MergeAppend
<1> QED
  BY <1>1, <1>2 DEF Merged

----------------------------------------------------------------------------
(* The text of chunks: their headings and their lines.                     *)

HeadLines(h) == IF h = 0 THEN <<>> ELSE <<h>>

\* No heading, or a line that is one.
Titled(h) == h = 0 \/ (h \in Line /\ text[h].kind = "heading")

ChunkFits(c) ==
    /\ ChunkIsSound(c.pieces) /\ Titled(c.heading)
    /\ \A i \in Range(L(c.pieces)) : StandsUnder(i, c.heading)

Repeats(c, d) == IF d.heading = c.heading THEN Words(HeadLines(d.heading)) ELSE 0

Continues(c, d) ==
    /\ TextOf(d) # <<>> /\ TextOf(c) # <<>> => Last(TextOf(d)) > Last(TextOf(c))
    /\ Words(Kept(TextOf(d), Line, Range(TextOf(c)))) <= Overlap + Repeats(c, d)

InARow(cl) ==
    /\ \A k \in DOMAIN cl : ChunkFits(cl[k])
    /\ \A k \in DOMAIN cl : k > 1 => Continues(cl[k - 1], cl[k])

LinesIn(cl) == UNION {Range(TextOf(c)) : c \in Range(cl)}

\* No chunks.
LEMMA EmptyRow == InARow(<<>>) /\ LinesIn(<<>>) = {} /\ <<>> \in Seq(Chunk)
BY RangeFacts DEF InARow, LinesIn

\* A heading as a sequence of lines.
LEMMA HeadLineFacts ==
    ASSUME ChunkTypeOK, NEW h, Titled(h)
    PROVE  /\ HeadLines(h) \in Seq(Line) /\ HeadLines(h) \in Piece /\ Inc(HeadLines(h)) /\ Words(HeadLines(h)) \in Nat
           /\ Range(HeadLines(h)) = IF h = 0 THEN {} ELSE {h}
<1>1. CASE h = 0
  <2>1. HeadLines(h) = <<>> /\ <<>> \in Seq(Line) /\ Range(<<>>) = {} /\ Inc(<<>>)
    BY <1>1, RangeFacts, IncFacts DEF HeadLines
  <2> QED
    BY <1>1, <2>1, WordsFacts DEF Piece
<1>2. CASE h # 0
  <2>1. HeadLines(h) = <<h>> /\ h \in Line
    BY <1>2 DEF HeadLines, Titled
  <2>2. <<h>> \in Seq(Line)
    BY <2>1
  <2>3. Range(<<h>>) = {h}
    BY <2>1, RangeFacts
  <2>4. Inc(<<h>>)
    BY IncFacts
  <2> QED
    BY <1>2, <2>1, <2>2, <2>3, <2>4, WordsFacts DEF Piece
<1> QED
  BY <1>1, <1>2

\* The text of a chunk is its heading and its lines.
LEMMA TextFacts ==
    ASSUME ChunkTypeOK, NEW c \in Chunk, Titled(c.heading)
    PROVE  /\ TextOf(c) = HeadLines(c.heading) \o L(c.pieces) /\ Heading(c) = HeadLines(c.heading)
           /\ LinesOf(c) = L(c.pieces) /\ L(c.pieces) \in Seq(Line) /\ TextOf(c) \in Seq(Line)
           /\ Range(TextOf(c)) = Range(HeadLines(c.heading)) \cup Range(L(c.pieces))
           /\ Words(TextOf(c)) = Words(HeadLines(c.heading)) + Words(L(c.pieces)) /\ Words(L(c.pieces)) \in Nat
<1>1. TextOf(c) = HeadLines(c.heading) \o L(c.pieces) /\ Heading(c) = HeadLines(c.heading) /\ LinesOf(c) = L(c.pieces)
  BY DEF TextOf, Heading, LinesOf, HeadLines, L
<1> DEFINE x == HeadLines(c.heading)
           y == L(c.pieces)
<1>2. x \in Seq(Line) /\ y \in Seq(Line)
  <2>1. c.pieces \in Seq(Piece)
    BY DEF Chunk
  <2> QED
    BY <2>1, HeadLineFacts, PieceFacts DEF Piece
<1> HIDE DEF x, y
<1>3. x \o y \in Seq(Line)
  BY <1>2, ConcatFacts
<1>4. Range(x \o y) = Range(x) \cup Range(y)
  BY <1>2, RangeFacts
<1>5. Words(x \o y) = Words(x) + Words(y) /\ Words(y) \in Nat
  BY <1>2, WordsFacts DEF Piece
<1> QED
  BY <1>1, <1>2, <1>3, <1>4, <1>5 DEF x, y

\* A chunk with its heading in front is in order and not too long.
LEMMA FittingText ==
    ASSUME ChunkTypeOK, NEW c \in Chunk, ChunkFits(c)
    PROVE  /\ Inc(TextOf(c))
           /\ Words(TextOf(c)) > ChunkSize + Words(HeadLines(c.heading)) => PieceWords(Front(c.pieces)) <= Overlap
<1> DEFINE x == HeadLines(c.heading)
           y == L(c.pieces)
<1>1. /\ Titled(c.heading) /\ ChunkIsSound(c.pieces)
      /\ \A i \in Range(y) : StandsUnder(i, c.heading)
  BY DEF ChunkFits
<1>2. /\ x \in Seq(Line) /\ y \in Seq(Line) /\ TextOf(c) = x \o y /\ Line \in SUBSET Nat /\ Inc(x) /\ Inc(y)
      /\ Range(x) = IF c.heading = 0 THEN {} ELSE {c.heading}
  BY <1>1, HeadLineFacts, TextFacts, LineFacts DEF ChunkIsSound
<1>3. Precedes(Range(x), Range(y))
  BY <1>1, <1>2 DEF Precedes, StandsUnder
<1>4. Inc(TextOf(c))
  <2> HIDE DEF x, y
  <2>1. Inc(x \o y)
    BY <1>2, <1>3, IncConcat
  <2> QED
    BY <1>2, <2>1
<1>5. Words(TextOf(c)) = Words(x) + Words(y) /\ Words(x) \in Nat /\ Words(y) \in Nat
  BY <1>1, TextFacts, HeadLineFacts
<1>6. Words(TextOf(c)) > ChunkSize + Words(x) => Words(y) > ChunkSize
  BY <1>5, ChunkerAssumption
<1> QED
  BY <1>1, <1>4, <1>6 DEF ChunkIsSound

\* Under the same heading, what is repeated of a chunk is its end and the heading.
LEMMA SameHeading ==
    ASSUME ChunkTypeOK, NEW c \in Chunk, NEW d \in Chunk, c.heading = d.heading, Titled(d.heading),
           \A i \in Range(L(c.pieces)) \cup Range(L(d.pieces)) : StandsUnder(i, d.heading),
           Follows(c.pieces, d.pieces), L(c.pieces) # <<>>, L(d.pieces) # <<>>
    PROVE  Continues(c, d)
<1> DEFINE x == HeadLines(d.heading)
           y == L(c.pieces)
           z == L(d.pieces)
           R == Range(TextOf(c))
<1>1. /\ x \in Seq(Line) /\ y \in Seq(Line) /\ z \in Seq(Line) /\ y # <<>> /\ z # <<>>
      /\ TextOf(c) = x \o y /\ TextOf(d) = x \o z /\ R = Range(x) \cup Range(y)
  BY HeadLineFacts, TextFacts
<1>2. Last(z) > Last(y) /\ Words(Kept(z, Line, Range(y))) <= Overlap
  BY DEF Follows
<1>3. Range(z) \cap R = Range(z) \cap Range(y)
  <2> SUFFICES ASSUME NEW i \in Range(z), i \in Range(x) PROVE FALSE
    BY <1>1
  <2>1. i = d.heading /\ d.heading \in Nat
    BY HeadLineFacts, LineFacts DEF Titled
  <2>2. StandsUnder(i, d.heading)
    OBVIOUS
  <2> QED
    BY <2>1, <2>2 DEF StandsUnder
<1>4. Repeats(c, d) = Words(x) /\ Words(x) \in Nat
  BY HeadLineFacts DEF Repeats
<1> HIDE DEF x, y, z, R
<1>5. Last(x \o y) = Last(y) /\ Last(x \o z) = Last(z)
  BY <1>1, LastAppended
<1>6. Selects(Line, R)
  BY KeptFacts
<1>7. Kept(x \o z, Line, R) = Kept(x, Line, R) \o Kept(z, Line, R) /\ Kept(x, Line, R) = x /\ Kept(z, Line, R) \in Seq(Line)
  BY <1>1, <1>6 DEF Selects
<1>8. Kept(z, Line, R) = Kept(z, Line, Range(y))
  <2> DEFINE S == Range(y)
  <2> HIDE DEF S
  <2>1. \A s \in Seq(Line) : Range(s) \cap R = Range(s) \cap S => Kept(s, Line, R) = Kept(s, Line, S)
    BY KeptSame
  <2> QED
    BY <1>1, <1>3, <2>1 DEF S
<1> DEFINE k == Kept(z, Line, R)
<1>9. Words(x \o k) = Words(x) + Words(k) /\ Words(k) \in Nat
  <2>1. k \in Piece /\ x \in Piece
    BY <1>1, <1>7 DEF Piece
  <2> HIDE DEF k
  <2> QED
    BY <2>1, WordsFacts
<1>10. Words(k) <= Overlap
  BY <1>2, <1>8
<1>11. Words(Kept(TextOf(d), Line, R)) = Words(x) + Words(k)
  BY <1>1, <1>7, <1>9
<1> HIDE DEF k
<1>12. Words(Kept(TextOf(d), Line, R)) <= Overlap + Repeats(c, d)
  BY <1>4, <1>9, <1>10, <1>11, ChunkerAssumption
<1> QED
  BY <1>1, <1>2, <1>5, <1>12 DEF Continues, R

\* A chunk whose text comes later than that of another repeats nothing of it.
LEMMA ApartContinues ==
    ASSUME ChunkTypeOK, NEW c \in Chunk, NEW d \in Chunk, Titled(c.heading), Titled(d.heading),
           Precedes(Range(TextOf(c)), Range(TextOf(d)))
    PROVE  Continues(c, d)
<1> DEFINE x == TextOf(c)
           y == TextOf(d)
           R == Range(x)
<1>1. x \in Seq(Line) /\ y \in Seq(Line) /\ Line \in SUBSET Nat /\ Precedes(R, Range(y))
  BY TextFacts, LineFacts
<1>2. Repeats(c, d) \in Nat
  BY HeadLineFacts DEF Repeats
<1> HIDE DEF x, y
<1>3. Range(y) \cap R = {}
  <2> SUFFICES ASSUME NEW i \in Range(y), i \in R PROVE FALSE
    OBVIOUS
  <2>1. i \in Line
    BY <1>1, RangeFacts
  <2> QED
    BY <1>1, <2>1 DEF Precedes
<1>4. ASSUME y # <<>>, x # <<>> PROVE Last(y) > Last(x)
  <2>1. Last(x) \in R /\ Last(y) \in Range(y) /\ Last(x) \in Line /\ Last(y) \in Line
    BY <1>1, <1>4, FrontLast, Zenon
  <2> QED
    BY <1>1, <2>1 DEF Precedes
<1> HIDE DEF R
<1>5. Selects(Line, R)
  BY KeptFacts
<1>6. Kept(y, Line, R) = <<>>
  BY <1>1, <1>3, <1>5 DEF Selects
<1>7. Words(Kept(y, Line, R)) = 0
  BY <1>6, WordsFacts
<1>8. Words(Kept(y, Line, R)) <= Overlap + Repeats(c, d)
  BY <1>2, <1>7, ChunkerAssumption
<1> QED
  BY <1>4, <1>8 DEF Continues, x, y, R

\* Chunks after others whose text comes earlier.
LEMMA RowConcat ==
    ASSUME ChunkTypeOK, NEW cl \in Seq(Chunk), NEW dl \in Seq(Chunk),
           InARow(cl), InARow(dl), Precedes(LinesIn(cl), LinesIn(dl))
    PROVE  InARow(cl \o dl) /\ LinesIn(cl \o dl) = LinesIn(cl) \cup LinesIn(dl)
<1> DEFINE es == cl \o dl
           n == Len(cl)
           m == Len(dl)
<1>1. /\ n \in Nat /\ m \in Nat /\ DOMAIN cl = 1 .. n /\ DOMAIN dl = 1 .. m /\ DOMAIN es = 1 .. n + m
      /\ \A k \in 1 .. n : es[k] = cl[k] /\ cl[k] \in Chunk
      /\ \A k \in 1 .. m : es[n + k] = dl[k] /\ dl[k] \in Chunk
  OBVIOUS
<1>2. Range(es) = Range(cl) \cup Range(dl)
  BY RangeFacts
<1> HIDE DEF es, n, m
<1>3. LinesIn(es) = LinesIn(cl) \cup LinesIn(dl)
  BY <1>2 DEF LinesIn
<1>4. ASSUME NEW k \in 1 .. n + m PROVE ChunkFits(es[k]) /\ (k > 1 => Continues(es[k - 1], es[k]))
  <2>1. CASE k <= n
    <3>1. k \in 1 .. n /\ (k > 1 => k - 1 \in 1 .. n)
      BY <1>1, <2>1
    <3>2. ChunkFits(cl[k]) /\ (k > 1 => Continues(cl[k - 1], cl[k]))
      BY <1>1, <3>1 DEF InARow
    <3> QED
      BY <1>1, <3>1, <3>2
  <2>2. CASE k > n
    <3> DEFINE j == k - n
    <3>1. j \in 1 .. m /\ n + j = k
      BY <1>1, <2>2
    <3>2. es[k] = dl[j] /\ ChunkFits(dl[j]) /\ (j > 1 => Continues(dl[j - 1], dl[j]))
      BY <1>1, <3>1 DEF InARow
    <3>3. CASE j > 1
      <4>1. j - 1 \in 1 .. m /\ n + (j - 1) = k - 1
        BY <1>1, <3>1, <3>3
      <4>2. es[k - 1] = dl[j - 1]
        BY <1>1, <4>1
      <4> QED
        BY <3>2, <3>3, <4>2
    <3>4. CASE k > 1 /\ ~(j > 1)
      <4>1. n \in 1 .. n /\ k - 1 = n
        BY <1>1, <3>1, <3>4
      <4>2. /\ es[k - 1] = cl[n] /\ cl[n] \in Range(cl) /\ dl[j] \in Range(dl)
            /\ ChunkFits(cl[n]) /\ cl[n] \in Chunk /\ dl[j] \in Chunk
        BY <1>1, <3>1, <4>1 DEF Range, InARow
      <4>3. Precedes(Range(TextOf(cl[n])), Range(TextOf(dl[j])))
        BY <4>2 DEF Precedes, LinesIn
      <4>4. Continues(cl[n], dl[j])
        BY <3>2, <4>2, <4>3, ApartContinues DEF ChunkFits
      <4> QED
        BY <3>2, <4>2, <4>4
    <3>5. CASE ~(k > 1)
      BY <3>2, <3>5
    <3> QED
      BY <3>2, <3>3, <3>4, <3>5
  <2> QED
    BY <1>1, <2>1, <2>2
<1>5. InARow(es)
  BY <1>1, <1>4 DEF InARow
<1> QED
  BY <1>3, <1>5 DEF es

\* Chunks under one heading.
Headed(h, cs) == [k \in DOMAIN cs |-> [heading |-> h, pieces |-> cs[k]]]

\* Putting a heading on chunks.
LEMMA HeadedFacts ==
    ASSUME NEW h \in Nat, NEW cs \in Seq(Seq(Piece))
    PROVE  /\ Headed(h, cs) \in Seq(Chunk) /\ DOMAIN Headed(h, cs) = DOMAIN cs
           /\ \A k \in DOMAIN cs : /\ Headed(h, cs)[k] \in Chunk
                                   /\ Headed(h, cs)[k].heading = h /\ Headed(h, cs)[k].pieces = cs[k]
           /\ \A c \in Range(cs) : [heading |-> h, pieces |-> c] \in Range(Headed(h, cs))
<1> DEFINE B == Seq(Piece)
           cl == Headed(h, cs)
<1>1. \A c \in B : [heading |-> h, pieces |-> c] \in Chunk
  BY DEF Chunk
<1> HIDE DEF B
<1>2. cs \in Seq(B)
  BY DEF B
<1>3. DOMAIN cs = 1 .. Len(cs) /\ Len(cs) \in Nat /\ \A k \in 1 .. Len(cs) : cs[k] \in B
  BY <1>2
<1>4. cl = [k \in 1 .. Len(cs) |-> [heading |-> h, pieces |-> cs[k]]]
  BY <1>3 DEF Headed
<1>5. \A k \in 1 .. Len(cs) : [heading |-> h, pieces |-> cs[k]] \in Chunk
  BY <1>1, <1>3
<1>6. cl \in Seq(Chunk)
  <2> DEFINE C == Chunk
             d == [k \in 1 .. Len(cs) |-> [heading |-> h, pieces |-> cs[k]]]
  <2>1. \A k \in 1 .. Len(cs) : d[k] \in C
    BY <1>5
  <2> HIDE DEF C
  <2>2. d \in [1 .. Len(cs) -> C]
    BY <2>1
  <2> HIDE DEF d
  <2>3. d \in Seq(C)
    BY <1>3, <2>2
  <2> QED
    BY <1>4, <2>3 DEF C, d
<1>7. \A k \in DOMAIN cs : cl[k] \in Chunk /\ cl[k].heading = h /\ cl[k].pieces = cs[k]
  BY <1>3, <1>4, <1>5
<1>8. \A c \in Range(cs) : [heading |-> h, pieces |-> c] \in Range(cl)
  BY DEF Range, Headed
<1>9. DOMAIN cl = DOMAIN cs
  BY DEF Headed
<1> QED
  BY <1>6, <1>7, <1>8, <1>9

\* Chunks of the lines under one heading.
LEMMA HeadedRow ==
    ASSUME ChunkTypeOK, NEW h \in Nat, Titled(h), NEW cs \in Seq(Seq(Piece)), Neighbours(cs),
           \A i \in Held(cs) : StandsUnder(i, h),
           Len(cs) <= 1 \/ \A c \in Range(cs) : L(c) # <<>>
    PROVE  InARow(Headed(h, cs)) /\ LinesIn(Headed(h, cs)) \subseteq Range(HeadLines(h)) \cup Held(cs)
<1> DEFINE cl == Headed(h, cs)
<1>1. /\ DOMAIN cl = DOMAIN cs /\ DOMAIN cs = 1 .. Len(cs) /\ Len(cs) \in Nat
      /\ \A k \in DOMAIN cs : cl[k] \in Chunk /\ cl[k].heading = h /\ cl[k].pieces = cs[k]
  BY HeadedFacts
<1> HIDE DEF cl
<1>2. \A k \in DOMAIN cs : Range(L(cs[k])) \subseteq Held(cs) /\ cs[k] \in Range(cs)
  BY DEF Held, Range
<1>3. ASSUME NEW k \in DOMAIN cs
      PROVE  ChunkFits(cl[k]) /\ Range(TextOf(cl[k])) \subseteq Range(HeadLines(h)) \cup Held(cs)
  <2>1. ChunkFits(cl[k])
    BY <1>1, <1>2 DEF ChunkFits, Neighbours
  <2> QED
    BY <1>1, <1>2, <2>1, TextFacts
<1>4. ASSUME NEW k \in DOMAIN cs, k > 1 PROVE Continues(cl[k - 1], cl[k])
  <2>1. k - 1 \in DOMAIN cs /\ ~(Len(cs) <= 1)
    BY <1>1, <1>4
  <2>2. Follows(cs[k - 1], cs[k]) /\ L(cs[k - 1]) # <<>> /\ L(cs[k]) # <<>>
    BY <1>2, <1>4, <2>1 DEF Neighbours
  <2> QED
    BY <1>1, <1>2, <2>1, <2>2, SameHeading
<1>5. LinesIn(cl) \subseteq Range(HeadLines(h)) \cup Held(cs)
  <2> SUFFICES ASSUME NEW c \in Range(cl) PROVE Range(TextOf(c)) \subseteq Range(HeadLines(h)) \cup Held(cs)
    BY DEF LinesIn
  <2>1. PICK k \in DOMAIN cs : c = cl[k]
    BY <1>1 DEF Range
  <2> QED
    BY <1>3, <2>1
<1> QED
  BY <1>1, <1>3, <1>4, <1>5 DEF InARow, cl

\* What the property says of the chunks of a document.
InAChunk(cl, i) == \E c \in Range(cl) : c.heading = i \/ i \in Range(L(c.pieces))

Covers(cl) == \A i \in Line : IsBlank(i) \/ LostHeading(i) \/ InAChunk(cl, i)

\* The property, from what is shown of the chunks below.
LEMMA SoundWhen ==
    ASSUME ChunkTypeOK, Chunks \in Seq(Chunk), InARow(Chunks), Covers(Chunks)
    PROVE  ChunksAreSound
<1> DEFINE cl == Chunks
<1>1. /\ DOMAIN cl = 1 .. Len(cl) /\ Len(cl) \in Nat
      /\ \A k \in DOMAIN cl : cl[k] \in Chunk /\ ChunkFits(cl[k]) /\ Titled(cl[k].heading)
  <2>1. cl \in Seq(Chunk) /\ InARow(cl)
    OBVIOUS
  <2> HIDE DEF cl
  <2> DEFINE C == Chunk
  <2> HIDE DEF C
  <2>2. DOMAIN cl = 1 .. Len(cl) /\ Len(cl) \in Nat /\ \A k \in DOMAIN cl : cl[k] \in C
    BY <2>1 DEF C
  <2> QED
    BY <2>1, <2>2 DEF InARow, ChunkFits, C
<1>2. \A i \in Line : IsBlank(i) \/ LostHeading(i) \/ \E k \in DOMAIN cl : i \in Range(TextOf(cl[k]))
  <2> SUFFICES ASSUME NEW i \in Line, ~IsBlank(i), ~LostHeading(i)
               PROVE  \E k \in DOMAIN cl : i \in Range(TextOf(cl[k]))
    OBVIOUS
  <2>1. PICK c \in Range(cl) : c.heading = i \/ i \in Range(L(c.pieces))
    BY DEF Covers, InAChunk
  <2>2. PICK k \in DOMAIN cl : c = cl[k]
    BY DEF Range
  <2> HIDE DEF cl
  <2>3. i # 0
    BY LineFacts
  <2>4. i \in Range(TextOf(cl[k]))
    BY <1>1, <2>1, <2>2, <2>3, TextFacts, HeadLineFacts
  <2> QED
    BY <2>4
<1>3. \A k \in DOMAIN cl : k > 1 => k - 1 \in DOMAIN cl /\ Continues(cl[k - 1], cl[k])
  BY <1>1 DEF InARow
<1> HIDE DEF cl
<1>4. ASSUME NEW k \in DOMAIN cl
      PROVE  LET whole == TextOf(cl[k]) IN
             /\ \A m \in 1..(Len(whole) - 1) : whole[m] < whole[m + 1]
             /\ \A i \in Range(LinesOf(cl[k])) : StandsUnder(i, cl[k].heading)
             /\ Words(whole) > ChunkSize + Words(Heading(cl[k])) => PieceWords(Front(cl[k].pieces)) <= Overlap
             /\ k > 1 =>
                   /\ whole # <<>> /\ TextOf(cl[k - 1]) # <<>> => Last(whole) > Last(TextOf(cl[k - 1]))
                   /\ Words(Kept(whole, Line, Range(TextOf(cl[k - 1])))) <=
                        Overlap + IF cl[k].heading = cl[k - 1].heading THEN Words(Heading(cl[k])) ELSE 0
  <2> DEFINE whole == TextOf(cl[k])
  <2>1. whole \in Seq(Line) /\ LinesOf(cl[k]) = L(cl[k].pieces) /\ Heading(cl[k]) = HeadLines(cl[k].heading)
    BY <1>1, TextFacts
  <2>2. Inc(whole) /\ (Words(whole) > ChunkSize + Words(HeadLines(cl[k].heading)) => PieceWords(Front(cl[k].pieces)) <= Overlap)
    BY <1>1, FittingText
  <2>3. \A i \in Range(LinesOf(cl[k])) : StandsUnder(i, cl[k].heading)
    BY <1>1, <2>1 DEF ChunkFits
  <2>4. k > 1 => Continues(cl[k - 1], cl[k])
    BY <1>3
  <2>5. Line \in SUBSET Nat
    BY LineFacts
  <2> HIDE DEF whole
  <2>6. \A m \in 1..(Len(whole) - 1) : whole[m] < whole[m + 1]
    BY <2>1, <2>2, <2>5, IncNext
  <2> QED
    BY <2>1, <2>2, <2>3, <2>4, <2>6 DEF Continues, Repeats, whole
<1> QED
  BY <1>2, <1>4 DEF ChunksAreSound, cl

\* A line of chunks is in one of them, whatever their heading.
LEMMA HeadedHolds ==
    ASSUME NEW h \in Nat, NEW cs \in Seq(Seq(Piece))
    PROVE  \A i \in Held(cs) : InAChunk(Headed(h, cs), i)
<1> SUFFICES ASSUME NEW i \in Held(cs) PROVE InAChunk(Headed(h, cs), i)
  OBVIOUS
<1>1. PICK c \in Range(cs) : i \in Range(L(c))
  BY DEF Held
<1>2. [heading |-> h, pieces |-> c] \in Range(Headed(h, cs))
  BY <1>1, HeadedFacts
<1>3. [heading |-> h, pieces |-> c].pieces = c
  OBVIOUS
<1> HIDE DEF Headed
<1> QED
  BY <1>1, <1>2, <1>3 DEF InAChunk

\* In a document that is not Markdown no line is a heading.
LEMMA NoHeading ==
    ASSUME ChunkTypeOK, docKind # "markdown"
    PROVE  Titled(0) /\ \A i \in Line : StandsUnder(i, 0)
<1>1. docKind \in {"plain", "python", "code"} /\ "heading" \notin LineKinds[docKind]
  BY DEF ChunkTypeOK, LineKinds
<1>2. Line = 1 .. Len(text) /\ Len(text) \in Nat /\ \A j \in Line : text[j].kind \in LineKinds[docKind]
  BY LineFacts
<1>3. ASSUME NEW i \in Line PROVE StandsUnder(i, 0)
  <2>1. 0 < i /\ \A j \in (0 + 1) .. i : j \in Line
    BY <1>2
  <2> QED
    BY <1>1, <1>2, <2>1 DEF StandsUnder
<1> QED
  BY <1>3 DEF Titled

\* The chunks of pieces in their order.
LEMMA PlainSound ==
    ASSUME ChunkTypeOK, docKind # "markdown", NEW ps, Ordered(ps)
    PROVE  /\ Plain(ps) \in Seq(Chunk) /\ InARow(Plain(ps))
           /\ \A i \in Range(L(ps)) : InAChunk(Plain(ps), i)
<1> DEFINE cs == MergeSplits(ps)
<1>1. cs \in Seq(Seq(Piece)) /\ Neighbours(cs) /\ Held(cs) = Range(L(ps)) /\ \A c \in Range(cs) : L(c) # <<>>
  BY MergeSound DEF MergedWell
<1>2. Plain(ps) = Headed(0, cs)
  BY DEF Plain, Headed
<1> HIDE DEF cs
<1>3. Titled(0) /\ \A i \in Held(cs) : StandsUnder(i, 0)
  <2>1. L(ps) \in Seq(Line)
    BY PieceFacts DEF Ordered, Piece
  <2>2. Range(L(ps)) \subseteq Line
    BY <2>1, RangeFacts
  <2> QED
    BY <1>1, <2>2, NoHeading
<1>4. Headed(0, cs) \in Seq(Chunk) /\ InARow(Headed(0, cs)) /\ \A i \in Held(cs) : InAChunk(Headed(0, cs), i)
  <2>1. 0 \in Nat
    OBVIOUS
  <2> QED
    BY <1>1, <1>3, <2>1, HeadedFacts, HeadedHolds, HeadedRow
<1> QED
  BY <1>1, <1>2, <1>4

\* One piece makes one chunk, even when it is empty.
LEMMA PlainOne ==
    ASSUME ChunkTypeOK, docKind # "markdown", NEW p \in Piece, Inc(p)
    PROVE  /\ Plain(<<p>>) \in Seq(Chunk) /\ InARow(Plain(<<p>>))
           /\ \A i \in Range(p) : InAChunk(Plain(<<p>>), i)
<1> DEFINE c == <<p>>
           cs == <<c>>
<1>1. /\ c \in Seq(Piece) /\ cs \in Seq(Seq(Piece)) /\ c # <<>> /\ cs = Append(<<>>, c) /\ <<>> \in Seq(Seq(Piece))
      /\ Len(cs) <= 1
  OBVIOUS
<1>2. L(c) = p
  BY PieceFacts
<1>3. Front(c) = <<>>
  BY DEF Front
<1>4. L(<<>>) = <<>> /\ PieceWords(<<>>) = Words(L(<<>>)) /\ Words(<<>>) = 0
  BY PieceFacts, WordsFacts
<1>5. ChunkIsSound(c)
  BY <1>1, <1>2, <1>3, <1>4, ChunkerAssumption DEF ChunkIsSound
<1>6. MergeSplits(<<p>>) = cs
  BY MergeOne
<1> HIDE DEF c
<1>7. Neighbours(Append(<<>>, c)) /\ Held(Append(<<>>, c)) = {} \cup Range(L(c))
  BY <1>1, <1>5, NeighboursAppend, Zenon
<1>8. Plain(<<p>>) = Headed(0, cs)
  BY <1>6 DEF Plain, Headed
<1> HIDE DEF cs
<1>9. Titled(0) /\ \A i \in Held(cs) : StandsUnder(i, 0)
  <2>1. Range(p) \subseteq Line
    BY RangeFacts DEF Piece
  <2> QED
    BY <1>1, <1>2, <1>7, <2>1, NoHeading
<1>10. Headed(0, cs) \in Seq(Chunk) /\ InARow(Headed(0, cs)) /\ \A i \in Held(cs) : InAChunk(Headed(0, cs), i)
  <2>1. 0 \in Nat
    OBVIOUS
  <2> QED
    BY <1>1, <1>7, <1>9, <2>1, HeadedFacts, HeadedHolds, HeadedRow
<1> QED
  BY <1>1, <1>2, <1>7, <1>8, <1>10

\* Dropping pieces keeps the order.
LEMMA KeptInOrder ==
    ASSUME ChunkTypeOK, NEW S, NEW ps \in Seq(Piece), Inc(L(ps))
    PROVE  Inc(L(Kept(ps, Piece, S))) /\ Range(L(Kept(ps, Piece, S))) \subseteq Range(L(ps))
<1> DEFINE K(s) == Kept(s, Piece, S)
           P(s) == Inc(L(s)) => Inc(L(K(s))) /\ Range(L(K(s))) \subseteq Range(L(s))
           T == {s \in Seq(Piece) : P(s)}
<1>0. Selects(Piece, S)
  BY KeptFacts
<1>1. <<>> \in T
  <2>1. K(<<>>) = <<>> /\ <<>> \in Seq(Piece)
    BY <1>0 DEF Selects
  <2> QED
    BY <2>1
<1>2. ASSUME NEW s \in Seq(Piece), NEW p \in Piece, s \in T PROVE Append(s, p) \in T
  <2>1. /\ K(s) \in Seq(Piece) /\ P(s)
        /\ K(Append(s, p)) = IF p \in S THEN Append(K(s), p) ELSE K(s)
    BY <1>0, <1>2 DEF Selects
  <2> HIDE DEF K
  <2>2. /\ L(Append(s, p)) = L(s) \o p /\ L(Append(K(s), p)) = L(K(s)) \o p
        /\ L(s) \in Seq(Line) /\ L(K(s)) \in Seq(Line) /\ p \in Seq(Line) /\ Line \in SUBSET Nat
    BY <2>1, PieceFacts, LineFacts DEF Piece
  <2>3. P(Append(s, p))
    <3> SUFFICES ASSUME Inc(L(Append(s, p)))
                 PROVE  Inc(L(K(Append(s, p)))) /\ Range(L(K(Append(s, p)))) \subseteq Range(L(Append(s, p)))
      OBVIOUS
    <3>1. Inc(L(s)) /\ Inc(p) /\ Precedes(Range(L(s)), Range(p))
      BY <2>2, IncConcat
    <3>2. Inc(L(K(s))) /\ Range(L(K(s))) \subseteq Range(L(s))
      BY <2>1, <3>1
    <3>3. Precedes(Range(L(K(s))), Range(p))
      BY <3>1, <3>2 DEF Precedes
    <3>4. Inc(L(K(s)) \o p)
      BY <2>2, <3>1, <3>2, <3>3, IncConcat
    <3>5. /\ Range(L(s) \o p) = Range(L(s)) \cup Range(p)
          /\ Range(L(K(s)) \o p) = Range(L(K(s))) \cup Range(p)
      BY <2>2, RangeFacts
    <3> QED
      BY <2>1, <2>2, <3>2, <3>4, <3>5
  <2> HIDE DEF P
  <2>4. Append(s, p) \in Seq(Piece)
    OBVIOUS
  <2> QED
    BY <2>3, <2>4
<1> HIDE DEF T, P
<1>3. Seq(Piece) \subseteq T
  BY <1>1, <1>2, SeqInduction
<1>4. P(ps)
  BY <1>3 DEF T
<1> QED
  BY <1>4 DEF P

\* The lines of the document.
LEMMA LinesFacts ==
    ASSUME ChunkTypeOK
    PROVE  Lines \in Piece /\ Inc(Lines) /\ Range(Lines) = Line
<1>1. Line = 1 .. Len(text) /\ Len(text) \in Nat
  BY LineFacts
<1>2. Lines = [i \in 1 .. Len(text) |-> i]
  BY <1>1 DEF Lines
<1>3. Lines \in Seq(1 .. Len(text))
  BY <1>1, <1>2
<1> QED
  BY <1>1, <1>2, <1>3 DEF Piece, Inc, Range

\* The segments of the lines so far.
Segments(cuts, s) ==
    LET Add(i, segments) ==
            IF segments = <<>> \/ i \in cuts THEN Append(segments, <<i>>)
            ELSE [segments EXCEPT ![Len(segments)] = Append(@, i)]
    IN  Fold([i \in Line |-> [segments \in Seq(Piece) |-> Add(i, segments)]], <<>>, s)

Segmented(cuts) ==
    /\ Segments(cuts, <<>>) = <<>>
    /\ \A s \in Seq(Line) : Segments(cuts, s) \in Seq(Piece)
    /\ \A s \in Seq(Line), i \in Line :
          Segments(cuts, Append(s, i)) =
             IF Segments(cuts, s) = <<>> \/ i \in cuts THEN Append(Segments(cuts, s), <<i>>)
             ELSE Append(Front(Segments(cuts, s)), Append(Last(Segments(cuts, s)), i))

\* The segments, line by line.
LEMMA SegmentsAppend ==
    ASSUME NEW cuts
    PROVE  Segmented(cuts)
<1> DEFINE D == Seq(Piece)
           f == [i \in Line |-> [segments \in D |->
                   IF segments = <<>> \/ i \in cuts THEN Append(segments, <<i>>)
                   ELSE [segments EXCEPT ![Len(segments)] = Append(@, i)]]]
           Added(i, g) == IF g = <<>> \/ i \in cuts THEN Append(g, <<i>>)
                          ELSE Append(Front(g), Append(Last(g), i))
           z == <<>>
           H(s) == Segments(cuts, s)
<1>1. ASSUME NEW i \in Line, NEW g \in D PROVE f[i][g] = Added(i, g) /\ Added(i, g) \in D
  <2>1. CASE g = <<>> \/ i \in cuts
    <3>1. <<i>> \in Piece
      BY DEF Piece
    <3> HIDE DEF Line
    <3>2. Append(g, <<i>>) \in D
      BY <3>1
    <3> QED
      BY <2>1, <3>2
  <2>2. CASE ~(g = <<>> \/ i \in cuts)
    <3>1. /\ Front(g) \in D /\ Last(g) \in Piece
          /\ \A a : [g EXCEPT ![Len(g)] = a] = Append(Front(g), a)
      BY <2>2, FrontLast, Zenon
    <3>2. Append(Last(g), i) \in Piece
      BY <3>1 DEF Piece
    <3>3. Append(Front(g), Append(Last(g), i)) \in D
      BY <3>1, <3>2
    <3>4. [g EXCEPT ![Len(g)] = Append(@, i)] = [g EXCEPT ![Len(g)] = Append(g[Len(g)], i)]
      OBVIOUS
    <3>5. g[Len(g)] = Last(g)
      BY DEF Last
    <3>6. [g EXCEPT ![Len(g)] = Append(@, i)] = Append(Front(g), Append(Last(g), i))
      BY <3>1, <3>4, <3>5
    <3> QED
      BY <2>2, <3>3, <3>6
  <2> QED
    BY <2>1, <2>2
<1>2. f \in [Line -> [D -> D]]
  <2>1. \A i \in Line : f[i] = [g \in D |-> f[i][g]]
    OBVIOUS
  <2>2. \A i \in Line, g \in D : f[i][g] \in D
    BY <1>1
  <2>3. \A i \in Line : f[i] \in [D -> D]
    BY <2>1, <2>2
  <2> QED
    BY <2>3
<1>3. z \in D
  OBVIOUS
<1>4. \A s : H(s) = Fold(f, z, s)
  BY DEF Segments
<1> HIDE DEF f, D, z, H
<1>5. /\ Fold(f, z, <<>>) = z
      /\ \A s \in Seq(Line) : Fold(f, z, s) \in D
      /\ \A s \in Seq(Line), i \in Line : Fold(f, z, Append(s, i)) = f[i][Fold(f, z, s)]
  BY <1>2, <1>3, FoldAppend
<1>6. \A s \in Seq(Line), i \in Line : H(Append(s, i)) = Added(i, H(s))
  BY <1>1, <1>4, <1>5
<1>7. H(<<>>) = z /\ \A s \in Seq(Line) : H(s) \in D
  BY <1>4, <1>5
<1> QED
  BY <1>6, <1>7 DEF H, D, z, Segmented

\* No line is lost or moved by cutting.
LEMMA SegmentsLines ==
    ASSUME NEW cuts, NEW s \in Piece
    PROVE  L(Segments(cuts, s)) = s /\ <<>> \notin Range(Segments(cuts, s))
<1> DEFINE H(t) == Segments(cuts, t)
           P(t) == L(H(t)) = t /\ <<>> \notin Range(H(t))
           T == {t \in Seq(Line) : P(t)}
<1>0. /\ H(<<>>) = <<>>
      /\ \A t \in Seq(Line) : H(t) \in Seq(Piece)
      /\ \A t \in Seq(Line), i \in Line :
            H(Append(t, i)) = IF H(t) = <<>> \/ i \in cuts THEN Append(H(t), <<i>>)
                              ELSE Append(Front(H(t)), Append(Last(H(t)), i))
  <2>1. Segmented(cuts)
    BY SegmentsAppend
  <2> QED
    BY <2>1 DEF Segmented
<1>1. <<>> \in T
  BY <1>0, PieceFacts, RangeFacts
<1> HIDE DEF H
<1>2. ASSUME NEW t \in Seq(Line), NEW i \in Line, t \in T PROVE Append(t, i) \in T
  <2> DEFINE g == H(t)
             a == Append(t, i)
  <2>1. g \in Seq(Piece) /\ L(g) = t /\ <<>> \notin Range(g)
    BY <1>0, <1>2 DEF Piece
  <2>2. t \in Piece /\ <<i>> \in Piece /\ a \in Seq(Line) /\ a = t \o <<i>> /\ <<i>> # <<>>
    BY DEF Piece
  <2>3. H(a) = IF g = <<>> \/ i \in cuts THEN Append(g, <<i>>) ELSE Append(Front(g), Append(Last(g), i))
    BY <1>0, <2>2
  <2> HIDE DEF g
  <2>4. CASE g = <<>> \/ i \in cuts
    <3>1. L(Append(g, <<i>>)) = L(g) \o <<i>>
      BY <2>1, <2>2, PieceFacts
    <3>2. Range(Append(g, <<i>>)) = Range(g) \cup {<<i>>}
      BY <2>1, <2>2, RangeFacts
    <3>3. L(H(a)) = a
      BY <2>1, <2>2, <2>3, <2>4, <3>1
    <3>4. <<>> \notin Range(H(a))
      BY <2>1, <2>2, <2>3, <2>4, <3>2
    <3> QED
      BY <2>2, <3>3, <3>4
  <2>5. CASE ~(g = <<>> \/ i \in cuts)
    <3> DEFINE b == Front(g)
               c == Last(g)
    <3>1. b \in Seq(Piece) /\ c \in Piece /\ g = Append(b, c)
      BY <2>1, <2>5, FrontLast, Zenon
    <3> HIDE DEF b, c
    <3>2. Append(c, i) \in Piece /\ c \in Seq(Line) /\ Append(c, i) = c \o <<i>> /\ Append(c, i) # <<>>
      <4> HIDE DEF Line
      <4>1. c \in Seq(Line)
        BY <3>1 DEF Piece
      <4>2. Append(c, i) \in Seq(Line) /\ Append(c, i) # <<>>
        BY <4>1, LastAppended
      <4>3. Append(c, i) = c \o <<i>>
        BY <4>1
      <4> QED
        BY <4>1, <4>2, <4>3 DEF Piece
    <3>3. L(Append(b, Append(c, i))) = L(b) \o Append(c, i) /\ L(g) = L(b) \o c /\ L(b) \in Seq(Line)
      BY <3>1, <3>2, PieceFacts DEF Piece
    <3>4. (L(b) \o c) \o <<i>> = L(b) \o (c \o <<i>>)
      BY <3>2, <3>3
    <3>5. L(H(a)) = a
      BY <2>1, <2>2, <2>3, <2>5, <3>2, <3>3, <3>4 DEF b, c
    <3>6. /\ Range(Append(b, Append(c, i))) = Range(b) \cup {Append(c, i)}
          /\ Range(Append(b, c)) = Range(b) \cup {c}
      <4> DEFINE e == Append(c, i)
      <4>1. e \in Piece
        BY <3>2
      <4> HIDE DEF e
      <4>2. Range(Append(b, e)) = Range(b) \cup {e}
        BY <3>1, <4>1, RangeFacts
      <4>3. Range(Append(b, c)) = Range(b) \cup {c}
        BY <3>1, RangeFacts
      <4> QED
        BY <4>2, <4>3 DEF e
    <3>7. <<>> \notin Range(H(a))
      BY <2>1, <2>3, <2>5, <3>1, <3>2, <3>6 DEF b, c
    <3> QED
      BY <2>2, <3>5, <3>7
  <2> QED
    BY <2>4, <2>5
<1> HIDE DEF T
<1>3. Seq(Line) \subseteq T
  BY <1>1, <1>2, SeqInduction
<1> QED
  BY <1>3 DEF T, H, Piece

\* Segments are in order and hold every line that is not blank.
LEMMA SegmentsAtFacts ==
    ASSUME ChunkTypeOK, NEW cuts
    PROVE  /\ Ordered(SegmentsAt(cuts))
           /\ \A i \in Line : ~IsBlank(i) => i \in Range(L(SegmentsAt(cuts)))
<1> DEFINE all == Segments(cuts, Lines)
           S == {s \in Piece : \E k \in DOMAIN s : ~IsBlank(s[k])}
           seg == SegmentsAt(cuts)
<1>1. seg = Kept(all, Piece, S)
  BY DEF SegmentsAt, Segments
<1>2. Lines \in Piece /\ Inc(Lines) /\ Range(Lines) = Line
  BY LinesFacts
<1>3. all \in Seq(Piece) /\ L(all) = Lines /\ <<>> \notin Range(all)
  <2>1. Segmented(cuts)
    BY SegmentsAppend
  <2> QED
    BY <1>2, <2>1, SegmentsLines DEF Segmented, Piece
<1> HIDE DEF all
<1>4. Inc(L(seg))
  BY <1>1, <1>2, <1>3, KeptInOrder
<1>5. seg \in Seq(Piece) /\ Range(seg) = Range(all) \cap S
  <2>1. Selects(Piece, S)
    BY KeptFacts
  <2> HIDE DEF S, seg
  <2> QED
    BY <1>1, <1>3, <2>1 DEF Selects
<1>6. ASSUME NEW i \in Line, ~IsBlank(i) PROVE i \in Range(L(seg))
  <2>1. i \in Range(L(all))
    BY <1>2, <1>3
  <2>2. PICK s \in Range(all) : i \in Range(s)
    BY <1>3, <2>1, PieceFacts
  <2>3. s \in Piece
    BY <1>3, RangeFacts
  <2>4. s \in S
    BY <1>6, <2>2, <2>3 DEF Range
  <2> HIDE DEF S, seg
  <2>5. Range(L(seg)) = UNION {Range(t) : t \in Range(seg)}
    BY <1>5, PieceFacts
  <2> QED
    BY <1>5, <2>2, <2>4, <2>5
<1> HIDE DEF seg
<1>7. <<>> \notin Range(seg)
  BY <1>3, <1>5
<1> QED
  BY <1>4, <1>5, <1>6, <1>7 DEF Ordered, seg

Singles(s) == [k \in DOMAIN s |-> <<s[k]>>]

\* Every line a piece of its own.
LEMMA SinglesFacts ==
    ASSUME NEW s \in Piece
    PROVE  Singles(s) \in Seq(Piece) /\ L(Singles(s)) = s /\ <<>> \notin Range(Singles(s))
<1> DEFINE P(t) == Singles(t) \in Seq(Piece) /\ L(Singles(t)) = t
           T == {t \in Seq(Line) : P(t)}
<1>1. <<>> \in T
  <2>1. Singles(<<>>) = <<>>
    BY DEF Singles
  <2>2. L(<<>>) = <<>> /\ <<>> \in Seq(Piece) /\ <<>> \in Seq(Line)
    BY PieceFacts
  <2>3. P(<<>>)
    BY <2>1, <2>2
  <2> QED
    BY <2>2, <2>3
<1>2. ASSUME NEW t \in Seq(Line), NEW i \in Line, t \in T PROVE Append(t, i) \in T
  <2>1. Append(t, i) \in Seq(Line) /\ Append(t, i) = t \o <<i>> /\ t \in Piece
    BY DEF Piece
  <2>2. <<i>> \in Piece
    BY DEF Piece
  <2>3. Singles(t) \in Seq(Piece) /\ L(Singles(t)) = t
    BY <1>2
  <2>4. Singles(Append(t, i)) = Append(Singles(t), <<i>>)
    BY DEF Singles
  <2>5. L(Append(Singles(t), <<i>>)) = L(Singles(t)) \o <<i>>
    BY <2>2, <2>3, PieceFacts
  <2>6. Append(Singles(t), <<i>>) \in Seq(Piece)
    <3> DEFINE e == <<i>>
    <3>1. e \in Piece
      BY <2>2
    <3> HIDE DEF e
    <3>2. Append(Singles(t), e) \in Seq(Piece)
      BY <2>3, <3>1
    <3> QED
      BY <3>2 DEF e
  <2>7. P(Append(t, i))
    BY <2>1, <2>3, <2>4, <2>5, <2>6
  <2> QED
    BY <2>1, <2>7
<1> HIDE DEF T
<1>3. Seq(Line) \subseteq T
  BY <1>1, <1>2, SeqInduction
<1>4. P(s)
  BY <1>3 DEF T, Piece
<1>5. <<>> \notin Range(Singles(s))
  BY DEF Range, Singles
<1> QED
  BY <1>4, <1>5

\* A paragraph cut into its sentences has its lines in their order.
LEMMA SentencesFacts ==
    ASSUME NEW para \in Piece
    PROVE  /\ Sentences(para) \in Seq(Piece) /\ L(Sentences(para)) = para
           /\ para # <<>> => <<>> \notin Range(Sentences(para))
<1>1. CASE Words(para) > ChunkSize
  <2>1. Sentences(para) = Singles(para)
    BY <1>1 DEF Sentences, Singles
  <2> QED
    BY <2>1, SinglesFacts
<1>2. CASE ~(Words(para) > ChunkSize)
  <2>1. Sentences(para) = <<para>>
    BY <1>2 DEF Sentences
  <2>2. <<para>> \in Seq(Piece) /\ L(<<para>>) = para /\ Range(<<para>>) = {para}
    BY PieceFacts, RangeFacts
  <2> QED
    BY <2>1, <2>2
<1> QED
  BY <1>1, <1>2

\* Pieces cut further are in the same order.
LEMMA CutFurther ==
    ASSUME NEW f \in [Piece -> Seq(Piece)],
           \A p \in Piece : L(f[p]) = p /\ (p # <<>> => <<>> \notin Range(f[p])),
           NEW ps, Ordered(ps)
    PROVE  Ordered(Gathered(f, ps, Piece)) /\ L(Gathered(f, ps, Piece)) = L(ps)
<1> DEFINE H(t) == Gathered(f, t, Piece)
           P(t) == L(H(t)) = L(t)
           T == {t \in Seq(Piece) : P(t)}
<1>0. Gathers(f, Piece, Piece)
  BY GatheredFacts
<1>1. <<>> \in T
  BY <1>0 DEF Gathers
<1>2. ASSUME NEW t \in Seq(Piece), NEW p \in Piece, t \in T PROVE Append(t, p) \in T
  <2>1. H(t) \in Seq(Piece) /\ H(Append(t, p)) = H(t) \o f[p] /\ f[p] \in Seq(Piece)
    BY <1>0 DEF Gathers
  <2>2. P(t)
    BY <1>2
  <2> HIDE DEF H
  <2>3. L(H(t) \o f[p]) = L(H(t)) \o L(f[p]) /\ L(f[p]) = p
    BY <2>1, PieceFacts
  <2>4. L(Append(t, p)) = L(t) \o p
    BY PieceFacts
  <2>5. P(Append(t, p))
    BY <2>1, <2>2, <2>3, <2>4
  <2> HIDE DEF P
  <2> QED
    BY <2>5
<1> HIDE DEF T
<1>3. Seq(Piece) \subseteq T
  BY <1>1, <1>2, SeqInduction
<1>4. ps \in Seq(Piece) /\ <<>> \notin Range(ps) /\ Inc(L(ps))
  BY DEF Ordered
<1>5. L(H(ps)) = L(ps)
  BY <1>3, <1>4 DEF T
<1>6. H(ps) \in Seq(Piece) /\ Range(H(ps)) = UNION {Range(f[p]) : p \in Range(ps)}
  BY <1>0, <1>4 DEF Gathers
<1>7. Range(ps) \subseteq Piece
  BY <1>4, RangeFacts
<1> HIDE DEF H
<1>8. <<>> \notin Range(H(ps))
  BY <1>4, <1>6, <1>7
<1> QED
  BY <1>4, <1>5, <1>6, <1>8 DEF Ordered, H

\* What is promised of the chunks of a document.
ChunkedWell(cl) == cl \in Seq(Chunk) /\ InARow(cl) /\ Covers(cl)

\* TextChunker: what is promised of the chunks of plain text.
LEMMA TextSound ==
    ASSUME ChunkTypeOK, docKind # "markdown"
    PROVE  ChunkedWell(TextChunks)
<1> DEFINE cuts == {i \in 2..Len(text) : IsBlank(i) \/ IsBlank(i - 1)}
           f == [para \in Piece |-> Sentences(para)]
           seg == SegmentsAt(cuts)
           ps == Gathered(f, seg, Piece)
<1>1. TextChunks = Plain(ps)
  BY DEF TextChunks
<1> HIDE DEF cuts
<1>2. Ordered(seg) /\ \A i \in Line : ~IsBlank(i) => i \in Range(L(seg))
  BY SegmentsAtFacts
<1>3. /\ f \in [Piece -> Seq(Piece)]
      /\ \A p \in Piece : L(f[p]) = p /\ (p # <<>> => <<>> \notin Range(f[p]))
  BY SentencesFacts
<1> HIDE DEF f, seg
<1>4. Ordered(ps) /\ L(ps) = L(seg)
  BY <1>2, <1>3, CutFurther
<1> HIDE DEF ps
<1>5. /\ Plain(ps) \in Seq(Chunk) /\ InARow(Plain(ps))
      /\ \A i \in Range(L(ps)) : InAChunk(Plain(ps), i)
  BY <1>4, PlainSound
<1> QED
  BY <1>1, <1>2, <1>4, <1>5 DEF ChunkedWell, Covers

\* CodeChunker: what is promised of the chunks of source code.
LEMMA CodeSound ==
    ASSUME ChunkTypeOK, docKind # "markdown"
    PROVE  ChunkedWell(CodeChunks)
<1>1. PICK cuts : CodeChunks = Plain(IF SegmentsAt(cuts) = <<>> THEN <<Lines>> ELSE SegmentsAt(cuts))
  BY DEF CodeChunks
<1>2. CASE SegmentsAt(cuts) = <<>>
  <2>1. Lines \in Piece /\ Inc(Lines) /\ Range(Lines) = Line
    BY LinesFacts
  <2>2. /\ Plain(<<Lines>>) \in Seq(Chunk) /\ InARow(Plain(<<Lines>>))
        /\ \A i \in Line : InAChunk(Plain(<<Lines>>), i)
    BY <2>1, PlainOne
  <2> QED
    BY <1>1, <1>2, <2>2 DEF ChunkedWell, Covers
<1>3. CASE SegmentsAt(cuts) # <<>>
  <2> DEFINE seg == SegmentsAt(cuts)
  <2>1. Ordered(seg) /\ \A i \in Line : ~IsBlank(i) => i \in Range(L(seg))
    BY SegmentsAtFacts
  <2>2. CodeChunks = Plain(seg)
    BY <1>1, <1>3
  <2> HIDE DEF seg
  <2>3. /\ Plain(seg) \in Seq(Chunk) /\ InARow(Plain(seg))
        /\ \A i \in Range(L(seg)) : InAChunk(Plain(seg), i)
    BY <2>1, PlainSound
  <2> QED
    BY <2>1, <2>2, <2>3 DEF ChunkedWell, Covers
<1> QED
  BY <1>2, <1>3

\* The sections of the lines so far.
SectionsOf(s) ==
    LET Add(i, parts) ==
            IF text[i].kind = "heading" THEN Append(parts, [heading |-> i, body |-> <<>>])
            ELSE IF parts = <<>> THEN <<[heading |-> 0, body |-> <<i>>]>>
            ELSE [parts EXCEPT ![Len(parts)].body = Append(@, i)]
    IN  Fold([i \in Line |-> [parts \in Seq(Section) |-> Add(i, parts)]], <<>>, s)

Sectioned(i, parts) ==
    IF text[i].kind = "heading" THEN Append(parts, [heading |-> i, body |-> <<>>])
    ELSE IF parts = <<>> THEN <<[heading |-> 0, body |-> <<i>>]>>
    ELSE Append(Front(parts), [heading |-> Last(parts).heading, body |-> Append(Last(parts).body, i)])

SectionLaws ==
    /\ SectionsOf(<<>>) = <<>>
    /\ \A s \in Seq(Line) : SectionsOf(s) \in Seq(Section)
    /\ \A s \in Seq(Line), i \in Line : SectionsOf(Append(s, i)) = Sectioned(i, SectionsOf(s))

\* The fields of a section.
LEMMA SectionRecord ==
    /\ \A s \in Section : s.heading \in Nat /\ s.body \in Piece
    /\ \A h \in Nat, b \in Piece : /\ [heading |-> h, body |-> b] \in Section
                                   /\ [heading |-> h, body |-> b].heading = h
                                   /\ [heading |-> h, body |-> b].body = b
BY DEF Section

\* _split_by_headings, line by line.
LEMMA SectionsAppend == ChunkTypeOK => SectionLaws
<1> SUFFICES ASSUME ChunkTypeOK PROVE SectionLaws
  OBVIOUS
<1> DEFINE D == Seq(Section)
           f == [i \in Line |-> [parts \in D |->
                   IF text[i].kind = "heading" THEN Append(parts, [heading |-> i, body |-> <<>>])
                   ELSE IF parts = <<>> THEN <<[heading |-> 0, body |-> <<i>>]>>
                   ELSE [parts EXCEPT ![Len(parts)].body = Append(@, i)]]]
           z == <<>>
           H(s) == SectionsOf(s)
<1>1. ASSUME NEW i \in Line, NEW parts \in D
      PROVE  f[i][parts] = Sectioned(i, parts) /\ Sectioned(i, parts) \in D
  <2>1. i \in Nat /\ <<>> \in Piece /\ <<i>> \in Piece
    BY LineFacts DEF Piece
  <2>2. CASE text[i].kind = "heading"
    <3> DEFINE r == [heading |-> i, body |-> <<>>]
    <3>1. r \in Section
      BY <2>1, SectionRecord
    <3>2. Sectioned(i, parts) = Append(parts, r)
      BY <2>2 DEF Sectioned
    <3> HIDE DEF r
    <3>3. Append(parts, r) \in D
      BY <3>1
    <3> QED
      BY <2>2, <3>2, <3>3 DEF r
  <2>3. CASE text[i].kind # "heading" /\ parts = <<>>
    <3> DEFINE r == [heading |-> 0, body |-> <<i>>]
    <3>1. r \in Section
      BY <2>1, SectionRecord
    <3>2. Sectioned(i, parts) = <<r>>
      BY <2>3 DEF Sectioned
    <3> HIDE DEF r
    <3>3. <<r>> \in D
      BY <3>1
    <3> QED
      BY <2>3, <3>2, <3>3 DEF r
  <2>4. CASE text[i].kind # "heading" /\ parts # <<>>
    <3> DEFINE n == Len(parts)
               x == Last(parts)
               r == [heading |-> x.heading, body |-> Append(x.body, i)]
    <3>1. /\ Front(parts) \in D /\ x \in Section
          /\ \A a : [parts EXCEPT ![n] = a] = Append(Front(parts), a)
      BY <2>4, FrontLast, Zenon
    <3>2. parts[n] = x
      BY DEF Last
    <3> HIDE DEF x
    <3>3. x.heading \in Nat /\ x.body \in Piece
      BY <3>1, SectionRecord
    <3>4. Append(x.body, i) \in Piece
      BY <3>3 DEF Piece
    <3>5. r \in Section
      BY <3>3, <3>4, SectionRecord
    <3>6. [parts EXCEPT ![n].body = Append(@, i)] = [parts EXCEPT ![n] = [x EXCEPT !.body = Append(x.body, i)]]
      BY <3>2
    <3>7. [x EXCEPT !.body = Append(x.body, i)] = r
      <4>1. PICK h \in Nat, b \in Piece : x = [heading |-> h, body |-> b]
        BY <3>1 DEF Section
      <4>2. \A e : [[heading |-> h, body |-> b] EXCEPT !.body = e] = [heading |-> h, body |-> e]
        OBVIOUS
      <4>3. x.heading = h
        BY <4>1
      <4> QED
        BY <4>1, <4>2, <4>3
    <3>8. [parts EXCEPT ![n].body = Append(@, i)] = Append(Front(parts), r)
      BY <3>1, <3>6, <3>7
    <3>9. Sectioned(i, parts) = Append(Front(parts), r)
      BY <2>4 DEF Sectioned, x
    <3> HIDE DEF r
    <3>10. Append(Front(parts), r) \in D
      BY <3>1, <3>5
    <3> QED
      BY <2>4, <3>8, <3>9, <3>10
  <2> QED
    BY <2>2, <2>3, <2>4
<1>2. f \in [Line -> [D -> D]]
  <2>1. \A i \in Line : f[i] = [parts \in D |-> f[i][parts]]
    OBVIOUS
  <2>2. f = [i \in Line |-> f[i]]
    OBVIOUS
  <2> HIDE DEF f
  <2>3. \A i \in Line : f[i] \in [D -> D]
    BY <1>1, <2>1
  <2> QED
    BY <2>2, <2>3
<1>3. z \in D
  OBVIOUS
<1>4. \A s : H(s) = Fold(f, z, s)
  BY DEF SectionsOf
<1> HIDE DEF f, D, z, H
<1>5. /\ Fold(f, z, <<>>) = z
      /\ \A s \in Seq(Line) : Fold(f, z, s) \in D
      /\ \A s \in Seq(Line), i \in Line : Fold(f, z, Append(s, i)) = f[i][Fold(f, z, s)]
  BY <1>2, <1>3, FoldAppend
<1>6. \A s \in Seq(Line), i \in Line : H(Append(s, i)) = Sectioned(i, H(s))
  BY <1>1, <1>4, <1>5
<1>7. H(<<>>) = z /\ \A s \in Seq(Line) : H(s) \in D
  BY <1>4, <1>5
<1> QED
  BY <1>6, <1>7 DEF H, D, z, SectionLaws

\* The lines of sections: the heading and those under it, section by section.
PartLines(parts) == Gathered([s \in Section |-> HeadLines(s.heading) \o s.body], parts, Nat)

\* A heading and the lines under it are numbers of lines.
LEMMA PartLinesFacts ==
    ASSUME ChunkTypeOK
    PROVE  /\ PartLines(<<>>) = <<>>
           /\ \A s \in Section : HeadLines(s.heading) \in Seq(Nat) /\ s.body \in Seq(Nat)
           /\ \A ps \in Seq(Section) : PartLines(ps) \in Seq(Nat)
           /\ \A ps \in Seq(Section), s \in Section :
                 PartLines(Append(ps, s)) = PartLines(ps) \o (HeadLines(s.heading) \o s.body)
<1> DEFINE f == [s \in Section |-> HeadLines(s.heading) \o s.body]
<1>1. ASSUME NEW s \in Section PROVE HeadLines(s.heading) \in Seq(Nat) /\ s.body \in Seq(Nat)
  <2>1. s.heading \in Nat /\ s.body \in Seq(Line) /\ Line \in SUBSET Nat
    BY SectionRecord, LineFacts DEF Piece
  <2>2. s.body \in Seq(Nat)
    <3> DEFINE b == s.body
    <3>1. b \in Seq(Line)
      BY <2>1
    <3> HIDE DEF Line, b
    <3>2. ASSUME NEW k \in 1 .. Len(b) PROVE b[k] \in Nat
      <4>1. b[k] \in Line
        BY <3>1
      <4>2. Line \in SUBSET Nat
        BY <2>1
      <4> QED
        BY <4>1, <4>2
    <3>3. b \in Seq(Nat)
      BY <3>1, <3>2
    <3> QED
      BY <3>3 DEF b
  <2> QED
    BY <2>1, <2>2 DEF HeadLines
<1>2. f \in [Section -> Seq(Nat)] /\ \A s \in Section : f[s] = HeadLines(s.heading) \o s.body
  <2>1. \A s \in Section : HeadLines(s.heading) \o s.body \in Seq(Nat)
    BY <1>1, ConcatFacts
  <2> QED
    BY <2>1
<1> HIDE DEF f
<1>3. Gathers(f, Section, Nat)
  BY <1>2, GatheredFacts
<1>4. \A ps : PartLines(ps) = Gathered(f, ps, Nat)
  BY DEF PartLines, f
<1> QED
  BY <1>1, <1>2, <1>3, <1>4 DEF Gathers

\* A sequence that has grown by an element.
LEMMA AppendFacts ==
    ASSUME NEW A, NEW s \in Seq(A), NEW a \in A
    PROVE  /\ Append(s, a) \in Seq(A) /\ Append(s, a) # <<>> /\ Append(s, a) = s \o <<a>>
           /\ Range(Append(s, a)) = Range(s) \cup {a}
           /\ A \in SUBSET Nat => (Inc(Append(s, a)) <=> Inc(s) /\ Precedes(Range(s), {a}))
<1>1. Append(s, a) \in Seq(A) /\ Append(s, a) # <<>>
  BY LastAppended
<1>2. Append(s, a) = s \o <<a>> /\ Range(s \o <<a>>) = Range(s) \cup {a}
  BY OneMore
<1>3. ASSUME A \in SUBSET Nat PROVE Inc(Append(s, a)) <=> Inc(s) /\ Precedes(Range(s), {a})
  <2> DEFINE t == <<a>>
  <2>1. t \in Seq(A) /\ Range(t) = {a}
    BY RangeFacts
  <2>2. Inc(t)
    BY IncFacts
  <2> HIDE DEF t
  <2>3. Inc(s \o t) <=> Inc(s) /\ Inc(t) /\ Precedes(Range(s), Range(t))
    BY <1>3, <2>1, IncConcat
  <2> QED
    BY <1>2, <2>1, <2>2, <2>3 DEF t
<1> QED
  BY <1>1, <1>2, <1>3

\* What the sections of the first n lines hold.
SectionsWell(parts, n) ==
    /\ parts \in Seq(Section)
    /\ Inc(PartLines(parts)) /\ Range(PartLines(parts)) \subseteq 1 .. n
    /\ \A i \in 1 .. n : \E s \in Range(parts) : s.heading = i \/ i \in Range(s.body)
    /\ \A s \in Range(parts) :
          /\ s.heading = 0 \/ (s.heading \in 1 .. n /\ text[s.heading].kind = "heading")
          /\ \A i \in Range(s.body) : StandsUnder(i, s.heading)
    /\ parts # <<>> =>
          /\ \A j \in (Last(parts).heading + 1) .. n : text[j].kind # "heading"
          /\ \A s \in Range(Front(parts)) :
                s.body = <<>> => s.heading \in 1 .. n - 1 /\ text[s.heading + 1].kind = "heading"
          /\ Last(parts).body = <<>> => Last(parts).heading = n /\ n > 0

\* A line more is a section more or the last section longer.
LEMMA SectionsWellStep ==
    ASSUME ChunkTypeOK, NEW n \in Nat, n + 1 \in Line, NEW parts, SectionsWell(parts, n)
    PROVE  SectionsWell(Sectioned(n + 1, parts), n + 1)
<1> DEFINE i == n + 1
           new == Sectioned(i, parts)
           B == PartLines(parts)
<1>1. i \in Line /\ i \in Nat /\ Line \in SUBSET Nat /\ <<>> \in Piece /\ <<i>> \in Piece /\ i \in 1 .. i
      /\ \A k \in 1 .. n : k \in 1 .. i /\ k < i
  BY LineFacts DEF Piece
<1>2. /\ parts \in Seq(Section) /\ Inc(B) /\ Range(B) \subseteq 1 .. n
      /\ \A k \in 1 .. n : \E s \in Range(parts) : s.heading = k \/ k \in Range(s.body)
      /\ \A s \in Range(parts) :
            /\ s.heading = 0 \/ (s.heading \in 1 .. n /\ text[s.heading].kind = "heading")
            /\ \A k \in Range(s.body) : StandsUnder(k, s.heading)
      /\ parts # <<>> =>
            /\ \A j \in (Last(parts).heading + 1) .. n : text[j].kind # "heading"
            /\ \A s \in Range(Front(parts)) :
                  s.body = <<>> => s.heading \in 1 .. n - 1 /\ text[s.heading + 1].kind = "heading"
            /\ Last(parts).body = <<>> => Last(parts).heading = n /\ n > 0
  BY DEF SectionsWell
<1>3. B \in Seq(Nat) /\ Inc(B \o <<i>>) /\ Range(B \o <<i>>) \subseteq 1 .. i
  <2>1. B \in Seq(Nat) /\ <<i>> \in Seq(Nat)
    BY <1>1, <1>2, PartLinesFacts
  <2>2. Range(<<i>>) = {i}
    BY <1>1, RangeFacts
  <2>3. Precedes(Range(B), Range(<<i>>))
    BY <1>1, <1>2, <2>2 DEF Precedes
  <2> HIDE DEF B, i
  <2>4. Inc(<<i>>)
    BY IncFacts
  <2>5. Inc(B \o <<i>>)
    BY <1>1, <1>2, <2>1, <2>3, <2>4, IncConcat
  <2>6. Range(B \o <<i>>) = Range(B) \cup {i}
    BY <1>1, <2>1, OneMore
  <2>7. 1 .. n \subseteq 1 .. i
    BY <1>1
  <2> QED
    BY <1>1, <1>2, <2>1, <2>2, <2>5, <2>6, <2>7
<1> HIDE DEF B, i
<1>4. i = n + 1
  BY DEF i
<1>5. CASE text[i].kind = "heading"
  <2> DEFINE r == [heading |-> i, body |-> <<>>]
  <2>1. r \in Section /\ r.heading = i /\ r.body = <<>> /\ Range(<<>>) = {}
    BY <1>1, SectionRecord, RangeFacts
  <2>2. new = Append(parts, r)
    BY <1>5 DEF Sectioned
  <2> HIDE DEF r, new
  <2>3. new \in Seq(Section) /\ new # <<>> /\ Front(new) = parts /\ Last(new) = r
    BY <1>2, <2>1, <2>2, LastAppended
  <2>4. Range(new) = Range(parts) \cup {r}
    BY <1>2, <2>1, <2>2, RangeFacts
  <2>5. PartLines(new) = B \o <<i>>
    <3>1. PartLines(new) = B \o (HeadLines(i) \o <<>>)
      BY <1>2, <2>1, <2>2, PartLinesFacts DEF B
    <3>2. HeadLines(i) \o <<>> = <<i>>
      BY <1>1, <1>4 DEF HeadLines
    <3> QED
      BY <3>1, <3>2
  <2>6. \A j \in (i + 1) .. i : text[j].kind # "heading"
    BY <1>1
  <2>7. \A k \in 1 .. i : \E s \in Range(new) : s.heading = k \/ k \in Range(s.body)
    <3> TAKE k \in 1 .. i
    <3>1. CASE k = i
      BY <2>1, <2>4, <3>1
    <3>2. CASE k \in 1 .. n
      BY <1>2, <2>4, <3>2
    <3> QED
      BY <1>4, <3>1, <3>2
  <2>8. \A s \in Range(new) : /\ s.heading = 0 \/ (s.heading \in 1 .. i /\ text[s.heading].kind = "heading")
                              /\ \A k \in Range(s.body) : StandsUnder(k, s.heading)
    BY <1>1, <1>2, <1>5, <2>1, <2>4
  <2>9. ASSUME NEW s \in Range(parts), s.body = <<>>
        PROVE  s.heading \in 1 .. i - 1 /\ text[s.heading + 1].kind = "heading"
    <3>1. parts # <<>>
      BY <2>9, RangeFacts
    <3>2. Front(parts) \in Seq(Section) /\ Last(parts) \in Section /\ parts = Append(Front(parts), Last(parts))
      BY <1>2, <3>1, FrontLast, Zenon
    <3>3. Range(Append(Front(parts), Last(parts))) = Range(Front(parts)) \cup {Last(parts)}
      <4> DEFINE u == Front(parts)
                 v == Last(parts)
      <4>1. u \in Seq(Section) /\ v \in Section
        BY <3>2
      <4> HIDE DEF u, v
      <4>2. Range(Append(u, v)) = Range(u) \cup {v}
        BY <4>1, RangeFacts
      <4> QED
        BY <4>2 DEF u, v
    <3>4. CASE s \in Range(Front(parts))
      <4>1. s.heading \in 1 .. n - 1 /\ text[s.heading + 1].kind = "heading"
        BY <1>2, <2>9, <3>1, <3>4
      <4> QED
        BY <1>4, <4>1
    <3>5. CASE s = Last(parts)
      <4>1. s.heading = n /\ n > 0
        BY <1>2, <2>9, <3>1, <3>5
      <4> QED
        BY <1>4, <1>5, <4>1
    <3> QED
      BY <3>2, <3>3, <3>4, <3>5
  <2>10. i > 0
    BY <1>4
  <2>11. SectionsWell(new, i)
    BY <1>3, <2>1, <2>3, <2>5, <2>6, <2>7, <2>8, <2>9, <2>10 DEF SectionsWell
  <2> QED
    BY <2>11 DEF new, i
<1>6. CASE text[i].kind # "heading" /\ parts = <<>>
  <2> DEFINE r == [heading |-> 0, body |-> <<i>>]
  <2>1. r \in Section /\ r.heading = 0 /\ r.body = <<i>> /\ <<i>> # <<>>
    BY <1>1, SectionRecord
  <2>2. new = Append(parts, r)
    BY <1>6 DEF Sectioned
  <2> HIDE DEF r, new
  <2>3. new \in Seq(Section) /\ new # <<>> /\ Front(new) = parts /\ Last(new) = r
    BY <1>2, <2>1, <2>2, LastAppended
  <2>4. Range(new) = Range(parts) \cup {r} /\ Range(parts) = {}
    BY <1>2, <1>6, <2>1, <2>2, RangeFacts
  <2>5. PartLines(new) = B \o <<i>>
    <3>1. PartLines(new) = B \o (HeadLines(0) \o <<i>>)
      BY <1>2, <2>1, <2>2, PartLinesFacts DEF B
    <3>2. HeadLines(0) \o <<i>> = <<i>>
      BY <1>1 DEF HeadLines
    <3> QED
      BY <3>1, <3>2
  <2>6. \A k \in 1 .. i : \E s \in Range(new) : s.heading = k \/ k \in Range(s.body)
    <3> TAKE k \in 1 .. i
    <3>1. CASE k = i
      <4>1. i \in Range(<<i>>)
        BY <1>1, RangeFacts
      <4> QED
        BY <2>1, <2>4, <3>1, <4>1
    <3>2. CASE k \in 1 .. n
      BY <1>2, <2>4, <3>2
    <3> QED
      BY <1>4, <3>1, <3>2
  <2>7. \A j \in (0 + 1) .. i : text[j].kind # "heading"
    <3>1. ~(1 \in 1 .. n)
      BY <1>2, <2>4
    <3>2. \A j \in (0 + 1) .. i : j = i
      BY <1>4, <3>1
    <3> QED
      BY <1>6, <3>2
  <2>8. \A k \in Range(r.body) : StandsUnder(k, r.heading)
    <3>1. Range(<<i>>) = {i}
      BY <1>1, RangeFacts
    <3>2. 0 < i
      BY <1>4
    <3> QED
      BY <2>1, <2>7, <3>1, <3>2 DEF StandsUnder
  <2>9. SectionsWell(new, i)
    BY <1>3, <1>6, <2>1, <2>3, <2>4, <2>5, <2>6, <2>7, <2>8 DEF SectionsWell
  <2> QED
    BY <2>9 DEF new, i
<1>7. CASE text[i].kind # "heading" /\ parts # <<>>
  <2> DEFINE u == Front(parts)
             v == Last(parts)
             r == [heading |-> v.heading, body |-> Append(v.body, i)]
  <2>1. u \in Seq(Section) /\ v \in Section /\ parts = Append(u, v)
    BY <1>2, <1>7, FrontLast, Zenon
  <2>2. new = Append(u, r)
    BY <1>7 DEF Sectioned
  <2>3. \A s \in Range(u) : s.body = <<>> => s.heading \in 1 .. n - 1 /\ text[s.heading + 1].kind = "heading"
    BY <1>2, <1>7
  <2> HIDE DEF u, v
  <2>4. v.heading \in Nat /\ v.body \in Seq(Line)
    BY <2>1, SectionRecord DEF Piece
  <2>5. Append(v.body, i) \in Seq(Line) /\ Append(v.body, i) = v.body \o <<i>> /\ Append(v.body, i) # <<>>
    <3> DEFINE b == v.body
    <3>1. b \in Seq(Line)
      BY <2>4
    <3> HIDE DEF b
    <3>2. Append(b, i) \in Seq(Line) /\ Append(b, i) # <<>>
      BY <1>1, <3>1, LastAppended
    <3>3. Append(b, i) = b \o <<i>>
      BY <3>1
    <3> QED
      BY <3>2, <3>3 DEF b
  <2>6. r \in Section /\ r.heading = v.heading /\ r.body = v.body \o <<i>> /\ r.body # <<>>
    BY <2>4, <2>5, SectionRecord DEF Piece
  <2> HIDE DEF r, new
  <2>7. new \in Seq(Section) /\ new # <<>> /\ Front(new) = u /\ Last(new) = r
    BY <2>1, <2>2, <2>6, LastAppended
  <2>8. Range(new) = Range(u) \cup {r} /\ Range(parts) = Range(u) \cup {v}
    BY <2>1, <2>2, <2>6, RangeFacts
  <2>9. PartLines(new) = B \o <<i>>
    <3> DEFINE a == HeadLines(v.heading)
               b == v.body
               x == PartLines(u)
    <3>1. PartLines(new) = x \o (a \o (b \o <<i>>)) /\ B = x \o (a \o b)
      BY <2>1, <2>2, <2>6, PartLinesFacts DEF B
    <3>2. a \in Seq(Nat) /\ b \in Seq(Nat) /\ x \in Seq(Nat)
      BY <2>1, PartLinesFacts
    <3> HIDE DEF a, b, x
    <3>3. a \o (b \o <<i>>) = (a \o b) \o <<i>> /\ a \o b \in Seq(Nat)
      BY <1>1, <3>2, OneMore, ConcatFacts
    <3>4. x \o ((a \o b) \o <<i>>) = (x \o (a \o b)) \o <<i>>
      BY <1>1, <3>2, <3>3, OneMore
    <3> QED
      BY <3>1, <3>3, <3>4
  <2>10. Range(v.body \o <<i>>) = Range(v.body) \cup {i}
    BY <1>1, <2>4, OneMore
  <2>11. \A k \in 1 .. i : \E s \in Range(new) : s.heading = k \/ k \in Range(s.body)
    <3> TAKE k \in 1 .. i
    <3>1. CASE k = i
      BY <2>6, <2>8, <2>10, <3>1
    <3>2. CASE k \in 1 .. n
      <4>1. PICK s \in Range(parts) : s.heading = k \/ k \in Range(s.body)
        BY <1>2, <3>2
      <4>2. CASE s \in Range(u)
        BY <2>8, <4>1, <4>2
      <4>3. CASE s = v
        <5>1. r.heading = k \/ k \in Range(r.body)
          BY <2>6, <2>10, <4>1, <4>3
        <5> QED
          BY <2>8, <5>1
      <4> QED
        BY <2>8, <4>2, <4>3
    <3> QED
      BY <1>4, <3>1, <3>2
  <2>12. \A s \in Range(new) : s.heading = 0 \/ (s.heading \in 1 .. i /\ text[s.heading].kind = "heading")
    BY <1>1, <1>2, <2>6, <2>8
  <2>13. v.heading \in 0 .. n /\ (v.heading = 0 \/ text[v.heading].kind = "heading")
    BY <1>2, <2>8
  <2>14. \A j \in (v.heading + 1) .. i : text[j].kind # "heading"
    <3>1. \A j \in (v.heading + 1) .. i : j \in (v.heading + 1) .. n \/ j = i
      BY <1>4, <2>13
    <3>2. \A j \in (v.heading + 1) .. n : text[j].kind # "heading"
      BY <1>2, <1>7 DEF v
    <3> QED
      BY <1>7, <3>1, <3>2
  <2>15. \A s \in Range(new) : \A k \in Range(s.body) : StandsUnder(k, s.heading)
    <3>1. StandsUnder(i, v.heading)
      BY <1>4, <2>13, <2>14 DEF StandsUnder
    <3> QED
      BY <1>2, <2>6, <2>8, <2>10, <3>1
  <2>16. \A s \in Range(u) : s.body = <<>> => s.heading \in 1 .. i - 1 /\ text[s.heading + 1].kind = "heading"
    <3>1. 1 .. n - 1 \subseteq 1 .. i - 1
      BY <1>4
    <3> QED
      BY <2>3, <3>1
  <2>17. SectionsWell(new, i)
    BY <1>3, <2>6, <2>7, <2>9, <2>11, <2>12, <2>16, <2>14, <2>15 DEF SectionsWell
  <2> QED
    BY <2>17 DEF new, i
<1> QED
  BY <1>5, <1>6, <1>7

\* The sections of the document.
LEMMA SectionsFacts == ChunkTypeOK => SectionsWell(Sections, Len(text))
<1> SUFFICES ASSUME ChunkTypeOK PROVE SectionsWell(Sections, Len(text))
  OBVIOUS
<1> DEFINE N == Len(text)
           p(n) == [i \in 1 .. n |-> i]
           S == {n \in Nat : n <= N => SectionsWell(SectionsOf(p(n)), n)}
<1>0. SectionLaws
  BY SectionsAppend
<1>1. Line = 1 .. N /\ N \in Nat
  BY LineFacts
<1>2. 0 \in S
  <2>1. p(0) = <<>>
    OBVIOUS
  <2>2. SectionsOf(<<>>) = <<>> /\ PartLines(<<>>) = <<>> /\ Range(<<>>) = {} /\ Inc(<<>>) /\ <<>> \in Seq(Section)
    BY <1>0, PartLinesFacts, RangeFacts, IncFacts DEF SectionLaws
  <2>3. SectionsWell(<<>>, 0)
    BY <2>2 DEF SectionsWell
  <2> QED
    BY <2>1, <2>2, <2>3
<1>3. ASSUME NEW n \in Nat, n \in S PROVE n + 1 \in S
  <2> SUFFICES ASSUME n + 1 <= N PROVE SectionsWell(SectionsOf(p(n + 1)), n + 1)
    OBVIOUS
  <2>1. n <= N /\ n + 1 \in Line /\ SectionsWell(SectionsOf(p(n)), n)
    BY <1>1, <1>3
  <2>2. p(n) \in Seq(Line) /\ p(n + 1) = Append(p(n), n + 1)
    <3>1. p(n) \in Seq(1 .. N)
      BY <1>1, <2>1
    <3>2. p(n + 1) = Append(p(n), n + 1)
      OBVIOUS
    <3> QED
      BY <1>1, <3>1, <3>2
  <2> HIDE DEF p
  <2>3. SectionsOf(p(n + 1)) = Sectioned(n + 1, SectionsOf(p(n)))
    BY <1>0, <2>1, <2>2 DEF SectionLaws
  <2> QED
    BY <2>1, <2>3, SectionsWellStep
<1> HIDE DEF S
<1>4. Nat \subseteq S
  BY <1>2, <1>3, Induction
<1>5. SectionsWell(SectionsOf(p(N)), N)
  BY <1>1, <1>4 DEF S
<1>6. Lines = p(N)
  BY <1>1 DEF Lines
<1>7. Sections = SectionsOf(Lines)
  BY DEF Sections, SectionsOf
<1> QED
  BY <1>5, <1>6, <1>7

ParaState == [blocks : Seq(Piece), current : Piece, inside : BOOLEAN]

Started == [blocks |-> <<>>, current |-> <<>>, inside |-> FALSE]

\* The blocks of the lines so far.
BlocksOf(s) ==
    LET Add(i, st) ==
            LET inside == IF text[i].kind = "fence" THEN ~st.inside ELSE st.inside
            IN  IF ~inside /\ IsBlank(i) /\ st.current # <<>>
                THEN [blocks |-> Append(st.blocks, st.current), current |-> <<>>,
                      inside |-> inside]
                ELSE [st EXCEPT !.current = Append(@, i), !.inside = inside]
    IN  Fold([i \in Line |-> [st \in ParaState |-> Add(i, st)]], Started, s)

\* One line more: it ends a block, or it is added to the current one.
BlockStep(i, st, new) ==
    \/ IsBlank(i) /\ st.current # <<>> /\ new.blocks = Append(st.blocks, st.current) /\ new.current = <<>>
    \/ new.blocks = st.blocks /\ new.current = Append(st.current, i)

BlockLaws ==
    /\ BlocksOf(<<>>) = Started
    /\ \A s \in Seq(Line) : BlocksOf(s) \in ParaState
    /\ \A s \in Seq(Line), i \in Line : BlockStep(i, BlocksOf(s), BlocksOf(Append(s, i)))

\* _paragraph_split, line by line.
LEMMA BlocksAppend == BlockLaws
<1> DEFINE D == ParaState
           Turn(i, st) == IF text[i].kind = "fence" THEN ~st.inside ELSE st.inside
           f == [i \in Line |-> [st \in D |->
                   IF ~Turn(i, st) /\ IsBlank(i) /\ st.current # <<>>
                   THEN [blocks |-> Append(st.blocks, st.current), current |-> <<>>, inside |-> Turn(i, st)]
                   ELSE [st EXCEPT !.current = Append(@, i), !.inside = Turn(i, st)]]]
           z == Started
           H(s) == BlocksOf(s)
<1>1. ASSUME NEW i \in Line, NEW st \in D
      PROVE  BlockStep(i, st, f[i][st]) /\ f[i][st] \in D
  <2>1. PICK b \in Seq(Piece), c \in Piece, x \in BOOLEAN : st = [blocks |-> b, current |-> c, inside |-> x]
    BY DEF ParaState
  <2>2. st.blocks = b /\ st.current = c /\ st.inside = x
    BY <2>1
  <2> DEFINE y == Turn(i, st)
  <2>3. y \in BOOLEAN
    BY <2>2
  <2>4. f[i][st] = IF ~y /\ IsBlank(i) /\ st.current # <<>>
                   THEN [blocks |-> Append(st.blocks, st.current), current |-> <<>>, inside |-> y]
                   ELSE [st EXCEPT !.current = Append(@, i), !.inside = y]
    OBVIOUS
  <2> HIDE DEF y, f
  <2>5. CASE ~y /\ IsBlank(i) /\ st.current # <<>>
    <3> DEFINE e == Append(b, c)
    <3>1. f[i][st] = [blocks |-> e, current |-> <<>>, inside |-> y]
      BY <2>2, <2>4, <2>5
    <3>2. e \in Seq(Piece)
      OBVIOUS
    <3> HIDE DEF e
    <3>3. <<>> \in Piece
      BY DEF Piece
    <3>4. [blocks |-> e, current |-> <<>>, inside |-> y] \in ParaState
      BY <2>3, <3>2, <3>3 DEF ParaState
    <3>5. BlockStep(i, st, f[i][st])
      BY <2>2, <2>5, <3>1 DEF BlockStep, e
    <3> QED
      BY <3>1, <3>4, <3>5
  <2>6. CASE ~(~y /\ IsBlank(i) /\ st.current # <<>>)
    <3> DEFINE e == Append(c, i)
    <3>1. f[i][st] = [st EXCEPT !.current = Append(@, i), !.inside = y]
      BY <2>4, <2>6
    <3>2. e \in Piece
      BY DEF Piece
    <3>3. [st EXCEPT !.current = Append(@, i), !.inside = y] = [st EXCEPT !.current = Append(c, i), !.inside = y]
      BY <2>2
    <3> HIDE DEF e
    <3>4. f[i][st] = [st EXCEPT !.current = e, !.inside = y]
      BY <3>1, <3>3 DEF e
    <3>5. [st EXCEPT !.current = e, !.inside = y] \in ParaState
      BY <2>3, <3>2 DEF ParaState
    <3>6. [st EXCEPT !.current = e, !.inside = y].blocks = b /\ [st EXCEPT !.current = e, !.inside = y].current = e
      BY <2>2 DEF ParaState
    <3>7. BlockStep(i, st, f[i][st])
      BY <2>2, <3>4, <3>6 DEF BlockStep, e
    <3> QED
      BY <3>4, <3>5, <3>7
  <2> QED
    BY <2>5, <2>6
<1>2. f \in [Line -> [D -> D]]
  <2>1. \A i \in Line : f[i] = [st \in D |-> f[i][st]]
    OBVIOUS
  <2>2. f = [i \in Line |-> f[i]]
    OBVIOUS
  <2> HIDE DEF f
  <2>3. \A i \in Line : f[i] \in [D -> D]
    BY <1>1, <2>1
  <2> QED
    BY <2>2, <2>3
<1>3. z \in D
  BY DEF ParaState, Started, Piece
<1>4. \A s : H(s) = Fold(f, z, s)
  BY DEF BlocksOf
<1> HIDE DEF f, D, z, H
<1>5. /\ Fold(f, z, <<>>) = z
      /\ \A s \in Seq(Line) : Fold(f, z, s) \in D
      /\ \A s \in Seq(Line), i \in Line : Fold(f, z, Append(s, i)) = f[i][Fold(f, z, s)]
  BY <1>2, <1>3, FoldAppend
<1>6. \A s \in Seq(Line), i \in Line : BlockStep(i, H(s), H(Append(s, i)))
  BY <1>1, <1>4, <1>5
<1>7. H(<<>>) = z /\ \A s \in Seq(Line) : H(s) \in D
  BY <1>4, <1>5
<1> QED
  BY <1>6, <1>7 DEF H, D, z, BlockLaws

\* The blocks that are done and the current one.
BlockLines(st) == L(Append(st.blocks, st.current))

BlocksWell(s, st) ==
    /\ <<>> \notin Range(st.blocks)
    /\ Inc(s) => Inc(BlockLines(st))
    /\ Range(BlockLines(st)) \subseteq Range(s)
    /\ \A i \in Range(s) : IsBlank(i) \/ i \in Range(BlockLines(st))
    /\ s # <<>> => BlockLines(st) # <<>>

\* The blocks so far are in order and hold every line that is not blank.
LEMMA BlocksFacts ==
    ASSUME ChunkTypeOK, NEW body \in Seq(Line)
    PROVE  BlocksOf(body) \in ParaState /\ BlocksWell(body, BlocksOf(body))
<1> DEFINE T == {s \in Seq(Line) : BlocksWell(s, BlocksOf(s))}
<1>0. /\ BlocksOf(<<>>) = Started
      /\ \A s \in Seq(Line) : BlocksOf(s) \in ParaState
      /\ \A s \in Seq(Line), i \in Line : BlockStep(i, BlocksOf(s), BlocksOf(Append(s, i)))
  <2>1. BlockLaws
    BY BlocksAppend
  <2> QED
    BY <2>1 DEF BlockLaws
<1>1. <<>> \in T
  <2>1. Started.blocks = <<>> /\ Started.current = <<>>
    BY DEF Started
  <2>2. Append(<<>>, <<>>) = << <<>> >> /\ <<>> \in Piece /\ L(<< <<>> >>) = <<>> /\ Range(<<>>) = {} /\ Inc(<<>>)
    BY PieceFacts, RangeFacts, IncFacts
  <2>3. BlockLines(Started) = <<>>
    BY <2>1, <2>2 DEF BlockLines
  <2>4. BlocksWell(<<>>, Started)
    BY <2>1, <2>2, <2>3 DEF BlocksWell
  <2> QED
    BY <1>0, <2>4
<1>2. ASSUME NEW s \in Seq(Line), NEW i \in Line, s \in T PROVE Append(s, i) \in T
  <2> DEFINE st == BlocksOf(s)
             new == BlocksOf(Append(s, i))
             b == st.blocks
             c == st.current
             m == BlockLines(st)
  <2>1. BlocksWell(s, st) /\ st \in ParaState /\ new \in ParaState /\ BlockStep(i, st, new) /\ Append(s, i) \in Seq(Line)
    <3>1. Append(s, i) \in Seq(Line)
      BY AppendFacts
    <3>2. BlocksWell(s, BlocksOf(s))
      BY <1>2
    <3> QED
      BY <1>0, <3>1, <3>2
  <2> HIDE DEF st, new
  <2>2. b \in Seq(Piece) /\ c \in Seq(Line)
    BY <2>1 DEF ParaState, Piece
  <2> HIDE DEF b, c
  <2>3. m = L(b) \o c /\ L(b) \in Seq(Line) /\ m \in Seq(Line)
    <3>1. L(Append(b, c)) = L(b) \o c /\ L(b) \in Seq(Line)
      BY <2>2, PieceFacts DEF Piece
    <3> QED
      BY <2>2, <3>1 DEF BlockLines, b, c
  <2> HIDE DEF m
  <2>4. Range(Append(s, i)) = Range(s) \cup {i} /\ Append(s, i) # <<>>
    <3>1. Range(Append(s, i)) = Range(s) \cup {i}
      BY RangeFacts
    <3>2. Append(s, i) # <<>>
      BY LastAppended
    <3> QED
      BY <3>1, <3>2
  <2>5. Line \in SUBSET Nat
    BY LineFacts
  <2>6. Inc(Append(s, i)) => Inc(s) /\ Precedes(Range(s), {i})
    BY <2>5, AppendFacts
  <2>7. /\ <<>> \notin Range(b)
        /\ Inc(s) => Inc(m)
        /\ Range(m) \subseteq Range(s)
        /\ \A j \in Range(s) : IsBlank(j) \/ j \in Range(m)
        /\ s # <<>> => m # <<>>
    BY <2>1 DEF BlocksWell, b, m
  <2>8. ASSUME IsBlank(i), c # <<>>, new.blocks = Append(b, c), new.current = <<>>
        PROVE  BlocksWell(Append(s, i), new)
    <3>1. Append(b, c) \in Seq(Piece) /\ <<>> \in Piece
      BY <2>2 DEF Piece
    <3>2. L(Append(Append(b, c), <<>>)) = L(Append(b, c)) \o <<>> /\ L(Append(b, c)) = m /\ L(Append(b, c)) \in Seq(Line)
      <4> DEFINE e == Append(b, c)
      <4>1. L(e) = L(b) \o c
        BY <2>2, PieceFacts DEF Piece
      <4>2. e \in Seq(Piece)
        BY <3>1
      <4> HIDE DEF e
      <4>3. L(Append(e, <<>>)) = L(e) \o <<>>
        BY <3>1, <4>2, PieceFacts
      <4> QED
        BY <2>3, <4>1, <4>3 DEF e
    <3>3. m \o <<>> = m
      BY <2>3
    <3>4. BlockLines(new) = m
      BY <2>8, <3>2, <3>3 DEF BlockLines
    <3>5. Range(Append(b, c)) = Range(b) \cup {c}
      BY <2>2, RangeFacts DEF Piece
    <3>6. m # <<>>
      BY <2>2, <2>3, <2>8
    <3> QED
      BY <2>4, <2>6, <2>7, <2>8, <3>4, <3>5, <3>6 DEF BlocksWell
  <2>9. ASSUME new.blocks = b, new.current = Append(c, i)
        PROVE  BlocksWell(Append(s, i), new)
    <3>1. Append(c, i) \in Seq(Line) /\ Append(c, i) = c \o <<i>>
      BY <2>2, AppendFacts
    <3>2. L(Append(b, Append(c, i))) = L(b) \o Append(c, i)
      <4> DEFINE e == Append(c, i)
      <4>1. e \in Piece
        BY <3>1 DEF Piece
      <4> HIDE DEF e
      <4>2. L(Append(b, e)) = L(b) \o e
        BY <2>2, <4>1, PieceFacts
      <4> QED
        BY <4>2 DEF e
    <3>3. L(b) \o (c \o <<i>>) = (L(b) \o c) \o <<i>>
      BY <2>2, <2>3, OneMore
    <3>4. /\ BlockLines(new) = Append(m, i) /\ Range(Append(m, i)) = Range(m) \cup {i} /\ Append(m, i) # <<>>
          /\ Inc(Append(m, i)) <=> Inc(m) /\ Precedes(Range(m), {i})
      <4>1. Append(m, i) = m \o <<i>>
        BY <2>3, AppendFacts
      <4>2. BlockLines(new) = Append(m, i)
        BY <2>3, <2>9, <3>1, <3>2, <3>3, <4>1 DEF BlockLines
      <4>3. /\ Range(Append(m, i)) = Range(m) \cup {i} /\ Append(m, i) # <<>>
            /\ Inc(Append(m, i)) <=> Inc(m) /\ Precedes(Range(m), {i})
        <5> m \in Seq(Line)
          BY <2>3
        <5>1. Range(Append(m, i)) = Range(m) \cup {i}
          BY RangeFacts
        <5>2. Append(m, i) # <<>>
          BY <2>3, LastAppended
        <5>3. Inc(Append(m, i)) <=> Inc(m) /\ Precedes(Range(m), {i})
          BY <2>3, <2>5, AppendFacts
        <5> QED
          BY <5>1, <5>2, <5>3
      <4> QED
        BY <4>2, <4>3
    <3>5. Inc(Append(s, i)) => Inc(Append(m, i))
      BY <2>6, <2>7, <3>4 DEF Precedes
    <3> QED
      BY <2>4, <2>7, <2>9, <3>4, <3>5 DEF BlocksWell
  <2>10. BlocksWell(Append(s, i), new)
    BY <2>1, <2>8, <2>9 DEF BlockStep, b, c
  <2> QED
    BY <2>1, <2>10 DEF new
<1> HIDE DEF T
<1>3. Seq(Line) \subseteq T
  BY <1>1, <1>2, SeqInduction
<1> QED
  BY <1>0, <1>3 DEF T

\* Paragraphs are in order and hold every line that is not blank.
LEMMA ParagraphsFacts ==
    ASSUME ChunkTypeOK, NEW body \in Seq(Line), Inc(body)
    PROVE  /\ Ordered(Paragraphs(body)) /\ Range(L(Paragraphs(body))) \subseteq Range(body)
           /\ \A i \in Range(body) : IsBlank(i) \/ i \in Range(L(Paragraphs(body)))
           /\ body # <<>> => L(Paragraphs(body)) # <<>>
<1> DEFINE st == BlocksOf(body)
           b == st.blocks
           c == st.current
           ps == Paragraphs(body)
<1>1. st \in ParaState /\ BlocksWell(body, st)
  BY BlocksFacts
<1>2. ps = IF c = <<>> THEN b ELSE Append(b, c)
  BY DEF Paragraphs, BlocksOf, ParaState, Started
<1> HIDE DEF st, ps
<1>3. b \in Seq(Piece) /\ c \in Piece
  BY <1>1 DEF ParaState
<1>4. BlockLines(st) = L(Append(b, c)) /\ <<>> \notin Range(b)
  BY <1>1 DEF BlockLines, BlocksWell
<1> HIDE DEF b, c
<1>5. L(Append(b, c)) = L(b) \o c /\ L(b) \in Seq(Line) /\ Range(Append(b, c)) = Range(b) \cup {c}
  BY <1>3, PieceFacts, RangeFacts DEF Piece
<1>6. ps \in Seq(Piece) /\ <<>> \notin Range(ps) /\ L(ps) = BlockLines(st)
  <2>1. CASE c = <<>>
    <3>1. L(b) \o <<>> = L(b)
      BY <1>5
    <3> QED
      BY <1>2, <1>3, <1>4, <1>5, <2>1, <3>1
  <2>2. CASE c # <<>>
    BY <1>2, <1>3, <1>4, <1>5, <2>2
  <2> QED
    BY <2>1, <2>2
<1> QED
  BY <1>1, <1>6 DEF Ordered, BlocksWell, ps

\* A section is under no heading, or under a line that is one, and so are its lines.
Ruled(s) == Titled(s.heading) /\ \A i \in Range(s.body) : StandsUnder(i, s.heading)

SectionIsSound(s, cl) ==
    /\ cl \in Seq(Chunk) /\ InARow(cl) /\ LinesIn(cl) \subseteq Range(HeadLines(s.heading)) \cup Range(s.body)
    /\ \A i \in Range(s.body) : IsBlank(i) \/ InAChunk(cl, i)
    /\ s.heading # 0 => \/ InAChunk(cl, s.heading)
                        \/ s.body = <<>> /\ text[s.heading].words > ChunkSize

\* The chunks of one section: they hold its lines and its heading, unless that is
\* longer than a chunk and there is nothing under it.
LEMMA SectionSound ==
    ASSUME ChunkTypeOK, NEW s \in Section, Inc(s.body), Ruled(s)
    PROVE  SectionIsSound(s, SectionChunks(s))
<1> DEFINE h == s.heading
           b == s.body
           head == HeadLines(h)
           whole == head \o b
           sub == MergeSplits(Paragraphs(b))
           cl == SectionChunks(s)
<1>1. /\ h \in Nat /\ b \in Seq(Line) /\ b \in Piece /\ Inc(b)
      /\ Titled(h) /\ (h = 0 \/ (h \in Line /\ text[h].kind = "heading"))
      /\ \A i \in Range(b) : StandsUnder(i, h)
  BY SectionRecord DEF Piece, Titled, Ruled
<1>2. cl = IF \A k \in DOMAIN whole : IsBlank(whole[k]) THEN <<>>
           ELSE IF Words(whole) <= ChunkSize THEN <<[heading |-> h, pieces |-> <<b>>]>>
           ELSE Headed(h, sub)
  BY DEF SectionChunks, Headed, HeadLines
<1> HIDE DEF h, b, cl, sub
<1>3. head \in Seq(Line)
  BY <1>1, HeadLineFacts
<1>4. whole \in Seq(Line) /\ Range(whole) = Range(head) \cup Range(b)
  <2> HIDE DEF head
  <2> QED
    BY <1>1, <1>3, RangeFacts
<1>5. h # 0 => h \in Range(whole) /\ ~IsBlank(h)
  <2> SUFFICES ASSUME h # 0 PROVE h \in Range(whole) /\ ~IsBlank(h)
    OBVIOUS
  <2>1. head = <<h>> /\ h \in Line /\ text[h].kind = "heading"
    BY <1>1 DEF HeadLines
  <2>2. Range(<<h>>) = {h}
    BY <2>1, RangeFacts
  <2> HIDE DEF whole, head
  <2> QED
    BY <1>4, <2>1, <2>2 DEF IsBlank
<1>6. CASE \A k \in DOMAIN whole : IsBlank(whole[k])
  <2>1. cl = <<>> /\ \A i \in Range(whole) : IsBlank(i)
    BY <1>2, <1>6 DEF Range
  <2> HIDE DEF whole
  <2>2. h = 0 /\ \A i \in Range(b) : IsBlank(i)
    BY <1>4, <1>5, <2>1
  <2>3. InARow(<<>>) /\ LinesIn(<<>>) = {} /\ <<>> \in Seq(Chunk)
    BY EmptyRow
  <2> QED
    BY <2>1, <2>2, <2>3 DEF SectionIsSound, cl, b, h
<1>7. CASE ~(\A k \in DOMAIN whole : IsBlank(whole[k])) /\ Words(whole) <= ChunkSize
  <2> DEFINE c == <<b>>
             cs == <<c>>
  <2>1. /\ c \in Seq(Piece) /\ cs \in Seq(Seq(Piece)) /\ c # <<>> /\ cs = Append(<<>>, c) /\ <<>> \in Seq(Seq(Piece))
        /\ Len(cs) <= 1
    BY <1>1
  <2>2. L(c) = b
    BY <1>1, PieceFacts
  <2>3. Words(b) <= ChunkSize
    <3>1. head \in Piece
      BY <1>3 DEF Piece
    <3> HIDE DEF head
    <3>2. Words(head \o b) = Words(head) + Words(b) /\ Words(head) \in Nat /\ Words(b) \in Nat
      BY <1>1, <3>1, WordsFacts
    <3> QED
      BY <1>7, <3>2, ChunkerAssumption
  <2>4. Words(b) \in Nat
    BY <1>1, WordsFacts
  <2>5. ChunkIsSound(c)
    BY <1>1, <2>1, <2>2, <2>3, <2>4, ChunkerAssumption DEF ChunkIsSound
  <2>6. cl = Headed(h, cs)
    BY <1>2, <1>7 DEF Headed
  <2> HIDE DEF c
  <2>7. Neighbours(Append(<<>>, c)) /\ Held(Append(<<>>, c)) = {} \cup Range(L(c))
    BY <2>1, <2>5, NeighboursAppend, Zenon
  <2>8. Neighbours(cs) /\ Held(cs) = Range(b) /\ c \in Range(cs)
    BY <2>1, <2>2, <2>7, RangeFacts
  <2> HIDE DEF cs
  <2>9. /\ Headed(h, cs) \in Seq(Chunk) /\ InARow(Headed(h, cs))
        /\ LinesIn(Headed(h, cs)) \subseteq Range(head) \cup Held(cs)
        /\ \A x \in Range(cs) : [heading |-> h, pieces |-> x] \in Range(Headed(h, cs))
        /\ \A i \in Held(cs) : InAChunk(Headed(h, cs), i)
    BY <1>1, <2>1, <2>8, HeadedFacts, HeadedHolds, HeadedRow
  <2>10. InAChunk(cl, h)
    BY <2>6, <2>8, <2>9 DEF InAChunk
  <2> QED
    BY <2>6, <2>8, <2>9, <2>10 DEF SectionIsSound, cl, b, h
<1>8. CASE ~(\A k \in DOMAIN whole : IsBlank(whole[k])) /\ Words(whole) > ChunkSize
  <2> DEFINE ps == Paragraphs(b)
  <2>1. /\ Ordered(ps) /\ Range(L(ps)) \subseteq Range(b)
        /\ \A i \in Range(b) : IsBlank(i) \/ i \in Range(L(ps))
        /\ b # <<>> => L(ps) # <<>>
    BY <1>1, ParagraphsFacts
  <2> HIDE DEF ps
  <2>2. sub \in Seq(Seq(Piece)) /\ MergedWell(ps, sub)
    BY <2>1, MergeSound DEF sub, ps
  <2>3. Neighbours(sub) /\ Held(sub) = Range(L(ps)) /\ \A c \in Range(sub) : L(c) # <<>>
    BY <2>2 DEF MergedWell
  <2>4. cl = Headed(h, sub)
    <3>1. Words(whole) \in Nat
      BY <1>4, WordsFacts DEF Piece
    <3> HIDE DEF whole
    <3> QED
      BY <1>2, <1>8, <3>1, ChunkerAssumption
  <2>5. /\ Headed(h, sub) \in Seq(Chunk) /\ InARow(Headed(h, sub))
        /\ LinesIn(Headed(h, sub)) \subseteq Range(head) \cup Held(sub)
        /\ \A x \in Range(sub) : [heading |-> h, pieces |-> x] \in Range(Headed(h, sub))
        /\ \A i \in Held(sub) : InAChunk(Headed(h, sub), i)
    BY <1>1, <2>1, <2>2, <2>3, HeadedFacts, HeadedHolds, HeadedRow
  <2>6. ASSUME h # 0 PROVE InAChunk(cl, h) \/ (b = <<>> /\ text[h].words > ChunkSize)
    <3>1. CASE b # <<>>
      <4>1. L(ps) # <<>> /\ L(ps) \in Seq(Line)
        BY <2>1, <3>1, PieceFacts DEF Ordered, Piece
      <4>2. Last(L(ps)) \in Range(L(ps))
        BY <4>1, FrontLast, Zenon
      <4>3. PICK c \in Range(sub) : Last(L(ps)) \in Range(L(c))
        BY <2>3, <4>2 DEF Held
      <4> QED
        BY <2>4, <2>5, <4>3 DEF InAChunk
    <3>2. CASE b = <<>>
      <4>1. head = <<h>> /\ h \in Line
        BY <1>1, <2>6 DEF HeadLines
      <4>2. whole = <<h>>
        BY <3>2, <4>1
      <4>3. Words(<<h>>) = text[h].words
        BY <4>1, WordsFacts
      <4> QED
        BY <1>8, <3>2, <4>2, <4>3
    <3> QED
      BY <3>1, <3>2
  <2> QED
    BY <2>1, <2>3, <2>4, <2>5, <2>6 DEF SectionIsSound, cl, b, h
<1>9. Words(whole) \in Nat
  BY <1>4, WordsFacts DEF Piece
<1> HIDE DEF whole
<1>10. Words(whole) <= ChunkSize \/ Words(whole) > ChunkSize
  BY <1>9, ChunkerAssumption
<1> QED
  BY <1>6, <1>7, <1>8, <1>10 DEF cl

\* The chunks of sections, one section after the other.
ChunksOf(parts) == Gathered([section \in Section |-> SectionChunks(section)], parts, Chunk)

PartsAreSound(parts) ==
    (\A s \in Range(parts) : Ruled(s)) /\ Inc(PartLines(parts)) =>
        /\ ChunksOf(parts) \in Seq(Chunk) /\ InARow(ChunksOf(parts))
        /\ LinesIn(ChunksOf(parts)) \subseteq Range(PartLines(parts))
        /\ \A s \in Range(parts) : SectionIsSound(s, SectionChunks(s))
        /\ \A s \in Range(parts) : Range(SectionChunks(s)) \subseteq Range(ChunksOf(parts))

\* The chunks of any section are chunks.
LEMMA SectionChunksTyped ==
    ASSUME ChunkTypeOK, NEW s \in Section
    PROVE  SectionChunks(s) \in Seq(Chunk)
<1> DEFINE h == s.heading
           b == s.body
           ps == Paragraphs(b)
           sub == MergeSplits(ps)
           whole == HeadLines(h) \o b
<1>1. h \in Nat /\ b \in Piece
  BY SectionRecord
<1>2. SectionChunks(s) = IF \A k \in DOMAIN whole : IsBlank(whole[k]) THEN <<>>
                         ELSE IF Words(whole) <= ChunkSize THEN <<[heading |-> h, pieces |-> <<b>>]>>
                         ELSE Headed(h, sub)
  BY DEF SectionChunks, Headed, HeadLines
<1> HIDE DEF h, b, ps
<1>3. ps \in Seq(Piece)
  <2> DEFINE st == BlocksOf(b)
  <2>1. st \in ParaState
    BY <1>1, BlocksFacts DEF Piece
  <2>2. ps = IF st.current = <<>> THEN st.blocks ELSE Append(st.blocks, st.current)
    BY DEF ps, Paragraphs, BlocksOf, ParaState, Started
  <2> HIDE DEF st
  <2>3. st.blocks \in Seq(Piece) /\ st.current \in Piece
    BY <2>1 DEF ParaState
  <2> QED
    BY <2>2, <2>3
<1>4. sub \in Seq(Seq(Piece))
  BY <1>3, MergeAppend
<1> HIDE DEF sub, whole
<1>5. Headed(h, sub) \in Seq(Chunk)
  BY <1>1, <1>4, HeadedFacts
<1>6. <<[heading |-> h, pieces |-> <<b>>]>> \in Seq(Chunk)
  <2> DEFINE r == [heading |-> h, pieces |-> <<b>>]
  <2>1. r \in Chunk
    BY <1>1 DEF Chunk
  <2> HIDE DEF r
  <2>2. <<r>> \in Seq(Chunk)
    BY <2>1
  <2> QED
    BY <2>2 DEF r
<1>7. <<>> \in Seq(Chunk)
  OBVIOUS
<1> QED
  BY <1>2, <1>5, <1>6, <1>7

ChunkLaws ==
    /\ ChunksOf(<<>>) = <<>>
    /\ \A ps \in Seq(Section) : /\ ChunksOf(ps) \in Seq(Chunk)
                                /\ \A s \in Range(ps) : Range(SectionChunks(s)) \subseteq Range(ChunksOf(ps))
    /\ \A ps \in Seq(Section), s \in Section :
          ChunksOf(Append(ps, s)) = ChunksOf(ps) \o SectionChunks(s)

\* The chunks of sections, section by section.
LEMMA ChunksOfFacts == ChunkTypeOK => ChunkLaws
<1> SUFFICES ASSUME ChunkTypeOK PROVE ChunkLaws
  OBVIOUS
<1> DEFINE f == [section \in Section |-> SectionChunks(section)]
<1>1. f \in [Section -> Seq(Chunk)] /\ \A s \in Section : f[s] = SectionChunks(s)
  BY SectionChunksTyped
<1> HIDE DEF f
<1>2. Gathers(f, Section, Chunk)
  BY <1>1, GatheredFacts
<1>3. \A ps : ChunksOf(ps) = Gathered(f, ps, Chunk)
  BY DEF ChunksOf, f
<1>4. ASSUME NEW ps \in Seq(Section), NEW s \in Range(ps)
      PROVE  Range(SectionChunks(s)) \subseteq Range(ChunksOf(ps))
  <2>1. s \in Section
    BY RangeFacts
  <2>2. Range(ChunksOf(ps)) = UNION {Range(f[x]) : x \in Range(ps)}
    BY <1>2, <1>3 DEF Gathers
  <2> QED
    BY <1>1, <2>1, <2>2
<1>5. ChunksOf(<<>>) = <<>>
  BY <1>2, <1>3 DEF Gathers
<1>6. \A ps \in Seq(Section) : ChunksOf(ps) \in Seq(Chunk)
  BY <1>2, <1>3 DEF Gathers
<1>7. \A ps \in Seq(Section), s \in Section : ChunksOf(Append(ps, s)) = ChunksOf(ps) \o SectionChunks(s)
  BY <1>1, <1>2, <1>3 DEF Gathers
<1> QED
  BY <1>4, <1>5, <1>6, <1>7 DEF ChunkLaws

\* The chunks of sections in the order of the document.
LEMMA PartsSound ==
    ASSUME ChunkTypeOK, NEW parts \in Seq(Section)
    PROVE  PartsAreSound(parts)
<1> DEFINE T == {ps \in Seq(Section) : PartsAreSound(ps)}
<1>0. ChunkLaws
  BY ChunksOfFacts
<1>1. <<>> \in T
  <2>1. ChunksOf(<<>>) = <<>> /\ Range(<<>>) = {} /\ <<>> \in Seq(Section)
    BY <1>0, RangeFacts DEF ChunkLaws
  <2>2. InARow(<<>>) /\ LinesIn(<<>>) = {} /\ <<>> \in Seq(Chunk)
    BY EmptyRow
  <2> QED
    BY <2>1, <2>2 DEF PartsAreSound
<1>2. ASSUME NEW ps \in Seq(Section), NEW s \in Section, ps \in T PROVE Append(ps, s) \in T
  <2> DEFINE qs == Append(ps, s)
             cl == ChunksOf(ps)
             dl == SectionChunks(s)
  <2>1. qs \in Seq(Section) /\ Range(qs) = Range(ps) \cup {s}
    BY RangeFacts
  <2>2. /\ cl \in Seq(Chunk) /\ dl \in Seq(Chunk) /\ ChunksOf(qs) = cl \o dl /\ ChunksOf(qs) \in Seq(Chunk)
        /\ \A x \in Range(qs) : Range(SectionChunks(x)) \subseteq Range(ChunksOf(qs))
    BY <1>0, <2>1, SectionChunksTyped DEF ChunkLaws
  <2>3. /\ PartLines(qs) = PartLines(ps) \o (HeadLines(s.heading) \o s.body) /\ PartLines(ps) \in Seq(Nat)
        /\ HeadLines(s.heading) \in Seq(Nat) /\ s.body \in Seq(Nat)
    BY PartLinesFacts
  <2> HIDE DEF qs, cl, dl
  <2>4. ASSUME \A x \in Range(qs) : Ruled(x), Inc(PartLines(qs))
        PROVE  /\ InARow(ChunksOf(qs)) /\ LinesIn(ChunksOf(qs)) \subseteq Range(PartLines(qs))
               /\ \A x \in Range(qs) : SectionIsSound(x, SectionChunks(x))
    <3> DEFINE u == PartLines(ps)
               a == HeadLines(s.heading)
               b == s.body
    <3>0. u \in Seq(Nat) /\ a \in Seq(Nat) /\ b \in Seq(Nat) /\ PartLines(qs) = u \o (a \o b)
      BY <2>3
    <3> HIDE DEF u, a, b
    <3>1. /\ Inc(u) /\ Inc(b) /\ Precedes(Range(u), Range(a) \cup Range(b))
          /\ Range(PartLines(qs)) = Range(u) \cup (Range(a) \cup Range(b))
      <4>1. a \o b \in Seq(Nat)
        BY <3>0, ConcatFacts
      <4>2. Range(a \o b) = Range(a) \cup Range(b)
        BY <3>0, RangeFacts
      <4>3. Inc(u) /\ Inc(a \o b) /\ Precedes(Range(u), Range(a \o b))
        BY <2>4, <3>0, <4>1, IncConcat
      <4>4. Inc(b)
        BY <3>0, <4>3, IncConcat
      <4>5. Range(u \o (a \o b)) = Range(u) \cup Range(a \o b)
        <5> DEFINE w == a \o b
        <5>1. w \in Seq(Nat)
          BY <4>1
        <5> HIDE DEF w
        <5>2. Range(u \o w) = Range(u) \cup Range(w)
          BY <3>0, <5>1, RangeFacts
        <5> QED
          BY <5>2 DEF w
      <4> QED
        BY <3>0, <4>2, <4>3, <4>4, <4>5
    <3>2. Ruled(s) /\ \A x \in Range(ps) : Ruled(x)
      BY <2>1, <2>4
    <3>3. SectionIsSound(s, dl)
      BY <3>1, <3>2, SectionSound DEF dl, b
    <3>4. /\ InARow(cl) /\ LinesIn(cl) \subseteq Range(u)
          /\ \A x \in Range(ps) : SectionIsSound(x, SectionChunks(x))
      BY <1>2, <3>1, <3>2 DEF PartsAreSound, cl, u
    <3>5. InARow(dl) /\ LinesIn(dl) \subseteq Range(a) \cup Range(b)
      BY <3>3 DEF SectionIsSound, a, b
    <3>6. Precedes(LinesIn(cl), LinesIn(dl))
      BY <3>1, <3>4, <3>5 DEF Precedes
    <3>7. InARow(cl \o dl) /\ LinesIn(cl \o dl) = LinesIn(cl) \cup LinesIn(dl)
      BY <2>2, <3>4, <3>5, <3>6, RowConcat
    <3> QED
      BY <2>1, <2>2, <3>1, <3>3, <3>4, <3>5, <3>7 DEF dl
  <2>5. PartsAreSound(qs)
    BY <2>2, <2>4 DEF PartsAreSound
  <2> QED
    BY <2>1, <2>5 DEF qs
<1> HIDE DEF T
<1>3. Seq(Section) \subseteq T
  BY <1>1, <1>2, SeqInduction
<1> QED
  BY <1>3 DEF T

\* MarkdownChunker and ObsidianChunker: what is promised of their chunks.
LEMMA MarkdownSound == ChunkTypeOK => ChunkedWell(MarkdownChunks)
<1> SUFFICES ASSUME ChunkTypeOK PROVE ChunkedWell(MarkdownChunks)
  OBVIOUS
<1> DEFINE parts == Sections
           cl == ChunksOf(parts)
           n == Len(text)
<1>1. MarkdownChunks = cl
  BY DEF MarkdownChunks, ChunksOf
<1>2. Line = 1 .. n /\ n \in Nat
  BY LineFacts
<1>3. SectionsWell(parts, n)
  BY SectionsFacts
<1> HIDE DEF parts, n
<1>4. /\ parts \in Seq(Section) /\ Inc(PartLines(parts))
      /\ \A i \in 1 .. n : \E s \in Range(parts) : s.heading = i \/ i \in Range(s.body)
      /\ \A s \in Range(parts) : Ruled(s)
      /\ parts # <<>> =>
            /\ \A s \in Range(Front(parts)) :
                  s.body = <<>> => s.heading \in 1 .. n - 1 /\ text[s.heading + 1].kind = "heading"
            /\ Last(parts).body = <<>> => Last(parts).heading = n /\ n > 0
  BY <1>2, <1>3 DEF SectionsWell, Titled, Ruled
<1>5. /\ cl \in Seq(Chunk) /\ InARow(cl)
      /\ \A s \in Range(parts) : SectionIsSound(s, SectionChunks(s))
      /\ \A s \in Range(parts) : Range(SectionChunks(s)) \subseteq Range(cl)
  BY <1>4, PartsSound DEF PartsAreSound
<1> HIDE DEF cl
<1>6. ASSUME NEW i \in Line, ~IsBlank(i), ~LostHeading(i) PROVE InAChunk(cl, i)
  <2>1. PICK s \in Range(parts) : s.heading = i \/ i \in Range(s.body)
    BY <1>2, <1>4
  <2>2. SectionIsSound(s, SectionChunks(s)) /\ Range(SectionChunks(s)) \subseteq Range(cl)
    BY <1>5
  <2>3. InAChunk(SectionChunks(s), i) => InAChunk(cl, i)
    BY <2>2 DEF InAChunk
  <2>4. i # 0
    BY <1>2
  <2>5. CASE i \in Range(s.body)
    BY <1>6, <2>2, <2>3, <2>5 DEF SectionIsSound
  <2>6. CASE s.heading = i
    <3>1. InAChunk(SectionChunks(s), i) \/ (s.body = <<>> /\ text[i].words > ChunkSize)
      BY <2>2, <2>4, <2>6 DEF SectionIsSound
    <3>2. ASSUME s.body = <<>>, text[i].words > ChunkSize PROVE FALSE
      <4>1. parts # <<>>
        BY RangeFacts
      <4>2. Front(parts) \in Seq(Section) /\ Last(parts) \in Section /\ parts = Append(Front(parts), Last(parts))
        BY <1>4, <4>1, FrontLast, Zenon
      <4>3. s \in Range(Front(parts)) \/ s = Last(parts)
        <5> DEFINE u == Front(parts)
                   v == Last(parts)
        <5>1. u \in Seq(Section) /\ v \in Section /\ parts = Append(u, v)
          BY <4>2
        <5> HIDE DEF u, v
        <5>2. Range(Append(u, v)) = Range(u) \cup {v}
          BY <5>1, RangeFacts
        <5>3. s \in Range(Append(u, v))
          BY <5>1
        <5>4. s \in Range(u) \/ s = v
          BY <5>2, <5>3
        <5> QED
          BY <5>4 DEF u, v
      <4>4. Titled(s.heading)
        BY <1>4 DEF Ruled
      <4>5. text[i].kind = "heading"
        BY <2>4, <2>6, <4>4 DEF Titled
      <4>6. i = n \/ text[i + 1].kind = "heading"
        BY <1>4, <2>6, <3>2, <4>1, <4>3
      <4> QED
        BY <1>6, <3>2, <4>5, <4>6 DEF LostHeading, n
    <3> QED
      BY <2>3, <3>1, <3>2
  <2> QED
    BY <2>1, <2>5, <2>6
<1> QED
  BY <1>1, <1>5, <1>6 DEF ChunkedWell, Covers

----------------------------------------------------------------------------
(* The document grows by one line at a time.                               *)

\* The document keeps its type, for every number and length of lines.
THEOREM ChunkTypes == ChunkSpec => []ChunkTypeOK
<1> DEFINE R == [kind : LineKinds[docKind], words : LineWords]
<1>1. ChunkInit => ChunkTypeOK
  BY ChunkerAssumption DEF ChunkInit, ChunkTypeOK
<1>2. ASSUME ChunkTypeOK, [ChunkNext]_chunkVars PROVE ChunkTypeOK'
  <2>1. CASE ChunkNext
    <3>1. PICK kind \in LineKinds[docKind], words \in LineWords :
             text' = Append(text, [kind |-> kind, words |-> words])
      BY <2>1 DEF ChunkNext, AddLine
    <3>2. Len(text) < MaxLines /\ docKind' = docKind /\ docKind \in DOMAIN LineKinds
      BY <1>2, <2>1 DEF ChunkNext, AddLine, ChunkTypeOK
    <3> DEFINE r == [kind |-> kind, words |-> words]
    <3>3. r \in R
      BY <3>1
    <3>4. text \in Seq(R) /\ text' = Append(text, r)
      BY <1>2, <3>1 DEF ChunkTypeOK
    <3> HIDE DEF R, r
    <3>5. text' \in Seq(R) /\ Len(text') = Len(text) + 1 /\ Len(text) \in Nat
      BY <3>3, <3>4
    <3> QED
      BY <3>2, <3>5, ChunkerAssumption DEF ChunkTypeOK, R
  <2>2. CASE UNCHANGED chunkVars
    BY <1>2, <2>2 DEF ChunkTypeOK, chunkVars
  <2> QED
    BY <1>2, <2>1, <2>2
<1> QED
  BY <1>1, <1>2, PTL DEF ChunkSpec

\* The chunks of any document are sound, whatever its kind.
LEMMA ChunksSound == ChunkTypeOK => ChunksAreSound
<1> SUFFICES ASSUME ChunkTypeOK PROVE ChunksAreSound
  OBVIOUS
<1>1. ChunkedWell(Chunks)
  <2>1. CASE docKind = "markdown"
    BY <2>1, MarkdownSound DEF Chunks
  <2>2. CASE docKind # "markdown"
    BY <2>2, TextSound, CodeSound DEF Chunks
  <2> QED
    BY <2>1, <2>2
<1> QED
  BY <1>1, SoundWhen DEF ChunkedWell

\* Chunking loses no text but a heading longer than a chunk with nothing under it
\* and keeps the order of the document, every line under its own heading.  Apart from
\* the heading in front, a chunk exceeds ChunkSize only by one piece after a carry of
\* at most Overlap words, and repeats at most Overlap words of the chunk before; the
\* heading comes on top of both bounds, once for every chunk of its section
\* (rag/chunker.py), for every document, chunk size and overlap.
THEOREM ChunksAlwaysSound == ChunkSpec => []ChunksAreSound
BY ChunkTypes, ChunksSound, PTL

----------------------------------------------------------------------------
(* THE PACKAGES OF AN IMAGE (module Packages).                             *)

\* What is read from packages.yml.
PackData == Known \subseteq Packs /\ deps \in [Known -> SUBSET Packs] /\ required \subseteq Packs

\* A set of packages in order is a sequence of its elements.
LEMMA InOrderFacts ==
    ASSUME NEW S \in SUBSET Packs
    PROVE  InOrder(S) \in Seq(Packs) /\ Range(InOrder(S)) = S
<1> DEFINE s == [p \in Packs |-> p]
<1>1. MaxPackage \in Nat /\ Packs = 1 .. MaxPackage
  BY PackagesAssumption DEF Packs
<1>2. s \in Seq(Packs)
  BY <1>1
<1>3. Range(s) = Packs
  BY DEF Range
<1>4. InOrder(S) = Kept(s, Packs, S)
  BY DEF InOrder
<1> HIDE DEF s
<1>5. Selects(Packs, S)
  BY KeptFacts
<1>6. Kept(s, Packs, S) \in Seq(Packs) /\ Range(Kept(s, Packs, S)) = Range(s) \cap S
  BY <1>2, <1>5 DEF Selects
<1> QED
  BY <1>3, <1>4, <1>6

\* What is found once a package is entered, and once it is listed.
Entered(f, p) == [seen |-> f.seen \cup {p}, list |-> f.list]
Listed(f, p) == [seen |-> f.seen, list |-> Append(f.list, p)]

\* The records of what is found, and how a visit changes them.
LEMMA FoundRecord ==
    ASSUME PackData
    PROVE  /\ \A f \in Found : f.seen \in SUBSET Packs /\ f.list \in Seq(Known)
           /\ \A S \in SUBSET Packs, l \in Seq(Known) :
                 [seen |-> S, list |-> l] \in Found
           /\ \A f \in Found, p \in Packs : /\ [f EXCEPT !.seen = @ \cup {p}] = Entered(f, p)
                                            /\ Entered(f, p) \in Found
           /\ \A f \in Found : \A p : [f EXCEPT !.list = Append(@, p)] = Listed(f, p)
           /\ \A f \in Found, p \in Known : Listed(f, p) \in Found
<1>1. \A f \in Found : f.seen \in SUBSET Packs /\ f.list \in Seq(Known)
  BY DEF Found
<1>2. \A S \in SUBSET Packs, l \in Seq(Known) : [seen |-> S, list |-> l] \in Found
  BY DEF Found
<1>3. ASSUME NEW f \in Found
      PROVE  /\ \A e : [f EXCEPT !.seen = e] = [seen |-> e, list |-> f.list]
             /\ \A e : [f EXCEPT !.list = e] = [seen |-> f.seen, list |-> e]
  <2>1. PICK S \in SUBSET Packs, l \in Seq(Known) : f = [seen |-> S, list |-> l]
    BY DEF Found
  <2>2. f.seen = S /\ f.list = l
    BY <2>1
  <2>3. /\ \A e : [[seen |-> S, list |-> l] EXCEPT !.seen = e] = [seen |-> e, list |-> l]
        /\ \A e : [[seen |-> S, list |-> l] EXCEPT !.list = e] = [seen |-> S, list |-> e]
    OBVIOUS
  <2> QED
    BY <2>1, <2>2, <2>3
<1>4. \A f \in Found, p \in Packs : Entered(f, p) \in Found
  <2> TAKE f \in Found, p \in Packs
  <2>1. f.seen \cup {p} \in SUBSET Packs /\ f.list \in Seq(Known)
    BY <1>1
  <2> QED
    BY <1>2, <2>1 DEF Entered
<1>5. \A f \in Found, p \in Known : Listed(f, p) \in Found
  <2> TAKE f \in Found, p \in Known
  <2> HIDE DEF Known
  <2>1. Append(f.list, p) \in Seq(Known) /\ f.seen \in SUBSET Packs
    BY <1>1
  <2> QED
    BY <1>2, <2>1 DEF Listed
<1>6. \A f \in Found : \A p : [f EXCEPT !.seen = @ \cup {p}] = Entered(f, p)
  BY <1>3 DEF Entered
<1>7. \A f \in Found : \A p : [f EXCEPT !.list = Append(@, p)] = Listed(f, p)
  BY <1>3 DEF Listed
<1> QED
  BY <1>1, <1>2, <1>4, <1>5, <1>6, <1>7

\* One call, given what the calls further down do.
Visited(v, p, f) ==
    IF p \in f.seen THEN f
    ELSE IF p \notin Known THEN Entered(f, p)
    ELSE Listed(Fold(v, Entered(f, p), InOrder(deps[p])), p)

VisitType == [Packs -> [Found -> Found]]

\* How Visit unfolds: at depth 0 nothing is done, at any other one call is.
VisitLaws ==
    /\ \A n \in 0 .. MaxPackage : Visit[n] \in VisitType
    /\ \A p \in Packs, f \in Found : Visit[0][p][f] = f
    /\ \A n \in 1 .. MaxPackage, p \in Packs, f \in Found :
          Visit[n][p][f] = Visited(Visit[n - 1], p, f)

\* A call gives a record of what is found.
LEMMA VisitedTyped ==
    ASSUME PackData, NEW v \in VisitType, NEW p \in Packs, NEW f \in Found
    PROVE  Visited(v, p, f) \in Found
<1>1. Entered(f, p) \in Found
  BY FoundRecord
<1>2. CASE p \in Known
  <2>1. deps[p] \in SUBSET Packs
    BY <1>2 DEF PackData
  <2>2. InOrder(deps[p]) \in Seq(Packs)
    BY <2>1, InOrderFacts
  <2>3. \A s \in Seq(Packs) : Fold(v, Entered(f, p), s) \in Found
    BY <1>1, FoldAppend DEF VisitType
  <2>4. Listed(Fold(v, Entered(f, p), InOrder(deps[p])), p) \in Found
    BY <1>2, <2>2, <2>3, FoundRecord
  <2> QED
    BY <1>1, <2>4 DEF Visited
<1>3. CASE p \notin Known
  BY <1>1, <1>3 DEF Visited
<1> QED
  BY <1>2, <1>3

\* The recursive function of _resolve exists: RecursionExists gives one that takes
\* its steps, so the one that CHOOSE names takes them too.
LEMMA VisitFacts == PackData => VisitLaws
<1> SUFFICES ASSUME PackData PROVE VisitLaws
  OBVIOUS
<1> DEFINE N == MaxPackage
           D == VisitType
           b == [p \in Packs |-> [f \in Found |-> f]]
           next(v) == [p \in Packs |-> [f \in Found |-> Visited(v, p, f)]]
           G == [n \in 1 .. N |-> [v \in D |-> next(v)]]
           Body(g, depth) == [p \in Packs |-> [found \in Found |->
                LET entered == [found EXCEPT !.seen = @ \cup {p}]
                    below == Fold(g[depth - 1], entered, InOrder(deps[p]))
                IN  IF depth = 0 \/ p \in found.seen THEN found
                    ELSE IF p \notin Known THEN entered
                    ELSE [below EXCEPT !.list = Append(@, p)]]]
           Equation(g) == g = [depth \in 0 .. N |-> Body(g, depth)]
           u == CHOOSE g : Equation(g)
<1>1. N \in Nat
  BY PackagesAssumption
<1>2. Visit = u
  BY DEF Visit
<1> HIDE DEF u
<1>3. b \in D
  BY DEF VisitType
<1>4. \A v \in D : next(v) \in D
  BY VisitedTyped DEF VisitType
<1>5. G \in [1 .. N -> [D -> D]] /\ \A n \in 1 .. N : \A v \in D : G[n][v] = next(v)
  <2> HIDE DEF next, D, N
  <2> QED
    BY <1>4
<1>6. ASSUME NEW g, NEW n \in 1 .. N, g[n - 1] \in D PROVE Body(g, n) = next(g[n - 1])
  <2>1. n # 0
    BY <1>1
  <2> DEFINE B(p, found) ==
                LET entered == [found EXCEPT !.seen = @ \cup {p}]
                    below == Fold(g[n - 1], entered, InOrder(deps[p]))
                IN  IF n = 0 \/ p \in found.seen THEN found
                    ELSE IF p \notin Known THEN entered
                    ELSE [below EXCEPT !.list = Append(@, p)]
  <2>2. ASSUME NEW p \in Packs, NEW f \in Found
        PROVE  B(p, f) = Visited(g[n - 1], p, f)
    <3>1. [f EXCEPT !.seen = @ \cup {p}] = Entered(f, p) /\ Entered(f, p) \in Found
      BY FoundRecord
    <3>2. CASE p \in f.seen
      BY <2>1, <3>2 DEF Visited
    <3>3. CASE p \notin f.seen /\ p \notin Known
      BY <2>1, <3>1, <3>3 DEF Visited
    <3>4. CASE p \notin f.seen /\ p \in Known
      <4> DEFINE e == Fold(g[n - 1], Entered(f, p), InOrder(deps[p]))
      <4>1. InOrder(deps[p]) \in Seq(Packs)
        BY <3>4, InOrderFacts DEF PackData
      <4>2. \A s \in Seq(Packs) : Fold(g[n - 1], Entered(f, p), s) \in Found
        BY <1>6, <3>1, FoldAppend DEF VisitType
      <4>3. e \in Found
        BY <4>1, <4>2
      <4>4. B(p, f) = [e EXCEPT !.list = Append(@, p)]
        BY <2>1, <3>1, <3>4
      <4>5. Visited(g[n - 1], p, f) = Listed(e, p)
        BY <3>4 DEF Visited
      <4> HIDE DEF e, B
      <4> QED
        BY <4>3, <4>4, <4>5, FoundRecord
    <3> QED
      BY <3>2, <3>3, <3>4
  <2>3. Body(g, n) = [p \in Packs |-> [f \in Found |-> B(p, f)]]
    OBVIOUS
  <2> HIDE DEF B, Body
  <2> QED
    BY <2>2, <2>3
<1>7. \A g : Body(g, 0) = b
  OBVIOUS
<1> HIDE DEF Body, b, next, G, D, N
<1>8. Equation(u)
  <2>1. PICK g \in [0 .. N -> D] : Unfolds(g, N, b, G)
    BY <1>1, <1>3, <1>5, RecursionExists
  <2>2. ASSUME NEW n \in 1 .. N PROVE g[n] = Body(g, n)
    <3>1. n - 1 \in 0 .. N
      BY <1>1
    <3>2. g[n - 1] \in D
      BY <2>1, <3>1
    <3>3. g[n] = next(g[n - 1])
      BY <1>5, <2>1, <3>2 DEF Unfolds
    <3> QED
      BY <1>6, <3>2, <3>3
  <2>3. g[0] = Body(g, 0)
    BY <1>7, <2>1 DEF Unfolds
  <2>4. \A n \in 0 .. N : n = 0 \/ n \in 1 .. N
    BY <1>1
  <2>5. Equation(g)
    BY <2>1, <2>2, <2>3, <2>4
  <2> HIDE DEF Equation
  <2> QED
    BY <2>5 DEF u
<1>9. u[0] = b /\ \A n \in 1 .. N : n \in 0 .. N /\ n - 1 \in 0 .. N /\ u[n] = Body(u, n)
  <2>1. 0 \in 0 .. N /\ \A n \in 1 .. N : n \in 0 .. N /\ n - 1 \in 0 .. N
    BY <1>1
  <2> QED
    BY <1>7, <1>8, <2>1
<1>10. \A n \in 0 .. N : u[n] \in D
  <2>1. \A n \in 1 .. N : u[n - 1] \in D => u[n] \in D
    BY <1>4, <1>6, <1>9
  <2>2. u[0] \in D
    BY <1>3, <1>9
  <2> HIDE DEF Equation
  <2> QED
    BY <1>1, <2>1, <2>2, RecursionTyped
<1>11. \A n \in 1 .. N : u[n] = next(u[n - 1])
  BY <1>6, <1>9, <1>10
<1>12. \A n \in 0 .. MaxPackage : Visit[n] \in VisitType
  BY <1>2, <1>10 DEF D, N
<1>13. \A p \in Packs, f \in Found : Visit[0][p][f] = f
  BY <1>2, <1>9 DEF b
<1>14. ASSUME NEW n \in 1 .. MaxPackage, NEW p \in Packs, NEW f \in Found
       PROVE  Visit[n][p][f] = Visited(Visit[n - 1], p, f)
  <2> DEFINE v == Visit[n - 1]
  <2>1. Visit[n] = next(v)
    BY <1>2, <1>11 DEF N
  <2> HIDE DEF v
  <2>2. next(v)[p][f] = Visited(v, p, f)
    BY DEF next
  <2>3. Visit[n][p][f] = Visited(v, p, f)
    BY <2>1, <2>2
  <2> QED
    BY <2>3 DEF v
<1> QED
  BY <1>12, <1>13, <1>14 DEF VisitLaws

\* A package is below itself, what it needs is below it, and all that is below it is
\* in every closed set that holds it.
BelowLaws ==
    /\ \A p \in Known : p \in Below(p) /\ Below(p) \subseteq Known /\ IsClosed(Below(p))
    /\ \A p \in Known, q \in Known : q \in Below(p) => \A d \in deps[q] \cap Known : d \in Below(p)
    /\ \A S \in SUBSET Known : \A p \in S : IsClosed(S) => Below(p) \subseteq S

\* All that a package needs, directly or not, has these laws.
LEMMA BelowFacts == BelowLaws
<1>1. \A p \in Known : p \in Below(p) /\ Below(p) \subseteq Known
  BY DEF Below
<1>2. ASSUME NEW p \in Known, NEW q \in Below(p), NEW d \in deps[q] \cap Known PROVE d \in Below(p)
  <2>1. q \in Known /\ \A s \in SUBSET Known : IsClosed(s) /\ p \in s => q \in s
    BY <1>2 DEF Below
  <2>2. ASSUME NEW s \in SUBSET Known, IsClosed(s), p \in s PROVE d \in s
    BY <2>1, <2>2 DEF IsClosed
  <2> QED
    BY <2>2 DEF Below
<1>3. \A p \in Known : IsClosed(Below(p))
  BY <1>2 DEF IsClosed
<1>4. \A S \in SUBSET Known : \A p \in S : IsClosed(S) => Below(p) \subseteq S
  BY DEF Below
<1> QED
  BY <1>1, <1>2, <1>3, <1>4 DEF BelowLaws

\* The packages that are being visited: entered, and not listed yet.
Gray(f) == (f.seen \cap Known) \ Range(f.list)

\* A listed package comes after what it needs, or that needs it in turn.
After(f, i, d) == (\E j \in DOMAIN f.list : j < i /\ f.list[j] = d) \/ f.list[i] \in Below(d)

\* What is found so far is sound, and within W.
WellVisited(W, f) ==
    /\ f \in Found
    /\ Range(f.list) \subseteq f.seen /\ f.seen \cap Known \subseteq W
    /\ \A i, j \in DOMAIN f.list : i # j => f.list[i] # f.list[j]
    /\ \A i \in DOMAIN f.list : \A d \in deps[f.list[i]] :
         d \in f.seen /\ (d \in Known => After(f, i, d))

\* A package is visited because all that are being visited need it.
Chain(f, p) == p \in Known => \A g \in Gray(f) : p \in Below(g)

\* What visits leave: the packages of S are seen, those that were being visited still
\* are, and no others.
Settled(W, f, S, r) == WellVisited(W, r) /\ Gray(r) = Gray(f) /\ f.seen \subseteq r.seen /\ S \subseteq r.seen

\* At most n packages are not seen.
Room(f, n) == Cardinality(Packs \ f.seen) <= n

\* Visits v do their work when at most n packages are not seen.
Works(W, v, n) ==
    \A f \in Found, p \in Packs :
       WellVisited(W, f) /\ Chain(f, p) /\ (p \in Known => p \in W) /\ Room(f, n)
       => Settled(W, f, {p}, v[p][f])

\* Entering a package leaves less room, and with no room all is seen.
LEMMA RoomFacts ==
    /\ \A f \in Found : Room(f, MaxPackage)
    /\ \A f \in Found, p \in Packs : Room(f, 0) => p \in f.seen
    /\ \A f \in Found, p \in Packs, n \in Nat : p \notin f.seen /\ Room(f, n + 1) => Room(Entered(f, p), n)
    /\ \A f, r \in Found, n \in Nat : Room(f, n) /\ f.seen \subseteq r.seen => Room(r, n)
<1>1. IsFiniteSet(Packs) /\ Cardinality(Packs) = MaxPackage /\ MaxPackage \in Nat
  BY FS_Interval, PackagesAssumption DEF Packs
<1>2. \A S : IsFiniteSet(Packs \ S) /\ Cardinality(Packs \ S) \in Nat /\ Cardinality(Packs \ S) <= MaxPackage
  BY <1>1, FS_Subset, FS_CardinalityType
<1>3. \A S, T : S \subseteq T => Cardinality(Packs \ T) <= Cardinality(Packs \ S)
  <2> TAKE S, T
  <2> HAVE S \subseteq T
  <2>1. (Packs \ T) \subseteq (Packs \ S)
    OBVIOUS
  <2> QED
    BY <1>2, <2>1, FS_Subset
<1>4. \A S : \A p \in Packs : p \notin S => Cardinality(Packs \ (S \cup {p})) = Cardinality(Packs \ S) - 1
  <2> TAKE S
  <2> TAKE p \in Packs
  <2> HAVE p \notin S
  <2>1. Packs \ (S \cup {p}) = (Packs \ S) \ {p} /\ p \in Packs \ S
    OBVIOUS
  <2> QED
    BY <1>2, <2>1, FS_RemoveElement
<1>5. \A S : \A p \in Packs : Cardinality(Packs \ S) <= 0 => p \in S
  <2> SUFFICES ASSUME NEW S, NEW p \in Packs, Cardinality(Packs \ S) <= 0, p \notin S PROVE FALSE
    OBVIOUS
  <2>1. Cardinality(Packs \ S) = 0
    BY <1>2
  <2>2. Packs \ S = {}
    BY <1>2, <2>1, FS_EmptySet
  <2> QED
    BY <2>2
<1>6. \A f \in Found : Room(f, MaxPackage)
  BY <1>2 DEF Room
<1>7. \A f \in Found, p \in Packs : Room(f, 0) => p \in f.seen
  BY <1>5 DEF Room
<1>8. ASSUME NEW f \in Found, NEW p \in Packs, NEW n \in Nat, p \notin f.seen, Room(f, n + 1)
      PROVE  Room(Entered(f, p), n)
  <2>1. Entered(f, p).seen = f.seen \cup {p}
    BY DEF Entered
  <2> DEFINE c == Cardinality(Packs \ f.seen)
             e == Cardinality(Packs \ (f.seen \cup {p}))
  <2>2. e = c - 1 /\ c \in Nat /\ e \in Nat
    BY <1>2, <1>4, <1>8
  <2>3. c <= n + 1
    BY <1>8 DEF Room
  <2> HIDE DEF c, e
  <2>4. e <= n
    BY <2>2, <2>3
  <2> QED
    BY <2>1, <2>4 DEF Room, e
<1>9. ASSUME NEW f \in Found, NEW r \in Found, NEW n \in Nat, Room(f, n), f.seen \subseteq r.seen
      PROVE Room(r, n)
  <2> DEFINE c == Cardinality(Packs \ f.seen)
             e == Cardinality(Packs \ r.seen)
  <2>1. e <= c /\ c \in Nat /\ e \in Nat
    BY <1>2, <1>3, <1>9
  <2>2. c <= n
    BY <1>9 DEF Room
  <2> HIDE DEF c, e
  <2>3. e <= n
    BY <2>1, <2>2
  <2> QED
    BY <2>3 DEF Room, e
<1> QED
  BY <1>6, <1>7, <1>8, <1>9

\* Visits that do their work for one package do it for the packages of a list, one
\* after the other, by induction over the list.
LEMMA RunSettles ==
    ASSUME NEW v \in VisitType, NEW W, NEW n \in Nat, Works(W, v, n),
           NEW e \in Found, WellVisited(W, e), Room(e, n)
    PROVE  \A s \in Seq(Packs) :
              (\A d \in Range(s) : Chain(e, d) /\ (d \in Known => d \in W))
              => Settled(W, e, Range(s), Fold(v, e, s))
<1> DEFINE Ask(s) == \A d \in Range(s) : Chain(e, d) /\ (d \in Known => d \in W)
           P(s) == Ask(s) => Settled(W, e, Range(s), Fold(v, e, s))
           U == {s \in Seq(Packs) : P(s)}
<1>0. /\ Fold(v, e, <<>>) = e
      /\ \A s \in Seq(Packs) : Fold(v, e, s) \in Found
      /\ \A s \in Seq(Packs), a \in Packs : Fold(v, e, Append(s, a)) = v[a][Fold(v, e, s)]
  BY FoldAppend DEF VisitType
<1>1. <<>> \in U
  <2>1. <<>> \in Seq(Packs) /\ Range(<<>>) = {}
    BY RangeFacts
  <2>2. Settled(W, e, {}, e)
    BY DEF Settled
  <2> QED
    BY <1>0, <2>1, <2>2
<1>2. ASSUME NEW s \in Seq(Packs), NEW a \in Packs, s \in U PROVE Append(s, a) \in U
  <2>1. Append(s, a) \in Seq(Packs) /\ Range(Append(s, a)) = Range(s) \cup {a}
    BY RangeFacts
  <2>2. P(Append(s, a))
    <3> SUFFICES ASSUME Ask(Append(s, a))
                 PROVE  Settled(W, e, Range(s) \cup {a}, Fold(v, e, Append(s, a)))
      BY <2>1
    <3> DEFINE r == Fold(v, e, s)
               t == v[a][r]
    <3>1. Ask(s) /\ Chain(e, a) /\ (a \in Known => a \in W)
      BY <2>1
    <3>2. Settled(W, e, Range(s), r)
      BY <1>2, <3>1
    <3>3. r \in Found /\ Fold(v, e, Append(s, a)) = t
      BY <1>0
    <3> HIDE DEF r, t
    <3>4. WellVisited(W, r) /\ Gray(r) = Gray(e) /\ e.seen \subseteq r.seen /\ Range(s) \subseteq r.seen
      BY <3>2 DEF Settled
    <3>5. Chain(r, a)
      BY <3>1, <3>4 DEF Chain
    <3>6. Room(r, n)
      BY <3>3, <3>4, RoomFacts
    <3>7. Settled(W, r, {a}, t)
      BY <3>1, <3>3, <3>4, <3>5, <3>6 DEF Works, t
    <3>8. Settled(W, e, Range(s) \cup {a}, t)
      BY <3>4, <3>7 DEF Settled
    <3> QED
      BY <3>3, <3>8
  <2> HIDE DEF P
  <2> QED
    BY <2>1, <2>2
<1> HIDE DEF U, P
<1>3. Seq(Packs) \subseteq U
  BY <1>1, <1>2, SeqInduction
<1> QED
  BY <1>3 DEF U, P

\* Entering a package adds it to those being visited.
LEMMA EnteredGood ==
    ASSUME PackData, NEW W, NEW f \in Found, WellVisited(W, f), NEW p \in Packs, p \notin f.seen, p \in Known => p \in W
    PROVE  /\ WellVisited(W, Entered(f, p))
           /\ Gray(Entered(f, p)) = Gray(f) \cup ({p} \cap Known)
           /\ f.seen \subseteq Entered(f, p).seen /\ p \in Entered(f, p).seen
           /\ p \notin Range(f.list)
<1> DEFINE e == Entered(f, p)
<1>1. e \in Found /\ e.seen = f.seen \cup {p} /\ e.list = f.list
  BY FoundRecord DEF Entered
<1> HIDE DEF e
<1>2. p \notin Range(f.list)
  BY DEF WellVisited
<1>3. Gray(e) = Gray(f) \cup ({p} \cap Known)
  BY <1>1, <1>2 DEF Gray
<1>4. WellVisited(W, e)
  BY <1>1 DEF WellVisited, After
<1> QED
  BY <1>1, <1>2, <1>3, <1>4 DEF e

\* Listing a package when all it needs is seen keeps what is found sound: what is seen
\* and not listed is being visited, and needs the package.
LEMMA ListedGood ==
    ASSUME PackData, NEW W, NEW r \in Found, WellVisited(W, r), NEW p \in Known,
           p \in Gray(r), deps[p] \subseteq r.seen,
           \A g \in Gray(r) : p \in Below(g)
    PROVE  WellVisited(W, Listed(r, p)) /\ Gray(Listed(r, p)) = Gray(r) \ {p} /\ Listed(r, p).seen = r.seen
<1> DEFINE t == Listed(r, p)
           N == Len(r.list)
<1>1. t \in Found /\ t.seen = r.seen /\ t.list = Append(r.list, p) /\ r.list \in Seq(Known)
  BY FoundRecord DEF Listed
<1>2. Range(t.list) = Range(r.list) \cup {p}
  BY <1>1, RangeFacts
<1>3. Gray(t) = Gray(r) \ {p}
  BY <1>1, <1>2 DEF Gray
<1>4. /\ N \in Nat /\ DOMAIN r.list = 1 .. N /\ DOMAIN t.list = 1 .. N + 1
      /\ \A i \in 1 .. N : i \in 1 .. N + 1 /\ t.list[i] = r.list[i] /\ r.list[i] \in Range(r.list)
      /\ t.list[N + 1] = p
      /\ \A i \in 1 .. N + 1 : i \in 1 .. N \/ i = N + 1
      /\ \A i \in 1 .. N : i < N + 1
  BY <1>1 DEF Range
<1> HIDE DEF t, N
<1>5. p \notin Range(r.list) /\ p \in r.seen
  BY DEF Gray
<1>6. \A i, j \in DOMAIN t.list : i # j => t.list[i] # t.list[j]
  <2>1. \A i, j \in 1 .. N : i # j => r.list[i] # r.list[j]
    BY <1>4 DEF WellVisited
  <2> QED
    BY <1>4, <1>5, <2>1
<1>7. ASSUME NEW i \in DOMAIN t.list, NEW d \in deps[t.list[i]]
      PROVE  d \in t.seen /\ (d \in Known => After(t, i, d))
  <2>1. CASE i \in 1 .. N
    <3>1. d \in r.seen /\ (d \in Known => After(r, i, d))
      BY <1>4, <2>1, <1>7 DEF WellVisited
    <3>2. After(r, i, d) => After(t, i, d)
      BY <1>4, <2>1 DEF After
    <3> QED
      BY <1>1, <3>1, <3>2
  <2>2. CASE i = N + 1
    <3>1. d \in deps[p] /\ d \in r.seen
      BY <1>4, <1>7, <2>2
    <3>2. ASSUME d \in Known PROVE After(t, i, d)
      <4>1. CASE d \in Range(r.list)
        <5>1. PICK j \in 1 .. N : r.list[j] = d
          BY <1>4, <4>1 DEF Range
        <5>2. j \in DOMAIN t.list /\ j < i /\ t.list[j] = d
          BY <1>4, <2>2, <5>1
        <5> QED
          BY <5>2 DEF After
      <4>2. CASE d \notin Range(r.list)
        <5>1. d \in Gray(r)
          BY <3>1, <3>2, <4>2 DEF Gray
        <5>2. t.list[i] \in Below(d)
          BY <1>4, <2>2, <5>1
        <5> QED
          BY <5>2 DEF After
      <4> QED
        BY <4>1, <4>2
    <3> QED
      BY <1>1, <3>1, <3>2
  <2> QED
    BY <1>4, <2>1, <2>2
<1>8. Range(t.list) \subseteq t.seen /\ t.seen \cap Known \subseteq W
  BY <1>1, <1>2, <1>5 DEF WellVisited
<1>9. WellVisited(W, t)
  BY <1>1, <1>6, <1>7, <1>8 DEF WellVisited
<1> QED
  BY <1>1, <1>3, <1>9 DEF t

\* One call does its work if the calls further down do, which have less room.
LEMMA VisitedSettles ==
    ASSUME PackData, NEW v \in VisitType, NEW W \in SUBSET Known, IsClosed(W), NEW n \in Nat, Works(W, v, n),
           NEW f \in Found, NEW p \in Packs,
           WellVisited(W, f), Chain(f, p), p \in Known => p \in W, Room(f, n + 1)
    PROVE  Settled(W, f, {p}, Visited(v, p, f))
<1>1. CASE p \in f.seen
  <2>1. Visited(v, p, f) = f
    BY <1>1 DEF Visited
  <2> QED
    BY <1>1, <2>1 DEF Settled
<1>2. CASE p \notin f.seen
  <2> DEFINE e == Entered(f, p)
  <2>1. /\ WellVisited(W, e) /\ Gray(e) = Gray(f) \cup ({p} \cap Known) /\ e \in Found
        /\ f.seen \subseteq e.seen /\ p \in e.seen /\ p \notin Range(f.list)
    BY <1>2, EnteredGood, FoundRecord
  <2>2. Room(e, n)
    BY <1>2, RoomFacts
  <2> HIDE DEF e
  <2>3. CASE p \notin Known
    <3>1. Visited(v, p, f) = e
      BY <1>2, <2>3 DEF Visited, e
    <3>2. Gray(e) = Gray(f)
      BY <2>1, <2>3
    <3> QED
      BY <2>1, <3>1, <3>2 DEF Settled
  <2>4. CASE p \in Known
    <3> DEFINE s == InOrder(deps[p])
               r == Fold(v, e, s)
    <3>1. deps[p] \in SUBSET Packs
      BY <2>4 DEF PackData
    <3>2. s \in Seq(Packs) /\ Range(s) = deps[p]
      BY <3>1, InOrderFacts
    <3>3. Gray(e) = Gray(f) \cup {p}
      BY <2>1, <2>4
    <3>4. Gray(f) \subseteq Known
      BY DEF Gray
    <3>5. \A g \in Gray(e) : p \in Below(g)
      BY <2>4, <3>3, BelowFacts DEF Chain, BelowLaws
    <3>6. ASSUME NEW d \in deps[p] PROVE Chain(e, d) /\ (d \in Known => d \in W)
      <4>1. d \in Known => d \in W
        BY <2>4 DEF IsClosed
      <4>2. ASSUME d \in Known, NEW g \in Gray(e) PROVE d \in Below(g)
        <5>1. g \in Known /\ p \in Below(g)
          BY <2>4, <3>3, <3>4, <3>5
        <5> QED
          BY <2>4, <4>2, <5>1, BelowFacts DEF BelowLaws
      <4> QED
        BY <4>1, <4>2 DEF Chain
    <3>7. Visited(v, p, f) = Listed(r, p)
      BY <1>2, <2>4 DEF Visited, e
    <3> HIDE DEF s
    <3>8. Settled(W, e, Range(s), r)
      BY <2>1, <2>2, <3>2, <3>6, RunSettles
    <3> HIDE DEF r
    <3>9. WellVisited(W, r) /\ Gray(r) = Gray(e) /\ e.seen \subseteq r.seen /\ deps[p] \subseteq r.seen
      BY <3>2, <3>8 DEF Settled
    <3>10. r \in Found
      BY <3>9 DEF WellVisited
    <3>11. WellVisited(W, Listed(r, p)) /\ Gray(Listed(r, p)) = Gray(r) \ {p} /\ Listed(r, p).seen = r.seen
      BY <2>4, <3>3, <3>5, <3>9, <3>10, ListedGood
    <3>12. p \notin Gray(f)
      BY <1>2 DEF Gray
    <3>13. Gray(Listed(r, p)) = Gray(f)
      BY <3>3, <3>9, <3>11, <3>12
    <3>14. f.seen \subseteq r.seen /\ p \in r.seen
      BY <2>1, <3>9
    <3> QED
      BY <3>7, <3>11, <3>13, <3>14 DEF Settled
  <2> QED
    BY <2>3, <2>4
<1> QED
  BY <1>1, <1>2

\* So every call does, by induction on the depth: no call goes deeper than there are
\* packages, so the bound of Visit never cuts one off.
LEMMA VisitWorks ==
    ASSUME PackData, NEW W \in SUBSET Known, IsClosed(W)
    PROVE  Works(W, Visit[MaxPackage], MaxPackage)
<1> DEFINE P(n) == n \in 0 .. MaxPackage => Works(W, Visit[n], n)
           S == {n \in Nat : P(n)}
<1>0. MaxPackage \in Nat
  BY PackagesAssumption
<1>1. /\ \A n \in 0 .. MaxPackage : Visit[n] \in VisitType
      /\ \A p \in Packs, f \in Found : Visit[0][p][f] = f
      /\ \A n \in 1 .. MaxPackage, p \in Packs, f \in Found : Visit[n][p][f] = Visited(Visit[n - 1], p, f)
  BY VisitFacts DEF VisitLaws
<1>2. 0 \in S
  <2>1. ASSUME NEW f \in Found, NEW p \in Packs, WellVisited(W, f), Room(f, 0)
        PROVE  Settled(W, f, {p}, Visit[0][p][f])
    <3>1. p \in f.seen
      BY <2>1, RoomFacts
    <3>2. Visit[0][p][f] = f
      BY <1>1
    <3> QED
      BY <2>1, <3>1, <3>2 DEF Settled
  <2>2. Works(W, Visit[0], 0)
    BY <2>1 DEF Works
  <2> QED
    BY <2>2
<1>3. ASSUME NEW n \in Nat, n \in S PROVE n + 1 \in S
  <2> SUFFICES ASSUME n + 1 \in 0 .. MaxPackage PROVE Works(W, Visit[n + 1], n + 1)
    BY <1>3
  <2> DEFINE v == Visit[n]
  <2>1. n \in 0 .. MaxPackage /\ n + 1 \in 1 .. MaxPackage /\ n + 1 - 1 = n
    BY <1>0
  <2>2. v \in VisitType /\ Works(W, v, n)
    BY <1>1, <1>3, <2>1
  <2>3. \A p \in Packs, f \in Found : Visit[n + 1][p][f] = Visited(v, p, f)
    BY <1>1, <2>1
  <2> HIDE DEF v
  <2> QED
    BY <2>2, <2>3, VisitedSettles DEF Works
<1> HIDE DEF S, P
<1>4. Nat \subseteq S
  BY <1>2, <1>3, Induction
<1> QED
  BY <1>0, <1>4 DEF S, P

\* What a list of packages asks for.
Wanted(selected) == UNION {Below(p) : p \in (required \cup Range(selected)) \cap Known}

\* What ManifestsAreComplete says of one manifest.
ListsAll(list, selected) ==
    /\ Range(list) = Wanted(selected)
    /\ \A i, j \in DOMAIN list :
         /\ i # j => list[i] # list[j]
         /\ list[j] \in deps[list[i]] => j < i \/ list[i] \in Below(list[j])

\* resolve_dependencies of the registry, for every file of packages and every list of
\* them, with cycles, unknown names and repeated ones.
LEMMA ResolveFacts ==
    ASSUME PackData, NEW selected \in Seq(Packs)
    PROVE  Resolve(selected) \in Seq(Known) /\ ListsAll(Resolve(selected), selected)
<1> DEFINE s == InOrder(required \cap Known) \o selected
           e == [seen |-> {}, list |-> <<>>]
           v == Visit[MaxPackage]
           r == Fold(v, e, s)
           W == Wanted(selected)
           roots == (required \cup Range(selected)) \cap Known
<1>1. MaxPackage \in Nat
  BY PackagesAssumption
<1>2. v \in VisitType
  BY <1>1, VisitFacts DEF VisitLaws
<1>3. e \in Found /\ e.seen = {} /\ e.list = <<>>
  <2>1. {} \in SUBSET Packs /\ <<>> \in Seq(Known)
    BY RangeFacts
  <2> QED
    BY <2>1, FoundRecord
<1>4. s \in Seq(Packs) /\ Range(s) = (required \cap Known) \cup Range(selected)
  <2> DEFINE a == InOrder(required \cap Known)
  <2>1. required \cap Known \in SUBSET Packs
    BY DEF PackData
  <2>2. a \in Seq(Packs) /\ Range(a) = required \cap Known
    BY <2>1, InOrderFacts
  <2> HIDE DEF a
  <2>3. a \o selected \in Seq(Packs) /\ Range(a \o selected) = Range(a) \cup Range(selected)
    BY <2>2, RangeFacts
  <2> QED
    BY <2>2, <2>3 DEF a
<1>5. Resolve(selected) = r.list
  BY DEF Resolve
<1> HIDE DEF s, e, v
<1>6. W \in SUBSET Known /\ IsClosed(W) /\ roots \subseteq W
  <2>1. \A p \in roots : p \in Below(p) /\ Below(p) \subseteq Known /\ IsClosed(Below(p))
    BY BelowFacts DEF BelowLaws
  <2> QED
    BY <2>1 DEF Wanted, IsClosed
<1>7. \A S \in SUBSET Known : IsClosed(S) /\ roots \subseteq S => W \subseteq S
  BY BelowFacts DEF BelowLaws, Wanted
<1>8. WellVisited(W, e) /\ Gray(e) = {}
  <2>1. Range(<<>>) = {} /\ DOMAIN <<>> = {}
    BY DEF Range
  <2> QED
    BY <1>3, <2>1 DEF WellVisited, Gray
<1>9. Room(e, MaxPackage)
  BY <1>3, RoomFacts
<1>10. \A d \in Range(s) : Chain(e, d) /\ (d \in Known => d \in W)
  BY <1>4, <1>6, <1>8 DEF Chain
<1>11. Works(W, v, MaxPackage)
  BY <1>6, VisitWorks DEF v
<1> HIDE DEF W
<1>12. Settled(W, e, Range(s), r)
  BY <1>1, <1>2, <1>3, <1>4, <1>8, <1>9, <1>10, <1>11, RunSettles
<1> HIDE DEF r
<1>13. WellVisited(W, r) /\ Gray(r) = {} /\ Range(s) \subseteq r.seen
  BY <1>8, <1>12 DEF Settled
<1>14. r.list \in Seq(Known)
  BY <1>13, FoundRecord DEF WellVisited
<1>15. Range(r.list) = r.seen \cap Known
  <2>1. Range(r.list) \subseteq Known
    BY <1>14, RangeFacts
  <2> QED
    BY <1>13, <2>1 DEF WellVisited, Gray
<1>16. IsClosed(Range(r.list))
  <2>1. ASSUME NEW q \in Range(r.list), NEW d \in deps[q] \cap Known PROVE d \in Range(r.list)
    <3>1. PICK i \in DOMAIN r.list : r.list[i] = q
      BY DEF Range
    <3>2. d \in r.seen
      BY <1>13, <3>1 DEF WellVisited
    <3> QED
      BY <1>15, <3>2
  <2> QED
    BY <2>1 DEF IsClosed
<1>17. roots \subseteq Range(r.list)
  BY <1>4, <1>13, <1>15
<1>18. Range(r.list) = W
  <2>1. Range(r.list) \subseteq W
    BY <1>13, <1>15 DEF WellVisited
  <2>2. Range(r.list) \in SUBSET Known
    BY <1>15
  <2>3. W \subseteq Range(r.list)
    BY <1>7, <1>16, <1>17, <2>2
  <2> QED
    BY <2>1, <2>3
<1>19. ASSUME NEW i \in DOMAIN r.list, NEW j \in DOMAIN r.list
       PROVE  /\ i # j => r.list[i] # r.list[j]
              /\ r.list[j] \in deps[r.list[i]] => j < i \/ r.list[i] \in Below(r.list[j])
  <2>1. i # j => r.list[i] # r.list[j]
    BY <1>13 DEF WellVisited
  <2>2. ASSUME r.list[j] \in deps[r.list[i]] PROVE j < i \/ r.list[i] \in Below(r.list[j])
    <3>1. r.list[j] \in Known
      BY <1>14
    <3>2. After(r, i, r.list[j])
      BY <1>13, <2>2, <3>1 DEF WellVisited
    <3>3. \A k \in DOMAIN r.list : r.list[k] = r.list[j] => k = j
      BY <1>13 DEF WellVisited
    <3> QED
      BY <3>2, <3>3 DEF After
  <2> QED
    BY <2>1, <2>2
<1>20. ListsAll(r.list, selected)
  BY <1>18, <1>19 DEF ListsAll, W
<1> QED
  BY <1>5, <1>14, <1>20

\* What the wizards and POST /profiles are given are lists of packages.
LEMMA SelectedTyped ==
    \A selected \in SetToAllKPermutations(Packs) \cup ImagePresets : selected \in Seq(Packs)
<1>1. IsFiniteSet(Packs)
  BY FS_Interval, PackagesAssumption DEF Packs
<1>2. ASSUME NEW S \in SUBSET Packs, NEW selected \in SetToSeqs(S) PROVE selected \in Seq(Packs)
  <2>1. Cardinality(S) \in Nat
    BY <1>1, FS_Subset, FS_CardinalityType
  <2>2. selected \in [1 .. Cardinality(S) -> S]
    BY DEF SetToSeqs
  <2> DEFINE n == Cardinality(S)
  <2>3. n \in Nat /\ selected \in [1 .. n -> Packs]
    BY <2>1, <2>2
  <2> HIDE DEF n
  <2> QED
    BY <2>3
<1> QED
  BY <1>2, PackagesAssumption DEF SetToAllKPermutations

\* A manifest of a profile is what its packages resolve to.
ManifestsMatch ==
    \A f \in Profiles : profile[f] # NoList =>
       manifest[f] \in {NoList, Manifest(f)} /\ buildFile[f] \in {NoList, Manifest(f)}

\* The manifest that a build is about exists, and is what the build has read once it
\* has started.
BuildsMatch ==
    \A b \in Builds : build[b] # NoBuild =>
       /\ manifest[build[b].profile] # NoList
       /\ build[b].status \in {"running", "completed"} => build[b].read = manifest[build[b].profile]

PackInv == PackTypeOK /\ ManifestsMatch /\ BuildsMatch

\* Manifests are sound lists of known packages, and none is NoList.
LEMMA ManifestFacts ==
    ASSUME PackTypeOK
    PROVE  /\ PackData
           /\ NoList \notin Seq(Packs) /\ NoList \notin Seq(Known) /\ Seq(Known) \subseteq Seq(Packs)
           /\ \A f \in Profiles : profile[f] # NoList =>
                 Manifest(f) \in Seq(Known) /\ ListsAll(Manifest(f), profile[f])
<1>1. PackData
  BY DEF PackTypeOK, PackData
<1>2. NoList \notin Seq(Packs) /\ NoList \notin Seq(Known) /\ Seq(Known) \subseteq Seq(Packs)
  <2>1. NoList[1] = 0 /\ Len(NoList) = 1
    BY DEF NoList
  <2>2. \A A : \A s \in Seq(A) : Len(s) = 1 => s[1] \in A
    OBVIOUS
  <2>3. 0 \notin Packs
    BY PackagesAssumption DEF Packs
  <2>4. Known \subseteq Packs
    BY <1>1 DEF PackData
  <2>5. \A A, B : A \subseteq B => Seq(A) \subseteq Seq(B)
    OBVIOUS
  <2> HIDE DEF Known
  <2> QED
    BY <2>1, <2>2, <2>3, <2>4, <2>5
<1>3. ASSUME NEW f \in Profiles, profile[f] # NoList
      PROVE  Manifest(f) \in Seq(Known) /\ ListsAll(Manifest(f), profile[f])
  <2>1. profile[f] \in Seq(Packs)
    BY <1>3 DEF PackTypeOK
  <2> QED
    BY <1>1, <2>1, ResolveFacts DEF Manifest
<1> QED
  BY <1>1, <1>2, <1>3

\* The invariant holds at first.
LEMMA PackTypeInit == PackInit => PackInv
<1> SUFFICES ASSUME PackInit PROVE PackInv
  OBVIOUS
<1>1. PICK known \in {1 .. MaxPackage - 1, Packs} : deps \in [known -> SUBSET Packs]
  BY DEF PackInit
<1>2. Known = known
  BY <1>1 DEF Known
<1>3. MaxPackage \in Nat \ {0}
  BY PackagesAssumption
<1>4. known \subseteq Packs /\ 1 \in Packs
  BY <1>3 DEF Packs
<1>5. required \subseteq Packs
  BY <1>4 DEF PackInit
<1>6. PackTypeOK
  BY <1>1, <1>2, <1>4, <1>5 DEF PackInit, PackTypeOK
<1>7. ManifestsMatch /\ BuildsMatch
  BY DEF PackInit, ManifestsMatch, BuildsMatch
<1> QED
  BY <1>6, <1>7 DEF PackInv

\* Every step of the packages keeps their types.
LEMMA PackStep ==
    ASSUME PackTypeOK, [PackNext]_packVars
    PROVE  PackTypeOK'
<1> USE DEF PackTypeOK
<1>0. PackData /\ Known = DOMAIN deps
  BY ManifestFacts DEF Known
<1>1. ASSUME UNCHANGED packFile
      PROVE  /\ Known' = Known
             /\ (Known \subseteq Packs /\ deps \in [Known -> SUBSET Packs] /\ required \subseteq Packs)'
  <2>1. Known' = Known
    BY <1>1 DEF packFile, Known
  <2> HIDE DEF Known
  <2> QED
    BY <1>1, <2>1 DEF packFile, Packs
<1>2. ASSUME NEW f \in Profiles, NEW selected \in Seq(Packs),
             CreateProfile(f, selected) \/ Configure(f, selected) \/ Wizard(f, selected)
      PROVE  PackTypeOK'
  <2>1. Resolve(selected) \in Seq(Packs)
    BY <1>0, ResolveFacts, ManifestFacts
  <2>2. profile' \in [Profiles -> Seq(Packs) \cup {NoList}]
    BY <1>2, <2>1 DEF CreateProfile, Configure, Wizard
  <2>3. UNCHANGED <<packFile, manifest, buildFile, build>>
    BY <1>2 DEF CreateProfile, Configure, Wizard
  <2> HIDE DEF Known
  <2> QED
    BY <1>1, <2>2, <2>3 DEF BuildRecords
<1>3. ASSUME NEW f \in Profiles, profile[f] # NoList PROVE Manifest(f) \in Seq(Known)
  BY <1>3, ManifestFacts
<1>4. ASSUME NEW f \in Profiles, DeleteProfile(f) PROVE PackTypeOK'
  <2> HIDE DEF Known
  <2> QED
    BY <1>1, <1>4 DEF DeleteProfile, BuildRecords
<1>5. ASSUME NEW f \in Profiles, BuildByCommand(f) PROVE PackTypeOK'
  <2>1. buildFile' \in [Profiles -> Seq(Known) \cup {NoList}]
    BY <1>3, <1>5 DEF BuildByCommand
  <2> HIDE DEF Known
  <2> QED
    BY <1>1, <1>5, <2>1 DEF BuildByCommand, BuildRecords
<1>6. ASSUME NEW f \in Profiles, ImageBuild(f) PROVE PackTypeOK'
  <2>1. manifest' \in [Profiles -> Seq(Known) \cup {NoList}]
    BY <1>3, <1>6 DEF ImageBuild, Export
  <2> HIDE DEF Known
  <2> QED
    BY <1>1, <1>6, <2>1 DEF ImageBuild, BuildRecords
<1>7. ASSUME NEW b \in Builds, NEW f \in Profiles, TriggerBuild(b, f) PROVE PackTypeOK'
  <2>1. manifest' \in [Profiles -> Seq(Known) \cup {NoList}]
    BY <1>3, <1>7 DEF TriggerBuild, Export
  <2>2. build' \in [Builds -> BuildRecords \cup {NoBuild}]
    BY <1>7 DEF TriggerBuild, BuildRecords
  <2>3. UNCHANGED <<packFile, profile, buildFile>>
    BY <1>7 DEF TriggerBuild
  <2> HIDE DEF Known
  <2> QED
    BY <1>1, <2>1, <2>2, <2>3 DEF BuildRecords
<1>8. ASSUME NEW b \in Builds, RunBuild(b) \/ BuildEnds(b) PROVE PackTypeOK'
  <2>1. build[b] \in BuildRecords
    BY <1>8 DEF RunBuild, BuildEnds, NoBuild
  <2>2. manifest[build[b].profile] \in Seq(Known) \cup {NoList}
    BY <2>1 DEF BuildRecords
  <2>3. build' \in [Builds -> BuildRecords \cup {NoBuild}]
    <3>1. \A st \in {"pending", "running", "completed", "failed"} : [build[b] EXCEPT !.status = st] \in BuildRecords
      BY <2>1 DEF BuildRecords
    <3>2. [build[b] EXCEPT !.status = "running", !.read = manifest[build[b].profile]] \in BuildRecords
      BY <2>1, <2>2 DEF BuildRecords
    <3>3. PICK r \in BuildRecords : build' = [build EXCEPT ![b] = r]
      BY <1>8, <3>1, <3>2 DEF RunBuild, BuildEnds
    <3> QED
      BY <3>3
  <2>4. UNCHANGED <<packFile, profile, manifest, buildFile>>
    BY <1>8 DEF RunBuild, BuildEnds
  <2> HIDE DEF Known
  <2> QED
    BY <1>1, <2>3, <2>4 DEF BuildRecords
<1>9. ASSUME RestartController PROVE PackTypeOK'
  <2>1. build' \in [Builds -> BuildRecords \cup {NoBuild}]
    BY <1>9 DEF RestartController
  <2> HIDE DEF Known
  <2> QED
    BY <1>1, <1>9, <2>1 DEF RestartController, BuildRecords
<1>10. ASSUME UNCHANGED packVars PROVE PackTypeOK'
  <2> HIDE DEF Known
  <2> QED
    BY <1>1, <1>10 DEF packVars, BuildRecords
<1> QED
  BY <1>2, <1>4, <1>5, <1>6, <1>7, <1>8, <1>9, <1>10, SelectedTyped DEF PackNext

\* While the file and a profile stay, so does the manifest of the profile.
LEMMA ManifestSame ==
    ASSUME UNCHANGED packFile, NEW f, profile'[f] = profile[f]
    PROVE  Manifest(f)' = Manifest(f)
<1>1. deps' = deps /\ required' = required
  BY DEF packFile
<1>2. Known' = Known
  BY <1>1 DEF Known
<1>3. Visit' = Visit
  BY <1>1 DEF Visit, Found, Known
<1> QED
  BY <1>1, <1>2, <1>3 DEF Manifest, Resolve

\* Every step keeps manifests those of their profiles, and builds those of their
\* manifests: lists change as Stays says, and a manifest that is made again is the
\* same, so a build that has read it has read what is there.
LEMMA ManifestsStep ==
    ASSUME PackTypeOK, ManifestsMatch, BuildsMatch, [PackNext]_packVars
    PROVE  ManifestsMatch' /\ BuildsMatch'
<1> DEFINE Stays(f) ==
              /\ profile'[f] # NoList => profile'[f] = profile[f] \/ New(f)
              /\ manifest'[f] = manifest[f] \/ (profile[f] # NoList /\ manifest'[f] = Manifest(f))
              /\ buildFile'[f] = buildFile[f] \/ (profile[f] # NoList /\ buildFile'[f] = Manifest(f))
              /\ profile'[f] # profile[f] => manifest'[f] = manifest[f] /\ buildFile'[f] = buildFile[f]
           Lists == \A f \in Profiles : Stays(f)
<1>0. /\ profile \in [Profiles -> Seq(Packs) \cup {NoList}]
      /\ manifest \in [Profiles -> Seq(Known) \cup {NoList}]
      /\ buildFile \in [Profiles -> Seq(Known) \cup {NoList}]
      /\ build \in [Builds -> BuildRecords \cup {NoBuild}]
  BY DEF PackTypeOK
<1>1. ASSUME UNCHANGED packFile, Lists PROVE ManifestsMatch'
  <2> SUFFICES ASSUME NEW f \in Profiles, profile'[f] # NoList
               PROVE  (manifest[f])' \in {NoList, Manifest(f)'} /\ (buildFile[f])' \in {NoList, Manifest(f)'}
    BY DEF ManifestsMatch
  <2>1. CASE profile'[f] = profile[f]
    <3>1. Manifest(f)' = Manifest(f)
      BY <1>1, <2>1, ManifestSame
    <3>2. manifest[f] \in {NoList, Manifest(f)} /\ buildFile[f] \in {NoList, Manifest(f)}
      BY <2>1 DEF ManifestsMatch
    <3>3. Stays(f)
      BY <1>1
    <3> QED
      BY <3>1, <3>2, <3>3
  <2>2. CASE profile'[f] # profile[f]
    <3>1. New(f) /\ manifest'[f] = manifest[f] /\ buildFile'[f] = buildFile[f]
      BY <1>1, <2>2
    <3> QED
      BY <3>1 DEF New
  <2> QED
    BY <2>1, <2>2
<1>2. ASSUME Lists PROVE \A f \in Profiles : manifest[f] # NoList => manifest'[f] = manifest[f]
  BY <1>2 DEF ManifestsMatch
<1>3. \A b \in Builds : build[b] # NoBuild => build[b].profile \in Profiles
  BY <1>0 DEF BuildRecords
<1>4. ASSUME Lists, UNCHANGED build PROVE BuildsMatch'
  BY <1>2, <1>3, <1>4 DEF BuildsMatch
<1>5. ASSUME NEW f \in Profiles, NEW selected \in Seq(Packs),
             CreateProfile(f, selected) \/ Configure(f, selected) \/ Wizard(f, selected)
      PROVE  Lists /\ UNCHANGED packFile /\ UNCHANGED build
  <2>1. /\ New(f) /\ UNCHANGED <<packFile, manifest, buildFile, build>>
        /\ \A g \in Profiles : g # f => profile'[g] = profile[g]
    BY <1>0, <1>5 DEF CreateProfile, Configure, Wizard
  <2> QED
    BY <2>1
<1>6. ASSUME NEW f \in Profiles, DeleteProfile(f) PROVE Lists /\ UNCHANGED packFile /\ UNCHANGED build
  BY <1>0, <1>6 DEF DeleteProfile
<1>7. ASSUME NEW f \in Profiles, BuildByCommand(f) PROVE Lists /\ UNCHANGED packFile /\ UNCHANGED build
  BY <1>0, <1>7 DEF BuildByCommand
<1>8. ASSUME NEW f \in Profiles, ImageBuild(f) PROVE Lists /\ UNCHANGED packFile /\ UNCHANGED build
  BY <1>0, <1>8 DEF ImageBuild, Export
<1>9. ASSUME NEW b \in Builds, NEW f \in Profiles, TriggerBuild(b, f)
      PROVE  ManifestsMatch' /\ BuildsMatch'
  <2>1. Lists /\ UNCHANGED packFile
    BY <1>0, <1>9 DEF TriggerBuild, Export
  <2>2. manifest'[f] = Manifest(f) /\ Manifest(f) # NoList
    <3>1. Manifest(f) \in Seq(Known) /\ NoList \notin Seq(Known)
      BY <1>9, ManifestFacts DEF TriggerBuild
    <3> QED
      BY <1>0, <1>9, <3>1 DEF TriggerBuild, Export
  <2>3. /\ build'[b] = [profile |-> f, status |-> "pending", read |-> NoList]
        /\ \A c \in Builds : c # b => build'[c] = build[c]
    BY <1>0, <1>9 DEF TriggerBuild
  <2>4. ASSUME NEW c \in Builds, build'[c] # NoBuild
        PROVE  /\ manifest'[build'[c].profile] # NoList
               /\ build'[c].status \in {"running", "completed"} =>
                     build'[c].read = manifest'[build'[c].profile]
    <3>1. CASE c = b
      BY <2>2, <2>3, <3>1
    <3>2. CASE c # b
      BY <1>2, <1>3, <2>1, <2>3, <2>4, <3>2 DEF BuildsMatch
    <3> QED
      BY <3>1, <3>2
  <2> QED
    BY <1>1, <2>1, <2>4 DEF BuildsMatch
<1>10. ASSUME NEW b \in Builds, RunBuild(b) \/ BuildEnds(b) PROVE ManifestsMatch' /\ BuildsMatch'
  <2>1. UNCHANGED <<packFile, profile, manifest, buildFile>>
    BY <1>10 DEF RunBuild, BuildEnds
  <2>2. build[b] \in BuildRecords /\ build[b] # NoBuild
    BY <1>0, <1>10 DEF RunBuild, BuildEnds, NoBuild
  <2>3. /\ \A c \in Builds : c # b => build'[c] = build[c]
        /\ build'[b].profile = build[b].profile
        /\ build'[b].status \in {"running", "completed"} => build'[b].read = manifest[build[b].profile]
    <3>1. \A c \in Builds : c # b => build'[c] = build[c]
      BY <1>0, <1>10 DEF RunBuild, BuildEnds
    <3>2. CASE RunBuild(b)
      BY <1>0, <2>2, <3>2 DEF RunBuild, BuildRecords
    <3>3. CASE BuildEnds(b)
      <4>1. build[b].read = manifest[build[b].profile]
        BY <2>2, <3>3 DEF BuildEnds, BuildsMatch
      <4> QED
        BY <1>0, <2>2, <3>3, <4>1 DEF BuildEnds, BuildRecords
    <3> QED
      BY <1>10, <3>1, <3>2, <3>3
  <2>4. Lists
    BY <2>1
  <2>5. BuildsMatch'
    BY <2>1, <2>2, <2>3 DEF BuildsMatch
  <2> QED
    BY <1>1, <2>1, <2>4, <2>5
<1>11. ASSUME RestartController PROVE ManifestsMatch' /\ BuildsMatch'
  <2>1. Lists /\ UNCHANGED packFile
    BY <1>11 DEF RestartController
  <2>2. BuildsMatch'
    BY <1>11 DEF RestartController, BuildsMatch
  <2> QED
    BY <1>1, <2>1, <2>2
<1>12. ASSUME UNCHANGED packVars PROVE ManifestsMatch' /\ BuildsMatch'
  <2>1. Lists /\ UNCHANGED packFile /\ UNCHANGED build
    BY <1>12 DEF packVars
  <2> QED
    BY <1>1, <1>4, <2>1
<1> HIDE DEF Lists
<1>13. CASE PackNext
  BY <1>1, <1>4, <1>5, <1>6, <1>7, <1>8, <1>9, <1>10, <1>11, <1>13, SelectedTyped DEF PackNext
<1> QED
  BY <1>12, <1>13

\* Manifests that match their profiles are complete.
LEMMA MatchIsComplete == PackTypeOK /\ ManifestsMatch /\ BuildsMatch => ManifestsAreComplete
<1> SUFFICES ASSUME PackTypeOK, ManifestsMatch, BuildsMatch, NEW f \in Profiles, profile[f] # NoList
             PROVE  /\ \A list \in {manifest[f], buildFile[f]} \ {NoList} : ListsAll(list, profile[f])
                    /\ \A b \in Builds : build[b].profile = f /\ build[b].status = "completed" =>
                          build[b].read = manifest[f]
  BY DEF ManifestsAreComplete, ListsAll, Wanted
<1>1. ListsAll(Manifest(f), profile[f])
  BY ManifestFacts
<1>2. \A list \in {manifest[f], buildFile[f]} \ {NoList} : list = Manifest(f)
  BY DEF ManifestsMatch
<1>3. \A b \in Builds : build[b].status = "completed" => build[b] # NoBuild
  BY DEF NoBuild
<1> QED
  BY <1>1, <1>2, <1>3 DEF BuildsMatch

\* The inductive invariant of the packages.
LEMMA PackInvariant == PackSpec => []PackInv
<1>1. PackInit => PackInv
  BY PackTypeInit
<1>2. PackInv /\ [PackNext]_packVars => PackInv'
  BY PackStep, ManifestsStep DEF PackInv
<1> QED
  BY <1>1, <1>2, PTL DEF PackSpec

\* The variables of the packages, the profiles and the builds keep their types
\* (dlc/registry.py, dlc/profiles.py, controller/image_routes.py).
THEOREM PackTypes == PackSpec => []PackTypeOK
<1>1. PackInv => PackTypeOK
  BY DEF PackInv
<1> QED
  BY <1>1, PackInvariant, PTL

\* The manifest of a profile lists exactly what is asked for, the required packages and
\* all they need, once each and after what they need but for cycles, and a build that
\* completed has read it (resolve_dependencies and _resolve of dlc/registry.py,
\* to_build_manifest of dlc/profiles.py, _run_build of controller/image_routes.py).
THEOREM ManifestsAlwaysComplete == PackSpec => []ManifestsAreComplete
<1>1. PackInv => ManifestsAreComplete
  BY MatchIsComplete DEF PackInv
<1> QED
  BY <1>1, PackInvariant, PTL

=============================================================================
