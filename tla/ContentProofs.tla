---------------------------- MODULE ContentProofs ----------------------------
(***************************************************************************)
(* Proofs about Excerpts, for texts, offsets and limits of any size, and   *)
(* about UploadSource, for every source.                                   *)
(***************************************************************************)
EXTENDS UploadSource, Excerpts, SequenceTheorems, TLAPS

LEMMA MinOfTwo == ASSUME NEW i \in Int, NEW j \in Int
                  PROVE  Min({i, j}) = IF i <= j THEN i ELSE j
<1>1. \E x \in {i, j} : \A y \in {i, j} : x <= y
  OBVIOUS
<1>2. QED
  BY <1>1 DEF Min

LEMMA MaxOfTwo == ASSUME NEW i \in Int, NEW j \in Int
                  PROVE  Max({i, j}) = IF i <= j THEN j ELSE i
<1>1. \E x \in {i, j} : \A y \in {i, j} : x >= y
  OBVIOUS
<1>2. QED
  BY <1>1 DEF Max

\* The function of which SumSet takes one value.
Sums(f, S) ==
    f = [s \in SUBSET S |-> IF s = {} THEN 0
                            ELSE (CHOOSE x \in s : TRUE) + f[s \ {CHOOSE x \in s : TRUE}]]

LEMMA SumOfSums == ASSUME NEW S PROVE SumSet(S) = (CHOOSE f : Sums(f, S))[S]
  BY DEF SumSet, FoldSet, MapThenFoldSet, Sums

LEMMA SumNone == SumSet({}) = 0
<1> DEFINE f == [s \in SUBSET {} |-> 0]
<1>1. Sums(f, {})
  <2>1. \A s \in SUBSET {} : s = {}
    OBVIOUS
  <2>2. QED
    BY <2>1 DEF Sums
<1> HIDE DEF f
<1>2. Sums(CHOOSE g : Sums(g, {}), {})
  BY <1>1
<1>3. ASSUME NEW g, Sums(g, {}) PROVE g[{}] = 0
  BY <1>3, Zenon DEF Sums
<1>4. QED
  BY <1>2, <1>3, SumOfSums

LEMMA SumOne == ASSUME NEW a \in Int PROVE SumSet({a}) = a
<1> DEFINE f == [s \in SUBSET {a} |-> IF s = {} THEN 0 ELSE a]
           chosen(s) == CHOOSE x \in s : TRUE
<1>1. \A s \in SUBSET {a} : s # {} => s = {a}
  OBVIOUS
<1>2. chosen({a}) = a /\ {a} \ {a} = {}
  OBVIOUS
<1>3. Sums(f, {a})
  <2>1. ASSUME NEW s \in SUBSET {a}, s # {} PROVE chosen(s) + f[s \ {chosen(s)}] = a
    <3>1. s = {a} /\ chosen(s) = a
      BY <1>1, <1>2, <2>1
    <3>2. s \ {chosen(s)} = {}
      BY <3>1
    <3>3. f[s \ {chosen(s)}] = 0
      BY <3>2
    <3> HIDE DEF f, chosen
    <3>4. QED
      BY <3>1, <3>3
  <2>2. \A s \in SUBSET {a} :
          (IF s = {} THEN 0 ELSE a)
            = (IF s = {} THEN 0 ELSE chosen(s) + f[s \ {chosen(s)}])
    BY <2>1
  <2> HIDE DEF chosen
  <2>3. f = [s \in SUBSET {a} |-> IF s = {} THEN 0 ELSE chosen(s) + f[s \ {chosen(s)}]]
    BY <2>2
  <2>4. QED
    BY <2>3, Zenon DEF Sums, chosen
<1> HIDE DEF f
<1>4. Sums(CHOOSE g : Sums(g, {a}), {a})
  BY <1>3
<1>5. ASSUME NEW g, Sums(g, {a}) PROVE g[{a}] = a
  <2>1. \A s \in SUBSET {a} : g[s] = IF s = {} THEN 0 ELSE chosen(s) + g[s \ {chosen(s)}]
    BY <1>5, Zenon DEF Sums
  <2> HIDE DEF chosen
  <2>2. g[{}] = 0
    BY <2>1
  <2>3. g[{a}] = chosen({a}) + g[{a} \ {chosen({a})}]
    BY <2>1
  <2>4. QED
    BY <1>2, <2>2, <2>3
<1>6. QED
  BY <1>4, <1>5, SumOfSums

-----------------------------------------------------------------------------
(* Excerpts.  A text is never empty, and the text that was read last is a   *)
(* prefix of it but for its last line.                                     *)
TextInv ==
    /\ lines \in Seq(Line) /\ original \in Seq(Line)
    /\ Len(lines) \in 1 .. MaxLines
    /\ Len(original) \in 1 .. Len(lines)
    /\ \A i \in 1 .. Len(original) - 1 : lines[i] = original[i]

(* While there is more to read, the next page begins in the text, and its  *)
(* end is an int.                                                          *)
NextPageInv ==
    tool = "file_read" /\ reader = "more" =>
        /\ offset \in Nat /\ end \in offset .. Len(original) - 1
        /\ limit \in 0 .. MaxLines

ExcerptsInv ==
    TextInv /\ NextPageInv /\ PanicsHaveACause /\ PagesCoverFile /\ OmissionsAreTold

AnInt == - MaxInt - 1 .. MaxInt

LEMMA WrappedInts ==
    /\ \A i \in AnInt : Wrapped(i) = i
    /\ \A i \in MaxInt + 1 .. 2 * MaxInt : Wrapped(i) < 0
<1> DEFINE M == 2 * (MaxInt + 1)
<1>1. \A a, b \in Nat : /\ a < b => a % b = a
                        /\ b <= a /\ a < 2 * b => a % b = a - b
  OBVIOUS
<1>2. ASSUME NEW i \in AnInt PROVE Wrapped(i) = i
  <2>1. i + MaxInt + 1 \in Nat /\ M \in Nat /\ i + MaxInt + 1 < M
    BY ExcerptsAssumption DEF AnInt
  <2>2. (i + MaxInt + 1) % M = i + MaxInt + 1
    BY <1>1, <2>1
  <2>3. QED
    BY <2>2, ExcerptsAssumption DEF Wrapped, AnInt
<1>3. ASSUME NEW i \in MaxInt + 1 .. 2 * MaxInt PROVE Wrapped(i) < 0
  <2> DEFINE j == i + MaxInt + 1
  <2>1. j \in Nat /\ M \in Nat /\ M <= j /\ j < 2 * M
    BY ExcerptsAssumption
  <2>2. j % M = j - M
    <3> HIDE DEF j, M
    <3>1. QED
      BY <1>1, <2>1
  <2>3. QED
    BY <2>2, ExcerptsAssumption DEF Wrapped
<1>4. QED
  BY <1>2, <1>3

(* When the bounds of a window are in order, and when they are not.        *)
LEMMA WindowBounds ==
    ASSUME NEW from \in AnInt, NEW most \in AnInt, NEW total \in 1 .. MaxLines,
           NEW w, w = Window(from, most, total)
    PROVE  /\ InOrder(w) =>
                /\ from \in Nat /\ w.to \in 0 .. total
                /\ w.from = (IF from <= total THEN from ELSE total) /\ w.from <= w.to
                /\ w.to < total => from <= w.to /\ most \in 0 .. MaxLines
           /\ ~ InOrder(w) => from < 0 \/ most < 0 \/ from + most > MaxInt
<1> DEFINE first == IF from <= total THEN from ELSE total
           size  == IF most = 0 THEN DefaultLimit ELSE most
           last  == Wrapped(first + size)
<1>1. first \in AnInt /\ first \in Int /\ size \in Int /\ first <= total /\ total \in Nat
  BY ExcerptsAssumption DEF AnInt
<1>2. w = [from |-> first, to |-> Least(last, total)]
  BY MinOfTwo DEF Window, Least, Or, AnInt
<1>3. /\ first + size \in AnInt => last = first + size
      /\ first + size > MaxInt => last < 0
  <2>1. first + size > MaxInt => first + size \in MaxInt + 1 .. 2 * MaxInt
    BY ExcerptsAssumption DEF AnInt
  <2>2. QED
    BY <2>1, WrappedInts
<1>4. first >= 0 => first + size \in AnInt \/ first + size > MaxInt
  BY ExcerptsAssumption DEF AnInt
<1>5. first >= 0 => /\ last \in Int
                    /\ w.to = IF last <= total THEN last ELSE total
  <2>1. first >= 0 => last \in Int
    BY ExcerptsAssumption, <1>1, <1>3, <1>4 DEF Wrapped, AnInt
  <2> HIDE DEF last
  <2>2. QED
    BY <1>1, <1>2, <2>1, MinOfTwo DEF Least
<1>6. w.from = first
  BY <1>2
<1>7. /\ DefaultLimit \in Nat /\ DefaultLimit > 0 /\ MaxInt \in Nat /\ MaxLines \in Nat
      /\ MaxLines + DefaultLimit <= MaxInt /\ total <= MaxLines
  BY ExcerptsAssumption
<1>8. most = 0 => first + size <= MaxInt
  BY <1>1, <1>7
<1> HIDE DEF last, size, first
<1>9. ASSUME InOrder(w)
      PROVE  /\ from \in Nat /\ w.to \in 0 .. total
             /\ w.from = first /\ w.from <= w.to
             /\ w.to < total => from <= w.to /\ most \in 0 .. MaxLines
  <2>1. 0 <= first /\ first <= w.to
    BY <1>6, <1>9 DEF InOrder
  <2>2. last >= 0 /\ first + size \in AnInt /\ last = first + size
    <3>1. last \in Int /\ last >= 0
      BY <1>1, <1>5, <2>1
    <3>2. QED
      BY <1>3, <1>4, <1>1, <2>1, <3>1
  <2>3. QED
    BY <1>1, <1>5, <1>6, <1>7, <2>1, <2>2 DEF AnInt, first, size
<1>10. ASSUME ~ InOrder(w) PROVE from < 0 \/ most < 0 \/ from + most > MaxInt
  <2>1. first < 0 => from < 0
    BY <1>1 DEF first
  <2>2. ASSUME first >= 0, most >= 0, from + most <= MaxInt PROVE FALSE
    <3>1. size >= 0 /\ first + size \in AnInt
      BY <1>1, <1>4, <1>7, <1>8, <2>2 DEF AnInt, first, size
    <3>2. last = first + size /\ first <= last
      BY <1>1, <1>3, <2>2, <3>1
    <3>3. first <= w.to
      BY <1>1, <1>5, <2>2, <3>2
    <3>4. QED
      BY <1>6, <1>10, <2>2, <3>3 DEF InOrder
  <2>3. QED
    BY <1>1, <1>7, <2>1, <2>2 DEF AnInt
<1>11. QED
  BY <1>9, <1>10 DEF first

LEMMA Pages ==
    ASSUME NEW S, NEW s \in Seq(S), NEW b \in 0 .. Len(s), NEW a \in 0 .. b
    PROVE  /\ SubSeq(s, a + 1, b) \in Seq(S) /\ Len(SubSeq(s, a + 1, b)) = b - a
           /\ \A i \in 1 .. b - a : SubSeq(s, a + 1, b)[i] = s[a + i]
  OBVIOUS

LEMMA PagesJoin ==
    ASSUME NEW S, NEW s \in Seq(S), NEW c \in 0 .. Len(s), NEW b \in 0 .. c, NEW a \in 0 .. b
    PROVE  SubSeq(s, a + 1, b) \o SubSeq(s, b + 1, c) = SubSeq(s, a + 1, c)
  OBVIOUS

LEMMA PagesAgree ==
    ASSUME NEW S, NEW s \in Seq(S), NEW t \in Seq(S), NEW b \in 0 .. Len(s), b <= Len(t),
           NEW a \in 0 .. b, \A i \in 1 .. b : s[i] = t[i]
    PROVE  SubSeq(s, a + 1, b) = SubSeq(t, a + 1, b)
  OBVIOUS

\* What OmissionsAreTold says of an answer to a text, whole when it is "done".
Told(answer, text, ending) ==
    LET notes == {i \in DOMAIN answer : answer[i] \notin Line}
        skipped(i) == SumSet({answer[j].omitted - 1 : j \in {k \in notes : k < i}})
    IN  /\ \A i \in DOMAIN answer \ notes :
              i + skipped(i) \in DOMAIN text /\ answer[i] = text[i + skipped(i)]
        /\ ending = "done" => Len(answer) + skipped(Len(answer) + 1) = Len(text)

(* An answer is an excerpt of a text when it has a note of n lines at place *)
(* h, if it is that long, and the lines of the text everywhere else.       *)
IsExcerpt(answer, text, h, n) ==
    \A i \in 1 .. Len(answer) :
        /\ i < h => i <= Len(text) /\ answer[i] = text[i]
        /\ i = h => answer[i] = Omitted(n)
        /\ i > h => i + n - 1 <= Len(text) /\ answer[i] = text[i + n - 1]

\* Nothing of the text is left out but the lines that the note tells of.
LeavesOut(answer, text, h, n) ==
    Len(text) = Len(answer) + (IF h <= Len(answer) THEN n - 1 ELSE 0)

LEMMA ExcerptTold ==
    ASSUME NEW text \in Seq(Line), NEW ending, NEW S, NEW answer \in Seq(S),
           NEW h \in Nat \ {0}, NEW n \in 1 .. MaxLines, IsExcerpt(answer, text, h, n),
           ending = "done" => LeavesOut(answer, text, h, n)
    PROVE  Told(answer, text, ending)
<1> DEFINE notes == {i \in DOMAIN answer : answer[i] \notin Line}
           before(m) == {answer[j].omitted - 1 : j \in {k \in notes : k < m}}
<1> HIDE DEF before
<1>1. Omitted(n) \notin Line /\ Omitted(n).omitted = n /\ n \in Nat
  BY ExcerptsAssumption DEF Omitted
<1>2. DOMAIN answer = 1 .. Len(answer) /\ Len(answer) \in Nat
      /\ DOMAIN text = 1 .. Len(text) /\ Len(text) \in Nat
      /\ \A i \in 1 .. Len(text) : text[i] \in Line
  OBVIOUS
<1>3. \A i \in 1 .. Len(answer) : i \in notes <=> i = h
  <2>1. ASSUME NEW i \in 1 .. Len(answer), i < h PROVE answer[i] \in Line
    <3>1. i <= Len(text) /\ answer[i] = text[i]
      BY <2>1 DEF IsExcerpt
    <3>2. QED
      BY <1>2, <3>1
  <2>2. ASSUME NEW i \in 1 .. Len(answer), i > h PROVE answer[i] \in Line
    <3>1. i + n - 1 <= Len(text) /\ answer[i] = text[i + n - 1]
      BY <2>2 DEF IsExcerpt
    <3>2. i + n - 1 \in 1 .. Len(text)
      BY <1>1, <1>2, <2>2, <3>1
    <3>3. QED
      BY <1>2, <3>1, <3>2
  <2>3. ASSUME NEW i \in 1 .. Len(answer), i = h PROVE answer[i] \notin Line
    BY <1>1, <2>3 DEF IsExcerpt
  <2>4. ASSUME NEW i \in 1 .. Len(answer) PROVE i < h \/ i > h \/ i = h
    OBVIOUS
  <2>5. QED
    BY <1>2, <2>1, <2>2, <2>3, <2>4
<1>4. ASSUME NEW i \in 1 .. Len(answer) + 1
      PROVE  SumSet(before(i)) = IF h < i THEN n - 1 ELSE 0
  <2>1. \A k : k \in notes => k \in 1 .. Len(answer)
    BY <1>2
  <2> HIDE DEF notes
  <2>2. CASE h < i
    <3>1. h \in 1 .. Len(answer)
      BY <1>2, <2>2
    <3>2. {k \in notes : k < i} = {h}
      BY <1>3, <2>1, <2>2, <3>1
    <3>3. answer[h] = Omitted(n)
      BY <3>1 DEF IsExcerpt
    <3>4. before(i) = {n - 1}
      BY <1>1, <3>2, <3>3 DEF before
    <3>5. n - 1 \in Int
      BY <1>1
    <3>6. QED
      BY <2>2, <3>4, <3>5, SumOne
  <2>3. CASE ~ (h < i)
    <3>1. {k \in notes : k < i} = {}
      BY <1>3, <2>1, <2>3
    <3>2. before(i) = {}
      BY <3>1 DEF before
    <3>3. QED
      BY <2>3, <3>2, SumNone
  <2>4. QED
    BY <2>2, <2>3
<1>5. ASSUME NEW i \in DOMAIN answer \ notes
      PROVE  i + SumSet(before(i)) \in DOMAIN text /\ answer[i] = text[i + SumSet(before(i))]
  <2>1. i \in 1 .. Len(answer) /\ i # h /\ i \in 1 .. Len(answer) + 1
    BY <1>2, <1>3
  <2>2. SumSet(before(i)) = IF h < i THEN n - 1 ELSE 0
    BY <1>4, <2>1
  <2> HIDE DEF notes
  <2>3. CASE i < h
    <3>1. i <= Len(text) /\ answer[i] = text[i]
      BY <2>1, <2>3 DEF IsExcerpt
    <3>2. SumSet(before(i)) = 0 /\ i + 0 = i
      BY <2>1, <2>2, <2>3
    <3>3. QED
      BY <1>2, <2>1, <3>1, <3>2
  <2>4. CASE i > h
    <3>1. i + n - 1 <= Len(text) /\ answer[i] = text[i + n - 1]
      BY <2>1, <2>4 DEF IsExcerpt
    <3>2. i + (n - 1) = i + n - 1 /\ i + n - 1 \in 1 .. Len(text)
      BY <1>1, <1>2, <2>1, <2>4, <3>1
    <3>3. SumSet(before(i)) = n - 1
      BY <2>1, <2>2, <2>4
    <3>4. QED
      BY <1>2, <3>1, <3>2, <3>3
  <2>5. QED
    BY <2>1, <2>3, <2>4
<1>6. ending = "done" => Len(answer) + SumSet(before(Len(answer) + 1)) = Len(text)
  <2>1. Len(answer) + 1 \in 1 .. Len(answer) + 1
    BY <1>2
  <2>2. SumSet(before(Len(answer) + 1)) = IF h < Len(answer) + 1 THEN n - 1 ELSE 0
    BY <1>4, <2>1
  <2>3. h < Len(answer) + 1 <=> h <= Len(answer)
    BY <1>2
  <2>4. QED
    BY <2>2, <2>3 DEF LeavesOut
<1>7. QED
  BY <1>5, <1>6 DEF Told, before

(* truncateOutput answers with an excerpt.                                 *)
LEMMA TruncatedIsExcerpt ==
    ASSUME NEW text \in Seq(Line), Len(text) <= MaxLines, Len(text) > 0
    PROVE  \E h \in Nat \ {0}, n \in 1 .. MaxLines :
              /\ Truncated(text) \in Seq(Line \cup {Omitted(n)})
              /\ IsExcerpt(Truncated(text), text, h, n)
              /\ LeavesOut(Truncated(text), text, h, n)
<1> DEFINE all  == Len(text)
           half == MaxOutput \div 2
           left == all - MaxOutput
<1>1. /\ all \in Nat /\ MaxOutput \in Nat /\ half \in Nat /\ MaxOutput = half + half
      /\ MaxLines \in Nat \ {0} /\ all <= MaxLines
  BY ExcerptsAssumption
<1>2. CASE all <= MaxOutput
  <2>1. Truncated(text) = text
    BY <1>2 DEF Truncated
  <2>2. IsExcerpt(text, text, all + 1, 1)
    BY <1>1 DEF IsExcerpt
  <2>3. LeavesOut(text, text, all + 1, 1)
    BY <1>1 DEF LeavesOut
  <2>4. all + 1 \in Nat \ {0} /\ 1 \in 1 .. MaxLines
    BY <1>1
  <2>5. text \in Seq(Line \cup {Omitted(1)})
    OBVIOUS
  <2> DEFINE h == all + 1
  <2> HIDE DEF h
  <2>6. /\ h \in Nat \ {0} /\ IsExcerpt(text, text, h, 1) /\ LeavesOut(text, text, h, 1)
    BY <2>2, <2>3, <2>4 DEF h
  <2>7. QED
    BY <2>1, <2>4, <2>5, <2>6
<1>3. CASE all > MaxOutput
  <2> DEFINE start == SubSeq(text, 1, half)
             tail  == SubSeq(text, all - half + 1, all)
             S     == Line \cup {Omitted(left)}
             cut   == start \o <<Omitted(left)>> \o tail
  <2>1. Truncated(text) = cut
    <3>1. ~ (all <= MaxOutput)
      BY <1>1, <1>3
    <3>2. QED
      BY <3>1 DEF Truncated
  <2>2. start \in Seq(Line) /\ Len(start) = half /\ \A i \in 1 .. half : start[i] = text[i]
    BY <1>1, <1>3
  <2>3. /\ tail \in Seq(Line) /\ Len(tail) = half
        /\ \A i \in 1 .. half : tail[i] = text[all - half + i]
    BY <1>1, <1>3
  <2>4. left \in 1 .. MaxLines
    BY <1>1, <1>3
  <2> HIDE DEF start, tail, half, left
  <2>5. /\ cut \in Seq(S) /\ Len(cut) = half + 1 + half
        /\ \A i \in 1 .. half : cut[i] = text[i]
        /\ cut[half + 1] = Omitted(left)
        /\ \A i \in half + 2 .. half + 1 + half : cut[i] = text[all - half + i - half - 1]
    <3>1. start \in Seq(S) /\ tail \in Seq(S) /\ <<Omitted(left)>> \in Seq(S)
      BY <2>2, <2>3
    <3>2. start \o <<Omitted(left)>> \in Seq(S)
          /\ Len(start \o <<Omitted(left)>>) = half + 1
          /\ (start \o <<Omitted(left)>>)[half + 1] = Omitted(left)
          /\ \A i \in 1 .. half : (start \o <<Omitted(left)>>)[i] = start[i]
      BY <1>1, <2>2, <3>1
    <3> DEFINE head == start \o <<Omitted(left)>>
    <3> HIDE DEF head, S
    <3>3. /\ head \o tail \in Seq(S) /\ Len(head \o tail) = half + 1 + half
          /\ \A i \in 1 .. half + 1 : (head \o tail)[i] = head[i]
          /\ \A i \in half + 2 .. half + 1 + half : (head \o tail)[i] = tail[i - half - 1]
      <4>1. head \in Seq(S) /\ Len(head) = half + 1 /\ half \in Nat /\ Len(tail) = half
        BY <1>1, <2>3, <3>2 DEF head
      <4>2. /\ head \o tail \in Seq(S) /\ Len(head \o tail) = Len(head) + Len(tail)
            /\ \A i \in 1 .. Len(head) + Len(tail) :
                  (head \o tail)[i] = IF i <= Len(head) THEN head[i] ELSE tail[i - Len(head)]
        BY <3>1, <4>1, ConcatProperties
      <4>3. ASSUME NEW i \in half + 2 .. half + 1 + half
            PROVE  (head \o tail)[i] = tail[i - half - 1]
        BY <4>1, <4>2
      <4>4. QED
        BY <4>1, <4>2, <4>3
    <3>4. \A i \in half + 2 .. half + 1 + half :
             i - half - 1 \in 1 .. half /\ all - half + (i - half - 1) = all - half + i - half - 1
      BY <1>1
    <3>5. QED
      BY <1>1, <2>2, <2>3, <3>2, <3>3, <3>4 DEF head
  <2> HIDE DEF cut
  <2>6. IsExcerpt(cut, text, half + 1, left)
    BY <1>1, <1>3, <2>4, <2>5 DEF IsExcerpt, left
  <2>7. LeavesOut(cut, text, half + 1, left)
    <3>1. Len(cut) = half + 1 + half
      BY <2>5
    <3>2. half + 1 <= Len(cut) /\ all = Len(cut) + (left - 1)
      <4> HIDE DEF all
      <4>1. QED
        BY <1>1, <3>1 DEF left
    <3>3. QED
      BY <3>2 DEF LeavesOut
  <2>8. half + 1 \in Nat \ {0}
    BY <1>1
  <2> DEFINE h == half + 1
  <2> HIDE DEF h
  <2>9. /\ h \in Nat \ {0} /\ IsExcerpt(cut, text, h, left) /\ LeavesOut(cut, text, h, left)
    BY <2>6, <2>7, <2>8 DEF h
  <2>10. QED
    BY <2>1, <2>4, <2>5, <2>9
<1>4. all <= MaxOutput \/ all > MaxOutput
  BY <1>1
<1>5. QED
  BY <1>2, <1>3, <1>4

-----------------------------------------------------------------------------
LEMMA ExcerptsInvInit == ExcerptsInit => ExcerptsInv
<1> SUFFICES ASSUME ExcerptsInit PROVE ExcerptsInv
  OBVIOUS
<1>1. PICK l \in Line : lines = <<l>>
  BY DEF ExcerptsInit
<1>2. TextInv
  BY <1>1, ExcerptsAssumption DEF ExcerptsInit, TextInv
<1>3. QED
  BY <1>2 DEF ExcerptsInit, ExcerptsInv, NextPageInv, PanicsHaveACause, PagesCoverFile,
              OmissionsAreTold

LEMMA AnswerStays ==
    ASSUME OmissionsAreTold, UNCHANGED <<tool, shown, reader, original>>
    PROVE  OmissionsAreTold'
<1>1. Told(shown, original, reader)' <=> Told(shown, original, reader)
  BY DEF Told
<1>2. OmissionsAreTold <=>
        (tool \in {"bash", "grep"} /\ reader \in {"cut", "done"} => Told(shown, original, reader))
  BY DEF OmissionsAreTold, Told
<1>3. OmissionsAreTold' <=>
        (tool' \in {"bash", "grep"} /\ reader' \in {"cut", "done"}
            => Told(shown, original, reader)')
  BY DEF OmissionsAreTold, Told
<1>4. QED
  BY <1>1, <1>2, <1>3

LEMMA AppendKeeps ==
    ASSUME ExcerptsInv, NEW more \in Seq(Line), Len(more) > 0, AppendLines(more)
    PROVE  ExcerptsInv'
<1> DEFINE n    == Len(lines) - 1
           kept == SubSeq(lines, 1, n)
<1>1. /\ lines \in Seq(Line) /\ Len(lines) \in 1 .. MaxLines /\ n \in Nat
      /\ Len(more) \in Nat /\ n + Len(more) <= MaxLines /\ n <= Len(lines)
      /\ n + 1 = Len(lines)
  BY DEF AppendLines, ExcerptsInv, TextInv
<1>2. /\ kept \in Seq(Line) /\ Len(kept) = n
      /\ \A i \in 1 .. n : kept[i] = lines[i]
  <2> HIDE DEF n
  <2>1. QED
    BY <1>1
<1> HIDE DEF kept
<1>3. /\ lines' \in Seq(Line) /\ Len(lines') = n + Len(more)
      /\ \A i \in 1 .. n : lines'[i] = lines[i]
  <2>1. lines' = kept \o more
    BY DEF AppendLines, kept
  <2> HIDE DEF n
  <2>2. /\ kept \o more \in Seq(Line) /\ Len(kept \o more) = Len(kept) + Len(more)
        /\ \A i \in 1 .. Len(kept) + Len(more) :
              (kept \o more)[i] = IF i <= Len(kept) THEN kept[i] ELSE more[i - Len(kept)]
    BY <1>2, ConcatProperties
  <2>3. ASSUME NEW i \in 1 .. n PROVE (kept \o more)[i] = lines[i]
    BY <1>1, <1>2, <2>2
  <2>4. QED
    BY <1>2, <2>1, <2>2, <2>3
<1>4. UNCHANGED <<tool, offset, limit, shown, end, reader, original>>
  BY DEF AppendLines, call
<1>5. TextInv'
  <2>1. /\ original \in Seq(Line) /\ Len(original) \in 1 .. Len(lines)
        /\ \A i \in 1 .. Len(original) - 1 : lines[i] = original[i]
    BY DEF ExcerptsInv, TextInv
  <2>2. Len(lines') \in 1 .. MaxLines /\ Len(original) \in 1 .. Len(lines')
    BY <1>1, <1>3, <2>1
  <2>3. ASSUME NEW i \in 1 .. Len(original) - 1 PROVE lines'[i] = original[i]
    <3> HIDE DEF n
    <3>1. Len(original) - 1 <= n
      BY <1>1, <2>1
    <3>2. i \in 1 .. n
      BY <1>1, <2>1, <3>1
    <3>3. QED
      BY <1>3, <2>1, <3>2
  <2>4. QED
    BY <1>3, <1>4, <2>1, <2>2, <2>3 DEF TextInv
<1>6. NextPageInv' /\ PanicsHaveACause' /\ PagesCoverFile'
  BY <1>4 DEF ExcerptsInv, NextPageInv, PanicsHaveACause, PagesCoverFile
<1>7. OmissionsAreTold'
  BY <1>4, AnswerStays DEF ExcerptsInv
<1>8. QED
  BY <1>5, <1>6, <1>7 DEF ExcerptsInv

(* A page: where it is taken from, and what it adds to the answers before. *)
LEMMA PageTaken ==
    ASSUME ExcerptsInv, NEW from \in AnInt, NEW most \in AnInt, NEW before,
           Page(from, most, before)
    PROVE  LET w == Window(from, most, Len(lines)) IN
           /\ TextInv' /\ UNCHANGED lines /\ original' = lines
           /\ \/ /\ reader' = "panic" /\ UNCHANGED <<shown, end>>
                 /\ from < 0 \/ most < 0 \/ from + most > MaxInt
              \/ /\ shown' = before \o SubSeq(lines, w.from + 1, w.to)
                 /\ end' = w.to /\ reader' = IF Len(lines) > w.to THEN "more" ELSE "done"
                 /\ from \in Nat /\ w.to \in 0 .. Len(lines) /\ w.from <= w.to
                 /\ w.from = (IF from <= Len(lines) THEN from ELSE Len(lines))
                 /\ w.to < Len(lines) => from <= w.to /\ most \in 0 .. MaxLines
<1> DEFINE w == Window(from, most, Len(lines))
<1>1. Len(lines) \in 1 .. MaxLines
  BY DEF ExcerptsInv, TextInv
<1>2. UNCHANGED lines /\ original' = lines
  BY DEF Page
<1>3. TextInv'
  BY <1>1, <1>2 DEF ExcerptsInv, TextInv
<1>4. CASE InOrder(w)
  <2>1. /\ shown' = before \o SubSeq(lines, w.from + 1, w.to)
        /\ end' = w.to /\ reader' = IF Len(lines) > w.to THEN "more" ELSE "done"
    BY <1>4 DEF Page
  <2> HIDE DEF w
  <2>2. /\ from \in Nat /\ w.to \in 0 .. Len(lines) /\ w.from <= w.to
        /\ w.from = (IF from <= Len(lines) THEN from ELSE Len(lines))
        /\ w.to < Len(lines) => from <= w.to /\ most \in 0 .. MaxLines
    BY <1>1, <1>4, WindowBounds DEF w
  <2>3. QED
    BY <1>2, <1>3, <2>1, <2>2 DEF w
<1>5. CASE ~ InOrder(w)
  <2>1. reader' = "panic" /\ UNCHANGED <<shown, end>>
    BY <1>5 DEF Page
  <2>2. from < 0 \/ most < 0 \/ from + most > MaxInt
    BY <1>1, <1>5, WindowBounds
  <2>3. QED
    BY <1>2, <1>3, <2>1, <2>2
<1>6. QED
  BY <1>4, <1>5

LEMMA ReadTextKeeps ==
    ASSUME ExcerptsInv, NEW from \in Asked, NEW most \in Asked, ReadText(from, most)
    PROVE  ExcerptsInv'
<1>1. from \in AnInt /\ most \in AnInt
  BY ExcerptsAssumption DEF AnInt
<1> DEFINE n == Len(lines)
<1>2. PICK w : w = Window(from, most, n)
  OBVIOUS
<1>3. /\ TextInv' /\ UNCHANGED lines /\ original' = lines
      /\ \/ /\ reader' = "panic" /\ UNCHANGED <<shown, end>>
            /\ from < 0 \/ most < 0 \/ from + most > MaxInt
         \/ /\ shown' = <<>> \o SubSeq(lines, w.from + 1, w.to)
            /\ end' = w.to /\ reader' = IF n > w.to THEN "more" ELSE "done"
            /\ from \in Nat /\ w.to \in 0 .. n /\ w.from <= w.to
            /\ w.from = (IF from <= n THEN from ELSE n)
            /\ w.to < n => from <= w.to /\ most \in 0 .. MaxLines
  BY <1>1, <1>2, PageTaken DEF ReadText
<1>4. tool' = "file_read" /\ offset' = from /\ limit' = most
  BY DEF ReadText
<1>5. lines \in Seq(Line) /\ n \in Nat \ {0}
  BY DEF ExcerptsInv, TextInv
<1>6. CASE reader' = "panic" /\ (from < 0 \/ most < 0 \/ from + most > MaxInt)
  BY <1>3, <1>4, <1>6 DEF ExcerptsInv, NextPageInv, PanicsHaveACause, PagesCoverFile,
                          OmissionsAreTold
<1>7. CASE /\ shown' = <<>> \o SubSeq(lines, w.from + 1, w.to)
           /\ end' = w.to /\ reader' = IF n > w.to THEN "more" ELSE "done"
           /\ from \in Nat /\ w.to \in 0 .. n /\ w.from <= w.to
           /\ w.from = (IF from <= n THEN from ELSE n)
           /\ w.to < n => from <= w.to /\ most \in 0 .. MaxLines
  <2>1. w.from \in 0 .. w.to
    BY <1>5, <1>7
  <2>2. SubSeq(lines, w.from + 1, w.to) \in Seq(Line)
    BY <1>5, <1>7, <2>1, Pages
  <2>3. shown' = SubSeq(lines, w.from + 1, w.to)
    BY <1>7, <2>2
  <2>4. shown' = SubSeq(lines, from + 1, w.to)
    <3>1. CASE from <= n
      BY <1>7, <2>3, <3>1
    <3>2. CASE from > n
      <4>1. w.from = n /\ w.to = n
        BY <1>5, <1>7, <3>2
      <4>2. SubSeq(lines, n + 1, n) = <<>> /\ SubSeq(lines, from + 1, n) = <<>>
        BY <1>5, <1>7, <3>2
      <4>3. QED
        BY <2>3, <4>1, <4>2
    <3>3. from \in Nat /\ n \in Nat
      BY <1>5, <1>7
    <3>4. QED
      BY <3>1, <3>2, <3>3
  <2>5. reader' = "done" <=> w.to = n
    BY <1>5, <1>7
  <2>6. PagesCoverFile'
    BY <1>3, <1>4, <1>7, <2>4, <2>5 DEF PagesCoverFile
  <2>7. NextPageInv'
    BY <1>3, <1>4, <1>5, <1>7 DEF NextPageInv
  <2>8. PanicsHaveACause' /\ OmissionsAreTold'
    BY <1>4, <1>7 DEF PanicsHaveACause, OmissionsAreTold
  <2>9. QED
    BY <1>3, <2>6, <2>7, <2>8 DEF ExcerptsInv
<1>8. QED
  BY <1>3, <1>6, <1>7

LEMMA ReadMoreKeeps ==
    ASSUME ExcerptsInv, ReadMore
    PROVE  ExcerptsInv'
<1> DEFINE n == Len(lines)
<1>1. PICK w : w = Window(end, limit, n)
  OBVIOUS
<1>2. /\ reader = "more" /\ tool = "file_read" /\ Page(end, limit, shown)
      /\ UNCHANGED <<tool, offset, limit>>
  BY DEF ReadMore, call
<1>3. /\ offset \in Nat /\ end \in offset .. Len(original) - 1 /\ limit \in 0 .. MaxLines
      /\ shown = SubSeq(original, offset + 1, end)
  BY <1>2 DEF ExcerptsInv, NextPageInv, PagesCoverFile
<1>4. /\ lines \in Seq(Line) /\ original \in Seq(Line) /\ n \in 1 .. MaxLines
      /\ Len(original) \in 1 .. n /\ \A i \in 1 .. Len(original) - 1 : lines[i] = original[i]
  BY DEF ExcerptsInv, TextInv
<1>5. MaxInt \in Nat /\ MaxLines \in Nat /\ 2 * MaxLines <= MaxInt
  BY ExcerptsAssumption
<1>6. end \in AnInt /\ limit \in AnInt /\ end >= 0 /\ limit >= 0 /\ end + limit <= MaxInt
  BY <1>3, <1>4, <1>5 DEF AnInt
<1>7. /\ TextInv' /\ UNCHANGED lines /\ original' = lines
      /\ \/ end < 0 \/ limit < 0 \/ end + limit > MaxInt
         \/ /\ shown' = shown \o SubSeq(lines, w.from + 1, w.to)
            /\ end' = w.to /\ reader' = IF n > w.to THEN "more" ELSE "done"
            /\ w.to \in 0 .. n /\ w.from <= w.to
            /\ w.from = (IF end <= n THEN end ELSE n)
            /\ w.to < n => end <= w.to
  BY <1>1, <1>2, <1>6, PageTaken
<1>8. /\ shown' = shown \o SubSeq(lines, w.from + 1, w.to)
      /\ end' = w.to /\ reader' = IF n > w.to THEN "more" ELSE "done"
      /\ w.to \in 0 .. n /\ w.from <= w.to /\ w.from = end
  <2>1. ~ (end < 0 \/ limit < 0 \/ end + limit > MaxInt) /\ end <= n
    BY <1>3, <1>4, <1>5, <1>6
  <2>2. QED
    BY <1>7, <2>1
<1>9. offset \in 0 .. end /\ end \in 0 .. w.to /\ end <= Len(original) /\ end \in 0 .. n
  <2>1. /\ offset \in Nat /\ end \in Int /\ offset <= end /\ end <= Len(original) - 1
        /\ n \in Int /\ Len(original) \in Int /\ Len(original) <= n
    BY <1>3, <1>4
  <2>2. w.to \in Int /\ end <= w.to
    BY <1>4, <1>8
  <2>3. QED
    BY <2>1, <2>2
<1>10. \A i \in 1 .. end : lines[i] = original[i]
  <2>1. end \in Int /\ Len(original) \in Int /\ end <= Len(original) - 1
    BY <1>3, <1>4
  <2>2. ASSUME NEW i \in 1 .. end PROVE i \in 1 .. Len(original) - 1
    BY <2>1
  <2>3. QED
    BY <1>4, <2>2
<1>11. SubSeq(original, offset + 1, end) = SubSeq(lines, offset + 1, end)
  BY <1>4, <1>9, <1>10, PagesAgree
<1>12. shown' = SubSeq(lines, offset + 1, w.to)
  BY <1>3, <1>4, <1>8, <1>9, <1>11, PagesJoin
<1>13. reader' = "done" <=> w.to = n
  BY <1>4, <1>8
<1>14. PagesCoverFile'
  BY <1>2, <1>7, <1>8, <1>12, <1>13 DEF PagesCoverFile
<1>15. NextPageInv'
  BY <1>2, <1>3, <1>4, <1>7, <1>8, <1>9 DEF NextPageInv
<1>16. PanicsHaveACause' /\ OmissionsAreTold'
  BY <1>2, <1>8 DEF PanicsHaveACause, OmissionsAreTold
<1>17. QED
  BY <1>7, <1>14, <1>15, <1>16 DEF ExcerptsInv

LEMMA AnswerKeeps ==
    ASSUME ExcerptsInv, NEW name \in {"bash", "grep"}, NEW most, NEW answer,
           NEW ending \in {"done", "cut", "panic"}, AnswerOutput(name, most, answer, ending),
           ending = "panic" => most < 0,
           ending # "panic" => Told(answer, lines, ending)
    PROVE  ExcerptsInv'
<1>1. /\ tool' = name /\ limit' = most /\ shown' = answer /\ reader' = ending
      /\ original' = lines /\ UNCHANGED lines
  BY DEF AnswerOutput
<1>2. TextInv'
  BY <1>1 DEF ExcerptsInv, TextInv
<1>3. NextPageInv' /\ PagesCoverFile' /\ PanicsHaveACause'
  BY <1>1 DEF NextPageInv, PagesCoverFile, PanicsHaveACause
<1>4. OmissionsAreTold'
  BY <1>1 DEF OmissionsAreTold, Told
<1>5. QED
  BY <1>2, <1>3, <1>4 DEF ExcerptsInv

LEMMA BashKeeps ==
    ASSUME ExcerptsInv, Bash
    PROVE  ExcerptsInv'
<1>1. lines \in Seq(Line) /\ Len(lines) <= MaxLines /\ Len(lines) > 0
  BY ExcerptsAssumption DEF ExcerptsInv, TextInv
<1>2. Told(Truncated(lines), lines, "done")
  BY <1>1, TruncatedIsExcerpt, ExcerptTold
<1>3. QED
  BY <1>2, AnswerKeeps DEF Bash

LEMMA GrepKeeps ==
    ASSUME ExcerptsInv, NEW most \in Asked, Grep(most)
    PROVE  ExcerptsInv'
<1> DEFINE output == Truncated(lines)
           head   == Or(most, DefaultHeadLimit)
<1>1. lines \in Seq(Line) /\ Len(lines) <= MaxLines /\ Len(lines) > 0
  BY ExcerptsAssumption DEF ExcerptsInv, TextInv
<1>2. PICK h \in Nat \ {0}, n \in 1 .. MaxLines :
          /\ output \in Seq(Line \cup {Omitted(n)})
          /\ IsExcerpt(output, lines, h, n)
          /\ LeavesOut(output, lines, h, n)
  BY <1>1, TruncatedIsExcerpt
<1>3. most \in Int /\ head \in Int /\ (head < 0 => most < 0)
  BY ExcerptsAssumption DEF Or
<1> HIDE DEF head
<1>4. CASE AnswerOutput("grep", most, output, "done")
  <2>1. Told(output, lines, "done")
    BY <1>1, <1>2, ExcerptTold
  <2>2. QED
    BY <1>4, <2>1, AnswerKeeps
<1>5. CASE /\ Len(output) > head /\ head >= 0
           /\ AnswerOutput("grep", most, SubSeq(output, 1, head), "cut")
  <2> DEFINE S == Line \cup {Omitted(n)}
             first == SubSeq(output, 1, head)
  <2>1. first \in Seq(S) /\ Len(first) = head /\ \A i \in 1 .. head : first[i] = output[i]
    <3> HIDE DEF output, S
    <3>1. output \in Seq(S)
      BY <1>2 DEF S
    <3>2. QED
      BY <1>3, <1>5, <3>1
  <2>2. IsExcerpt(first, lines, h, n)
    <3> HIDE DEF output, first
    <3>1. head <= Len(output) /\ Len(output) \in Nat
      BY <1>2, <1>3, <1>5
    <3>2. \A i \in 1 .. head : i \in 1 .. Len(output)
      BY <1>3, <3>1
    <3>3. QED
      BY <1>2, <2>1, <3>2 DEF IsExcerpt
  <2>3. Told(first, lines, "cut")
    BY <1>1, <2>1, <2>2, ExcerptTold
  <2>4. QED
    BY <1>5, <2>3, AnswerKeeps
<1>6. CASE head < 0 /\ AnswerOutput("grep", most, <<>>, "panic")
  BY <1>3, <1>6, AnswerKeeps
<1>7. QED
  BY <1>4, <1>5, <1>6 DEF Grep, head

LEMMA ExcerptsInvStep == ExcerptsInv /\ [ExcerptsNext]_excerptsVars => ExcerptsInv'
<1> SUFFICES ASSUME ExcerptsInv, [ExcerptsNext]_excerptsVars PROVE ExcerptsInv'
  OBVIOUS
<1>1. ASSUME NEW l \in Line, AppendLines(<<l>>) \/ \E m \in Line : AppendLines(<<l, m>>)
      PROVE  ExcerptsInv'
  <2>1. <<l>> \in Seq(Line) /\ Len(<<l>>) > 0
    OBVIOUS
  <2>2. \A m \in Line : <<l, m>> \in Seq(Line) /\ Len(<<l, m>>) > 0
    OBVIOUS
  <2>3. QED
    BY <1>1, <2>1, <2>2, AppendKeeps
<1>2. CASE UNCHANGED excerptsVars
  <2>1. UNCHANGED <<lines, tool, offset, limit, shown, end, reader, original>>
    BY <1>2 DEF excerptsVars, call
  <2>2. TextInv' /\ NextPageInv' /\ PanicsHaveACause' /\ PagesCoverFile'
    BY <2>1 DEF ExcerptsInv, TextInv, NextPageInv, PanicsHaveACause, PagesCoverFile
  <2>3. QED
    BY <2>1, <2>2, AnswerStays DEF ExcerptsInv
<1>3. QED
  BY <1>1, <1>2, ReadTextKeeps, ReadMoreKeeps, BashKeeps, GrepKeeps DEF ExcerptsNext

LEMMA ExcerptsInvariance == ExcerptsSpec => []ExcerptsInv
  BY ExcerptsInvInit, ExcerptsInvStep, PTL DEF ExcerptsSpec

(* readText and Grep panic only on what the client sent.                   *)
THEOREM PanicsOnlyOnRequest == ExcerptsSpec => []PanicsHaveACause
<1>1. ExcerptsInv => PanicsHaveACause
  BY DEF ExcerptsInv
<1>2. QED
  BY <1>1, ExcerptsInvariance, PTL

(* Page after page of file_read is one long read of the growing file.      *)
THEOREM PagesAreOneRead == ExcerptsSpec => []PagesCoverFile
<1>1. ExcerptsInv => PagesCoverFile
  BY DEF ExcerptsInv
<1>2. QED
  BY <1>1, ExcerptsInvariance, PTL

(* truncateOutput and head_limit leave nothing out without a note of it.   *)
THEOREM NotesTellOmissions == ExcerptsSpec => []OmissionsAreTold
<1>1. ExcerptsInv => OmissionsAreTold
  BY DEF ExcerptsInv
<1>2. QED
  BY <1>1, ExcerptsInvariance, PTL

-----------------------------------------------------------------------------
(* UploadSource.  Base64 text comes in groups of four digits and a rest of  *)
(* none, two or three.                                                     *)
LEMMA DigitGroups ==
    ASSUME NEW n \in Nat, n % 4 # 1
    PROVE  \E q \in Nat : \E r \in {0, 2, 3} : n = 4 * q + r
<1> DEFINE q == n \div 4
           r == n % 4
<1>1. q \in Nat /\ r \in 0 .. 3 /\ n = 4 * q + r
  OBVIOUS
<1>2. r \in {0, 2, 3}
  BY <1>1
<1> HIDE DEF q, r
<1>3. QED
  BY <1>1, <1>2

LEMMA ByteGroups ==
    ASSUME NEW b \in Nat
    PROVE  \E q \in Nat : \E r \in {0, 1, 2} : b = 3 * q + r
<1> DEFINE q == b \div 3
           r == b % 3
<1>1. q \in Nat /\ r \in 0 .. 2 /\ b = 3 * q + r
  OBVIOUS
<1> HIDE DEF q, r
<1>2. QED
  BY <1>1

\* What is decoded from a payload, and what its padding is where it has one.
DigitsFor(bytes)  == (bytes * 8 + 5) \div 6
PaddingOf(digits) == (4 - (digits % 4)) % 4

LEMMA DecodedBytes ==
    ASSUME NEW digits \in Nat, digits % 4 # 1
    PROVE  \E b \in 0 .. digits :
              /\ digits = DigitsFor(b)
              /\ PaddingOf(digits) = ((b + 2) \div 3) * 4 - digits
<1>1. PICK q \in Nat, r \in {0, 2, 3} : digits = 4 * q + r
  BY DigitGroups
<1> DEFINE b == 3 * q + (IF r = 0 THEN 0 ELSE r - 1)
<1>2. b \in 0 .. digits
  BY <1>1
<1>3. digits = DigitsFor(b) /\ PaddingOf(digits) = ((b + 2) \div 3) * 4 - digits
  BY <1>1 DEF DigitsFor, PaddingOf
<1> HIDE DEF b
<1>4. QED
  BY <1>2, <1>3

LEMMA EncodedBytes ==
    ASSUME NEW b \in Nat, NEW digits, digits = DigitsFor(b)
    PROVE  /\ digits \in Nat /\ digits % 4 # 1
           /\ PaddingOf(digits) = ((b + 2) \div 3) * 4 - digits
<1>1. PICK q \in Nat, r \in {0, 1, 2} : b = 3 * q + r
  BY ByteGroups
<1>2. digits = 4 * q + (IF r = 0 THEN 0 ELSE r + 1)
  BY <1>1 DEF DigitsFor
<1>3. digits \in Nat /\ digits % 4 = (IF r = 0 THEN 0 ELSE r + 1)
  BY <1>1, <1>2
<1>4. (b + 2) \div 3 = q + (IF r = 0 THEN 0 ELSE 1)
  BY <1>1
<1>5. PaddingOf(digits) = IF r = 0 THEN 0 ELSE 3 - r
  BY <1>1, <1>3 DEF PaddingOf
<1>6. QED
  BY <1>1, <1>2, <1>3, <1>4, <1>5

(* One of the four decoders accepts a payload if and only if it is well    *)
(* formed.                                                                 *)
LEMMA DecodersAcceptWellFormed ==
    ASSUME NEW p \in Payload
    PROVE  WellFormed(p) <=> \E d \in Decoders : Decodes(d, p)
<1>1. /\ p.digits \in Nat /\ p.padding \in Nat
      /\ p.alphabet \in {"either", "standard", "url", "mixed"}
  BY DEF Payload
<1>2. ASSUME NEW d \in Decoders, Decodes(d, p) PROVE WellFormed(p)
  <2>1. /\ p.alphabet # "mixed" /\ p.digits % 4 # 1
        /\ p.padding \in {0, PaddingOf(p.digits)}
    BY <1>2 DEF Decodes, Decoders, PaddingOf
  <2>2. PICK b \in 0 .. p.digits :
            /\ p.digits = DigitsFor(b)
            /\ PaddingOf(p.digits) = ((b + 2) \div 3) * 4 - p.digits
    BY <1>1, <2>1, DecodedBytes
  <2>3. QED
    BY <2>1, <2>2 DEF WellFormed, DigitsFor
<1>3. ASSUME WellFormed(p) PROVE \E d \in Decoders : Decodes(d, p)
  <2>1. PICK b \in 0 .. p.digits :
            /\ p.digits = DigitsFor(b)
            /\ p.padding \in {0, ((b + 2) \div 3) * 4 - p.digits}
    BY <1>3 DEF WellFormed, DigitsFor
  <2>2. b \in Nat
    BY <1>1
  <2>3. p.digits % 4 # 1 /\ p.padding \in {0, PaddingOf(p.digits)}
    BY <2>1, <2>2, EncodedBytes
  <2> DEFINE d(padded) == [alphabet |-> IF p.alphabet = "url" THEN "url" ELSE "standard",
                           padded |-> padded]
  <2>4. \A padded \in BOOLEAN :
           d(padded) \in Decoders /\ p.alphabet \in {"either", d(padded).alphabet}
    BY <1>1, <1>3 DEF WellFormed, Decoders
  <2>5. Decodes(d(TRUE), p) \/ Decodes(d(FALSE), p)
    BY <2>3, <2>4 DEF Decodes, PaddingOf
  <2>6. QED
    BY <2>4, <2>5
<1>4. QED
  BY <1>2, <1>3

\* The state of an upload that read nothing, or the first Read, of a body.
FirstRead(n) == IF n = 0 THEN <<>> ELSE <<<<1, n>>>>

\* A download whose extension is told by its first bytes.
Unnamed(s) == NamedExt(s) = "" /\ FromContentType(s.content_type) = ""

UploadTypeInv ==
    /\ source \in Sources
    /\ upload \in {"begin", "peek", "read", "write", "refused"}

\* Nothing is received before the first Read, and nothing but it before ReadAll.
FirstReadInv ==
    /\ upload \in {"begin", "peek"} => peeked = 0 /\ received = <<>>
    /\ upload = "peek" => source.scheme = "http"
    /\ upload = "read" =>
          /\ source.scheme \in {"http", "file"}
          /\ peeked \in Nat /\ received = FirstRead(peeked)

ToldInv ==
    upload \in {"read", "write"} /\ source.scheme = "http" /\ Unnamed(source) =>
        /\ peeked \in 0 .. Min({PeekSize, source.body.size})
        /\ extension = Detected(source.body, peeked)

UploadInv == UploadTypeInv /\ FirstReadInv /\ ToldInv /\ ReceivedWhole

LEMMA SourceTypes ==
    ASSUME NEW s \in Sources
    PROVE  /\ s.scheme \in {"http", "data", "raw", "file"}
           /\ s.scheme \in {"http", "raw", "file"} => s.body \in Body
           /\ s.scheme = "data" => s.base64 \in BOOLEAN
           /\ s.scheme = "data" /\ s.base64 => s.payload \in Payload /\ "body" \notin DOMAIN s
           /\ s.scheme = "data" /\ ~ s.base64 => s.body \in Body
<1>1. CASE s \in HTTPSource
  BY <1>1, UploadSourceAssumption DEF HTTPSource
<1>2. CASE s \in RawSource \cup FileSource
  BY <1>2, UploadSourceAssumption DEF RawSource, FileSource
<1>3. CASE s \in DataSource
  BY <1>3, UploadSourceAssumption DEF DataSource
<1>4. QED
  BY <1>1, <1>2, <1>3 DEF Sources

LEMMA UploadInvInit == UploadInit => UploadInv
  BY DEF UploadInit, UploadInv, UploadTypeInv, FirstReadInv, ToldInv, ReceivedWhole

LEMMA UploadInvStep == UploadInv /\ [UploadNext]_uploadVars => UploadInv'
<1> SUFFICES ASSUME UploadInv, [UploadNext]_uploadVars PROVE UploadInv'
  OBVIOUS
<1>1. /\ source.scheme \in {"http", "data", "raw", "file"}
      /\ source.scheme \in {"http", "raw", "file"} => source.body \in Body
      /\ source.scheme = "data" => source.base64 \in BOOLEAN
      /\ source.scheme = "data" /\ source.base64 =>
             source.payload \in Payload /\ "body" \notin DOMAIN source
      /\ source.scheme = "data" /\ ~ source.base64 => source.body \in Body
  <2>1. source \in Sources
    BY DEF UploadInv, UploadTypeInv, FirstReadInv, ToldInv
  <2>2. QED
    BY <2>1, SourceTypes
<1>2. CASE Download
  <2>1. /\ upload = "begin" /\ source.scheme = "http"
        /\ UNCHANGED <<source, peeked, received>>
        /\ upload' \in {"peek", "read"} /\ (upload' = "read" => ~ Unnamed(source))
    BY <1>2 DEF Download, Proceed, Unnamed
  <2>2. peeked = 0 /\ received = <<>> /\ received = FirstRead(0)
    BY <2>1 DEF UploadInv, UploadTypeInv, FirstReadInv, ToldInv, FirstRead
  <2>3. ReceivedWhole'
    BY <2>1 DEF ReceivedWhole
  <2>4. UploadTypeInv'
    BY <2>1 DEF UploadInv, UploadTypeInv
  <2>5. FirstReadInv'
    BY <2>1, <2>2 DEF FirstReadInv, FirstRead
  <2>6. ToldInv'
    BY <2>1 DEF ToldInv, Unnamed
  <2>7. QED
    BY <2>3, <2>4, <2>5, <2>6 DEF UploadInv
<1>3. CASE Open
  <2>1. /\ upload = "begin" /\ upload' = "read" /\ source.scheme = "file"
        /\ UNCHANGED <<source, peeked, received, disturbed>>
    BY <1>3 DEF Open, Proceed
  <2>2. peeked = 0 /\ received = <<>>
    BY <2>1 DEF UploadInv, FirstReadInv
  <2>3. UploadTypeInv' /\ ToldInv' /\ ReceivedWhole'
    BY <2>1 DEF UploadInv, UploadTypeInv, ToldInv, ReceivedWhole
  <2>4. FirstReadInv'
    BY <2>1, <2>2 DEF FirstReadInv, FirstRead
  <2>5. QED
    BY <2>3, <2>4 DEF UploadInv
<1>4. CASE ReadAll
  <2>1. /\ upload = "read" /\ upload' = "write"
        /\ received' = Append(received, <<peeked + 1, source.body.size>>)
        /\ UNCHANGED <<source, peeked, disturbed, extension>>
    BY <1>4 DEF ReadAll, Proceed
  <2>2. /\ source.scheme \in {"http", "file"} /\ peeked \in Nat
        /\ received = FirstRead(peeked)
    BY <2>1 DEF UploadInv, UploadTypeInv, FirstReadInv, ToldInv
  <2>3. /\ received'[1][1] = 1 /\ received'[Len(received')][2] = source.body.size
        /\ \A i \in 1 .. Len(received') - 1 : received'[i + 1][1] = received'[i][2] + 1
    <3>1. CASE peeked = 0
      <4>1. received' = <<<<1, source.body.size>>>>
        BY <2>1, <2>2, <3>1 DEF FirstRead
      <4>2. QED
        BY <4>1
    <3>2. CASE peeked # 0
      <4>1. /\ Len(received') = 2
            /\ received'[1] = <<1, peeked>> /\ received'[2] = <<peeked + 1, source.body.size>>
        <5> DEFINE first == <<1, peeked>>
                   rest  == <<peeked + 1, source.body.size>>
        <5>1. received = <<first>> /\ received' = Append(received, rest)
          BY <2>1, <2>2, <3>2 DEF FirstRead
        <5> HIDE DEF first, rest
        <5>2. /\ Len(received') = 2
              /\ received'[1] = first /\ received'[2] = rest
          <6>1. <<first>> \in Seq({first, rest}) /\ Len(<<first>>) = 1 /\ <<first>>[1] = first
            OBVIOUS
          <6>2. /\ Len(Append(<<first>>, rest)) = Len(<<first>>) + 1
                /\ \A i \in 1 .. Len(<<first>>) : Append(<<first>>, rest)[i] = <<first>>[i]
                /\ Append(<<first>>, rest)[Len(<<first>>) + 1] = rest
            BY <6>1, AppendProperties
          <6>3. QED
            BY <5>1, <6>1, <6>2
        <5>3. QED
          BY <5>2 DEF first, rest
      <4>2. QED
        BY <4>1, <2>2
    <3>3. QED
      BY <3>1, <3>2
  <2>4. ReceivedWhole'
    BY <2>1, <2>2, <2>3 DEF ReceivedWhole
  <2>5. QED
    BY <2>1, <2>2, <2>4 DEF UploadInv, UploadTypeInv, FirstReadInv, ToldInv
<1>5. CASE ReadFails
  BY <1>1, <1>5 DEF ReadFails, UploadInv, UploadTypeInv, FirstReadInv, ToldInv, ReceivedWhole
<1>6. CASE ParseDataURI
  <2>1. CASE source.scheme = "raw" \/ ~ source.base64
    <3>1. upload' = "write" /\ received' = Whole(source.body) /\ UNCHANGED source
      BY <1>6, <2>1 DEF ParseDataURI, Proceed
    <3>2. /\ received'[1][1] = 1 /\ received'[Len(received')][2] = source.body.size
          /\ \A i \in 1 .. Len(received') - 1 : received'[i + 1][1] = received'[i][2] + 1
      BY <3>1 DEF Whole
    <3>3. QED
      BY <1>6, <2>1, <3>1, <3>2
        DEF ParseDataURI, UploadInv, UploadTypeInv, FirstReadInv, ToldInv, ReceivedWhole
  <2>2. CASE source.scheme = "data" /\ source.base64
    <3>1. WellFormed(source.payload) <=> \E d \in Decoders : Decodes(d, source.payload)
      BY <1>1, <2>2, DecodersAcceptWellFormed
    <3>2. UNCHANGED source
      BY <1>6 DEF ParseDataURI, Proceed
    <3>3. QED
      BY <1>1, <1>6, <2>2, <3>1, <3>2
        DEF ParseDataURI, Proceed, UploadInv, UploadTypeInv, FirstReadInv, ToldInv, ReceivedWhole
  <2>3. QED
    BY <1>6, <2>1, <2>2 DEF ParseDataURI
<1>7. ASSUME NEW n \in ReadSizes, Peek(n)
      PROVE  UploadInv'
  <2>1. source.scheme = "http" /\ source.body \in Body /\ n \in Nat
    BY <1>1, <1>7, UploadSourceAssumption DEF Peek, UploadInv, UploadTypeInv, FirstReadInv, ToldInv
  <2>2. n \in 0 .. Min({PeekSize, source.body.size})
    BY <1>7, <2>1, UploadSourceAssumption, MinOfTwo DEF Peek, Body
  <2>3. QED
    BY <1>7, <2>1, <2>2
      DEF Peek, UploadInv, UploadTypeInv, FirstReadInv, ToldInv, ReceivedWhole, FirstRead
<1>8. CASE UNCHANGED uploadVars
  BY <1>8 DEF uploadVars, UploadInv, UploadTypeInv, FirstReadInv, ToldInv, ReceivedWhole
<1>9. QED
  BY <1>2, <1>3, <1>4, <1>5, <1>6, <1>7, <1>8 DEF UploadNext

LEMMA UploadInvariance == UploadSpec => []UploadInv
  BY UploadInvInit, UploadInvStep, PTL DEF UploadSpec

(* upload writes every byte of its source once and in order, and refuses   *)
(* only what it could not read and base64 that is malformed.               *)
THEOREM UploadsWhole == UploadSpec => []ReceivedWhole
<1>1. UploadInv => ReceivedWhole
  BY DEF UploadInv, UploadTypeInv, FirstReadInv, ToldInv
<1>2. QED
  BY <1>1, UploadInvariance, PTL

(* DetectExtensionFromContentType: what the first bytes of a body tell,    *)
(* however few of them the first Read delivers.                            *)
THEOREM ExtensionOfFormat == UploadSpec => []ExtensionFits
<1>1. ASSUME UploadInv, upload = "write", source.scheme = "http", Unnamed(source),
             NEW body, body = source.body, NEW asked, asked = Min({PeekSize, body.size}),
             NEW needed,
             needed = IF body.format = "office" THEN Max({30, body.told}) ELSE Max({4, body.told})
      PROVE  /\ extension \in {Ext[body.format], "", ".txt"}
                   \cup IF body.format = "office" THEN {".zip"} ELSE {}
             /\ peeked = asked /\ needed <= asked => extension = Ext[body.format]
  <2>1. body \in Body
    BY <1>1, SourceTypes DEF UploadInv, UploadTypeInv, FirstReadInv, ToldInv
  <2>2. body.format \in Formats /\ body.told \in Nat
    BY <2>1 DEF Body
  <2>3. /\ Max({30, body.told}) = IF 30 <= body.told THEN body.told ELSE 30
        /\ Max({4, body.told}) = IF 4 <= body.told THEN body.told ELSE 4
    BY <2>2, MaxOfTwo
  <2>4. peeked \in Int /\ extension = Detected(body, peeked)
    BY <1>1 DEF UploadInv, UploadTypeInv, FirstReadInv, ToldInv
  <2> DEFINE short  == peeked < 4 \/ body.format = "binary"
             zipped == /\ peeked >= 4 /\ body.format = "office"
                       /\ peeked < Max({30, body.told})
             text   == /\ peeked >= 4 /\ body.format \notin {"office", "binary"}
                       /\ peeked < body.told
  <2>5. extension = CASE short -> "" [] zipped -> ".zip" [] text -> ".txt"
                      [] OTHER -> Ext[body.format]
    BY <2>4 DEF Detected
  <2>6. /\ zipped => ~ short /\ ~ text /\ body.format = "office"
        /\ text => ~ short /\ ~ zipped
        /\ short \/ zipped \/ text => body.format = "binary" \/ peeked < needed
    BY <1>1, <2>2, <2>3, <2>4
  <2>7. Ext["binary"] = ""
    BY DEF Ext
  <2>8. short /\ body.format = "binary" => extension = Ext[body.format]
    <3> HIDE DEF zipped, text
    <3>1. short /\ body.format = "binary" => ~ zipped /\ ~ text
      BY <2>6
    <3>2. QED
      BY <2>5, <2>7, <3>1
  <2> HIDE DEF short, zipped, text
  <2>9. /\ extension \in {Ext[body.format], "", ".txt"}
                \cup IF body.format = "office" THEN {".zip"} ELSE {}
        /\ ~ short /\ ~ zipped /\ ~ text => extension = Ext[body.format]
    BY <2>5, <2>6
  <2>10. needed \in Int
    BY <1>1, <2>2, <2>3
  <2>11. ASSUME peeked = asked, needed <= asked PROVE extension = Ext[body.format]
    <3>1. ~ (peeked < needed)
      BY <2>4, <2>10, <2>11
    <3>2. zipped \/ text => body.format # "binary"
      BY DEF zipped, text
    <3>3. QED
      BY <2>6, <2>8, <2>9, <3>1, <3>2
  <2>12. QED
    BY <2>9, <2>11
<1>2. UploadInv => ExtensionFits
  BY <1>1 DEF ExtensionFits, Unnamed
<1>3. QED
  BY <1>2, UploadInvariance, PTL
=============================================================================
