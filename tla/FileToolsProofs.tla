-------------------------- MODULE FileToolsProofs --------------------------
(***************************************************************************)
(* The invariants of FileTools, and that it implements FileStore, for any  *)
(* number of calls, files, tokens and requests.                            *)
(***************************************************************************)
EXTENDS FileTools, SequenceTheorems, FiniteSetTheorems, TLAPS

Ended == {"new", "over"}

Parses(c) == request[c].tool = "parse"

\* A call with this step before it has not written, or is a parse that has.
OrderInv(c) ==
    /\ c \in wrote => pc[c] \in {"delete_job", "delete_document", "over"}
    /\ pc[c] \in {"delete_job", "delete_document"} => c \in wrote
    /\ pc[c] # "over" => answer[c] = "none"
    /\ pc[c] \in {"upload", "start_job", "wait", "delete_job", "delete_document"} => Parses(c)
    /\ answer[c] = "ok" => c \in wrote
    /\ answer[c] = "refused" => c \notin wrote
    /\ answer[c] = "error" /\ c \in wrote => "write" \in mishaps[c]

\* The document and the job of a call fit its step.
RemoteInv(c) ==
    /\ ~ Parses(c) => document[c] = "none" /\ job[c] = "none"
    /\ pc[c] \in {"new", "read", "upload", "start_job"} => job[c] = "none"
    /\ pc[c] = "start_job" => document[c] = "kept"
    /\ pc[c] \in {"write", "delete_job", "delete_document"} => job[c] # "running"
    /\ job[c] = "running" => document[c] = "kept"
    /\ job[c] = "deleted" => c \in wrote
    /\ pc[c] = "delete_document" \/ answer[c] = "ok" =>
          (job[c] \in {"running", "done"} => "delete_job" \in mishaps[c])
    /\ answer[c] = "ok" => (document[c] = "kept" => "delete_document" \in mishaps[c])

\* Why call c may write its text without an old_string to look for.
MayCreate(c) ==
    LET r == request[c] IN
    \/ r.old # <<>>
    \/ "read" \in mishaps[c]
    \/ seen[c] \cap {NoFile, <<>>} # {} /\ text[c] = r.new
    \/ r.replace_all /\ \E t \in seen[c] \ {NoFile} : InEveryGap(t, r.new, text[c])

\* What a call holds comes from what its source contained since it began.
SeenInv(c) ==
    /\ pc[c] \notin Ended => files[Source(request[c])] \in seen[c]
    /\ pc[c] \in {"upload", "start_job", "wait"} => text[c] \in seen[c] \ {NoFile}
    /\ pc[c] = "write" => \E t \in seen[c] : text[c] \in Outcomes(request[c], t)
    /\ pc[c] = "write" /\ request[c].tool = "file_edit" => MayCreate(c)

CallInv(c) == OrderInv(c) /\ RemoteInv(c) /\ SeenInv(c)

Inv == TypeOK /\ \A c \in Call : CallInv(c)

-----------------------------------------------------------------------------
(* Induction over the natural numbers, for a set.                          *)
LEMMA SetInduction ==
    ASSUME NEW S, 0 \in S, \A n \in Nat : n \in S => n + 1 \in S
    PROVE  Nat \subseteq S
<1> DEFINE R == {p \in Nat \X Nat : p[1] < p[2]}
           T == Nat \ S
<1>1. IsWellFoundedOn(R, Nat)
  BY NatLessThanWellFounded DEF OpToRel
<1>2. SUFFICES ASSUME T # {} PROVE FALSE
  OBVIOUS
<1> HIDE DEF R
<1>3. T \subseteq Nat
  OBVIOUS
<1> HIDE DEF T
<1>4. PICK x \in T : \A y \in T : ~ (<<y, x>> \in R)
  BY <1>1, <1>2, <1>3, WFMin
<1>5. x \in Nat /\ x \notin S
  BY DEF T
<1>6. x # 0 /\ x - 1 \in Nat
  BY <1>5
<1>7. <<x - 1, x>> \in R
  BY <1>5, <1>6 DEF R
<1>8. x - 1 \in S
  BY <1>4, <1>6, <1>7 DEF T
<1>9. QED
  BY <1>5, <1>6, <1>8

\* The function that FlattenSeq(s) defines, on 1 .. m.
Joins(f, m, s) == f = [i \in 1 .. m |-> IF i = 1 THEN s[i] ELSE f[i - 1] \o s[i]]

(* That function exists.                                                   *)
LEMMA JoinExists ==
    ASSUME NEW S, NEW s, NEW n \in Nat, \A i \in 1 .. n : s[i] \in Seq(S)
    PROVE  \E f : Joins(f, n, s)
<1> DEFINE Exists(m) == \E f \in [1 .. m -> Seq(S)] : Joins(f, m, s)
           K == {m \in Nat : m <= n => Exists(m)}
<1>1. Exists(0)
  <2>1. [i \in 1 .. 0 |-> <<>>] \in [1 .. 0 -> Seq(S)]
    OBVIOUS
  <2>2. Joins([i \in 1 .. 0 |-> <<>>], 0, s)
    BY DEF Joins
  <2>3. QED
    BY <2>1, <2>2
<1>2. ASSUME NEW m \in Nat, m + 1 <= n, Exists(m) PROVE Exists(m + 1)
  <2>1. PICK f \in [1 .. m -> Seq(S)] : Joins(f, m, s)
    BY <1>2
  <2> DEFINE g == [i \in 1 .. m + 1 |->
                     IF i <= m THEN f[i] ELSE IF i = 1 THEN s[i] ELSE f[i - 1] \o s[i]]
  <2>2. ASSUME NEW i \in 1 .. m + 1 PROVE g[i] \in Seq(S)
    <3>1. CASE i <= m
      BY <3>1
    <3>2. CASE i = m + 1 /\ i = 1
      BY <1>2, <3>2
    <3>3. CASE i = m + 1 /\ i # 1
      <4>1. f[i - 1] \in Seq(S) /\ s[i] \in Seq(S)
        BY <1>2, <3>3
      <4>2. f[i - 1] \o s[i] \in Seq(S)
        BY <4>1, ConcatProperties
      <4>3. QED
        BY <3>3, <4>2
    <3>4. QED
      BY <3>1, <3>2, <3>3
  <2>3. ASSUME NEW i \in 1 .. m + 1
        PROVE g[i] = IF i = 1 THEN s[i] ELSE g[i - 1] \o s[i]
    <3>1. i # 1 => i - 1 \in 1 .. m /\ g[i - 1] = f[i - 1]
      OBVIOUS
    <3>2. \A j \in 1 .. m : f[j] = IF j = 1 THEN s[j] ELSE f[j - 1] \o s[j]
      <4>1. f = [j \in 1 .. m |-> IF j = 1 THEN s[j] ELSE f[j - 1] \o s[j]]
        BY <2>1 DEF Joins
      <4> HIDE DEF g
      <4>2. QED
        BY <4>1, Zenon
    <3>3. g[i] = IF i = 1 THEN s[i] ELSE f[i - 1] \o s[i]
      <4>1. g[i] = IF i <= m THEN f[i] ELSE IF i = 1 THEN s[i] ELSE f[i - 1] \o s[i]
        OBVIOUS
      <4> HIDE DEF g
      <4>2. i <= m => i \in 1 .. m
        OBVIOUS
      <4>3. QED
        BY <3>2, <4>1, <4>2
    <3> HIDE DEF g
    <3>4. QED
      BY <3>1, <3>3
  <2>4. g = [i \in 1 .. m + 1 |-> g[i]]
    OBVIOUS
  <2> HIDE DEF g
  <2>5. g \in [1 .. m + 1 -> Seq(S)]
    BY <2>2, <2>4
  <2>6. Joins(g, m + 1, s)
    BY <2>3, <2>4 DEF Joins
  <2>7. QED
    BY <2>5, <2>6
<1> HIDE DEF Exists
<1>3. 0 \in K
  BY <1>1
<1>4. ASSUME NEW m \in Nat, m \in K PROVE m + 1 \in K
  BY <1>2, <1>4
<1> HIDE DEF K
<1>5. n \in K
  BY <1>3, <1>4, SetInduction
<1>6. QED
  BY <1>5 DEF K, Exists

(* Its values are sequences.                                               *)
LEMMA JoinType ==
    ASSUME NEW S, NEW s, NEW n \in Nat, n # 0, \A i \in 1 .. n : s[i] \in Seq(S),
           NEW f, Joins(f, n, s)
    PROVE  f[n] \in Seq(S)
<1>1. \A i \in 1 .. n : f[i] = IF i = 1 THEN s[i] ELSE f[i - 1] \o s[i]
  BY Zenon DEF Joins
<1> DEFINE K == {m \in Nat : m + 1 <= n => f[m + 1] \in Seq(S)}
<1>2. 0 \in K
  <2>1. 1 \in 1 .. n /\ 0 + 1 = 1
    OBVIOUS
  <2>2. f[1] = s[1]
    BY <1>1, <2>1
  <2>3. QED
    BY <2>1, <2>2
<1>3. ASSUME NEW m \in Nat, m \in K, m + 2 <= n PROVE f[m + 2] \in Seq(S)
  <2>1. m + 2 \in 1 .. n /\ m + 2 # 1 /\ (m + 2) - 1 = m + 1 /\ m + 1 <= n
    BY <1>3
  <2>2. f[m + 2] = f[m + 1] \o s[m + 2]
    BY <1>1, <2>1
  <2>3. f[m + 1] \in Seq(S) /\ s[m + 2] \in Seq(S)
    BY <1>3, <2>1
  <2>4. QED
    BY <2>2, <2>3, ConcatProperties
<1>4. ASSUME NEW m \in Nat, m \in K PROVE m + 1 \in K
  <2>1. m + 1 \in Nat /\ (m + 1) + 1 = m + 2
    OBVIOUS
  <2>2. QED
    BY <1>3, <1>4, <2>1
<1> HIDE DEF K
<1>5. Nat \subseteq K
  BY <1>2, <1>4, SetInduction
<1>6. n - 1 \in Nat /\ (n - 1) + 1 = n
  OBVIOUS
<1>7. n - 1 \in K
  BY <1>5, <1>6
<1>8. f[(n - 1) + 1] \in Seq(S)
  BY <1>6, <1>7 DEF K
<1>9. QED
  BY <1>6, <1>8

(* FlattenSeq makes a sequence of a sequence of sequences.                 *)
LEMMA FlattenSeqType ==
    ASSUME NEW S, NEW s \in Seq(Seq(S))
    PROVE  FlattenSeq(s) \in Seq(S)
<1> DEFINE n == Len(s)
           flat == CHOOSE f : Joins(f, n, s)
<1>1. n \in Nat /\ \A i \in 1 .. n : s[i] \in Seq(S)
  BY LenProperties, ElementOfSeq
<1>2. CASE n = 0
  BY <1>2, EmptySeq DEF FlattenSeq
<1>3. CASE n # 0
  <2>1. FlattenSeq(s) = flat[n]
    BY <1>3 DEF FlattenSeq, Joins
  <2> HIDE DEF n
  <2>2. Joins(flat, n, s)
    BY <1>1, JoinExists
  <2> HIDE DEF flat
  <2>3. QED
    BY <1>1, <1>3, <2>1, <2>2, JoinType
<1>4. QED
  BY <1>2, <1>3

-----------------------------------------------------------------------------
Char == Token \cup {Markdown}

(* Replacing tokens of a text gives a text.                                *)
LEMMA ReplacedType ==
    ASSUME NEW t \in Seq(Char), NEW old, NEW new \in Seq(Char), NEW places
    PROVE  Replaced(t, old, new, places) \in Seq(Char)
<1> DEFINE piece(i) == (IF i \in places THEN new ELSE <<>>)
               \o (IF i = Len(t) \/ (i \in places /\ old # <<>>) THEN <<>> ELSE <<t[i + 1]>>)
           s == [i \in 1 .. Len(t) + 1 |-> piece(i - 1)]
<1>1. Len(t) \in Nat /\ \A i \in 1 .. Len(t) : t[i] \in Char
  BY LenProperties, ElementOfSeq
<1>2. ASSUME NEW i \in 1 .. Len(t) + 1 PROVE piece(i - 1) \in Seq(Char)
  <2> DEFINE k == i - 1
             left == IF k \in places THEN new ELSE <<>>
             right == IF k = Len(t) \/ (k \in places /\ old # <<>>) THEN <<>> ELSE <<t[k + 1]>>
  <2>1. left \in Seq(Char)
    BY EmptySeq
  <2>2. k # Len(t) => t[k + 1] \in Char
    BY <1>1
  <2>3. t[k + 1] \in Char => <<t[k + 1]>> \in Seq(Char)
    OBVIOUS
  <2> HIDE DEF k
  <2>4. right \in Seq(Char)
    BY <2>2, <2>3, EmptySeq
  <2> HIDE DEF left, right
  <2>5. left \o right \in Seq(Char)
    BY <2>1, <2>4, ConcatProperties
  <2>6. QED
    BY <2>5 DEF k, left, right
<1> HIDE DEF piece
<1>3. s \in Seq(Seq(Char))
  BY <1>1, <1>2
<1>4. FlattenSeq(s) \in Seq(Char)
  BY <1>3, FlattenSeqType
<1>5. QED
  BY <1>4 DEF Replaced, piece

LEMMA TextIsWritten == Text \subseteq Seq(Char) /\ <<>> \in Seq(Char)
  BY SeqMonotonic, EmptySeq DEF Text, Char

(* The fields of a request.                                                *)
LEMMA RequestTypes ==
    ASSUME NEW r \in Requests
    PROVE  /\ r.tool \in {"file_edit", "file_write", "upload", "parse"}
           /\ Source(r) \in Path /\ Target(r) \in Path
           /\ r.tool = "file_edit" => r.old \in Text /\ r.new \in Text
           /\ r.tool \in {"file_write", "upload"} => r.content \in Text
  BY FileToolsAssumption DEF EditRequest, PutRequest, ParseRequest, Source, Target

(* What an edit writes is a text.                                          *)
LEMMA EditsType ==
    ASSUME NEW r \in Requests, r.tool = "file_edit", NEW t \in Seq(Char)
    PROVE  Edits(r, t) \subseteq Seq(Char)
<1>1. r.new \in Seq(Char)
  BY RequestTypes, TextIsWritten
<1>2. Replaced(t, r.old, r.new, Occurrences(t, r.old)) \in Seq(Char)
  BY <1>1, ReplacedType
<1>3. QED
  BY <1>2 DEF Edits

LEMMA OccurrencesFinite ==
    ASSUME NEW t \in Seq(Char), NEW old
    PROVE  IsFiniteSet(Occurrences(t, old))
<1>1. Len(t) \in Nat
  BY LenProperties
<1>2. IsFiniteSet(0 .. Len(t)) /\ IsFiniteSet(0 .. Len(t) - 1)
  BY <1>1, FS_Interval
<1>3. QED
  BY <1>2, FS_Subset DEF Occurrences

(* What an edit writes is what FileStore allows it to.                     *)
LEMMA EditsAreOutcomes ==
    ASSUME NEW r, r.tool = "file_edit", NEW t \in Seq(Char), t # NoFile
    PROVE  Edits(r, t) \subseteq Outcomes(r, t)
<1> DEFINE places == Occurrences(t, r.old)
<1>1. IsFiniteSet(places)
  BY OccurrencesFinite
<1>2. ASSUME ~ Cardinality(places) > 1, places # {}
      PROVE \A i, j \in places : i = j
  <2>1. Cardinality(places) \in Nat /\ Cardinality(places) # 0
    BY <1>1, <1>2, FS_CardinalityType, FS_EmptySet
  <2>2. Cardinality(places) = 1
    BY <1>2, <2>1
  <2>3. PICK x : places = {x}
    BY <1>1, <2>2, FS_Singleton
  <2>4. QED
    BY <2>3
<1> HIDE DEF places
<1>3. QED
  BY <1>2 DEF Edits, Outcomes, places

(* Multiples of a number grow with the factor.                             *)
LEMMA Multiples ==
    ASSUME NEW n \in Nat, NEW i \in Nat, NEW m \in Nat
    PROVE  /\ i * n \in Nat /\ (i + 1) * n = i * n + n
           /\ i <= m => i * n <= m * n
<1>1. i * n \in Nat /\ m * n \in Nat /\ (i + 1) * n = i * n + n
  OBVIOUS
<1>2. ASSUME i <= m PROVE i * n <= m * n
  <2>1. m - i \in Nat /\ (m - i) * n \in Nat
    BY <1>2
  <2>2. m * n = i * n + (m - i) * n
    OBVIOUS
  <2>3. QED
    BY <1>1, <2>1, <2>2
<1>3. QED
  BY <1>1, <1>2

\* From one token of the text to the next.
Stride(new) == Len(new) + 1

(* u is the first m tokens of t with new before each of them.              *)
Woven(t, new, m, u) ==
    LET n == Stride(new)
    IN  /\ u \in Seq(Char) /\ Len(u) = m * n
        /\ \A i \in 1 .. m : u[i * n] = t[i]
        /\ \A i \in 0 .. m - 1, k \in 1 .. Len(new) : u[i * n + k] = new[k]

(* w is such a text with v after it, and v begins with new.                *)
WovenThen(t, new, m, v, w) ==
    LET n == Stride(new)
    IN  /\ w \in Seq(Char) /\ Len(w) = m * n + Len(v)
        /\ \A i \in 1 .. m : w[i * n] = t[i]
        /\ \A i \in 0 .. m, k \in 1 .. Len(new) : w[i * n + k] = new[k]
        /\ \A k \in 1 .. Len(v) : w[m * n + k] = v[k]

LEMMA WovenAppend ==
    ASSUME NEW t \in Seq(Char), NEW new \in Seq(Char), NEW m \in Nat, m <= Len(t),
           NEW u, Woven(t, new, m, u), NEW v \in Seq(Char),
           Len(new) <= Len(v), \A k \in 1 .. Len(new) : v[k] = new[k]
    PROVE  WovenThen(t, new, m, v, u \o v)
<1> DEFINE l == Len(new)
           n == Stride(new)
           w == u \o v
<1>1. l \in Nat /\ n \in Nat /\ n = l + 1 /\ Len(v) \in Nat
  BY LenProperties DEF Stride
<1>a. m * n \in Nat
  BY <1>1
<1>2. /\ w \in Seq(Char) /\ Len(w) = m * n + Len(v)
      /\ \A j \in 1 .. m * n + Len(v) :
            w[j] = IF j <= m * n THEN u[j] ELSE v[j - m * n]
  <2>1. u \in Seq(Char) /\ Len(u) = m * n
    BY DEF Woven
  <2>2. /\ w \in Seq(Char) /\ Len(w) = Len(u) + Len(v)
        /\ \A j \in 1 .. Len(u) + Len(v) :
              w[j] = IF j <= Len(u) THEN u[j] ELSE v[j - Len(u)]
    BY <2>1, ConcatProperties, Zenon
  <2>3. QED
    BY <2>1, <2>2, Zenon
<1>3. /\ \A i \in 1 .. m : u[i * n] = t[i]
      /\ \A i \in 0 .. m - 1, k \in 1 .. l : u[i * n + k] = new[k]
  BY DEF Woven
<1>4. l <= Len(v) /\ \A k \in 1 .. l : v[k] = new[k]
  OBVIOUS
<1> HIDE DEF l, w, n
<1>5. ASSUME NEW i \in 1 .. m PROVE w[i * n] = t[i]
  <2>1. i * n \in Nat /\ i * n <= m * n
    BY <1>1, <1>a, Multiples
  <2>2. 1 * n <= i * n
    BY <1>1, <1>a, Multiples
  <2>3. i * n \in 1 .. m * n + Len(v)
    BY <1>1, <1>a, <2>1, <2>2
  <2>4. QED
    BY <1>2, <1>3, <2>1, <2>3
<1>6. ASSUME NEW k \in 1 .. Len(v) PROVE w[m * n + k] = v[k]
  <2> DEFINE j == m * n + k
  <2>0. ASSUME NEW a \in Nat
        PROVE  a + k \in 1 .. a + Len(v) /\ ~ a + k <= a /\ (a + k) - a = k
    BY <1>1
  <2>1. j \in 1 .. m * n + Len(v) /\ ~ j <= m * n /\ j - m * n = k
    BY <1>a, <2>0
  <2> HIDE DEF j
  <2>2. w[j] = v[k]
    BY <1>2, <2>1
  <2>3. QED
    BY <2>2 DEF j
<1>7. ASSUME NEW i \in 0 .. m, NEW k \in 1 .. l PROVE w[i * n + k] = new[k]
  <2>1. CASE i = m
    <3>1. k \in 1 .. Len(v)
      BY <1>1, <1>a, <1>4
    <3>2. QED
      BY <1>4, <1>6, <2>1, <3>1
  <2>2. CASE i # m
    <3> DEFINE j == i * n + k
    <3>1. i \in Nat /\ i + 1 \in Nat /\ i + 1 <= m /\ i \in 0 .. m - 1
      BY <2>2
    <3>2. i * n \in Nat /\ (i + 1) * n = i * n + n /\ (i + 1) * n <= m * n
      BY <1>1, <1>a, <3>1, Multiples
    <3>3. j \in 1 .. m * n + Len(v) /\ j <= m * n
      BY <1>1, <1>a, <3>2
    <3>4. u[j] = new[k]
      BY <1>3, <3>1
    <3> HIDE DEF j
    <3>5. w[j] = new[k]
      BY <1>2, <3>3, <3>4
    <3>6. QED
      BY <3>5 DEF j
  <2>3. QED
    BY <2>1, <2>2
<1>8. QED
  BY <1>2, <1>5, <1>6, <1>7 DEF l, w, n, WovenThen

LEMMA WovenNext ==
    ASSUME NEW t \in Seq(Char), NEW new \in Seq(Char), NEW m \in Nat, m < Len(t),
           NEW u, Woven(t, new, m, u)
    PROVE  Woven(t, new, m + 1, u \o (new \o <<t[m + 1]>>))
<1> DEFINE l == Len(new)
           n == Stride(new)
           a == t[m + 1]
           v == new \o <<a>>
           w == u \o v
<1>1. l \in Nat /\ n = l + 1 /\ Len(t) \in Nat /\ a \in Char
  BY LenProperties, ElementOfSeq DEF Stride
<1>2. <<a>> \in Seq(Char) /\ Len(<<a>>) = 1 /\ <<a>>[1] = a
  BY <1>1
<1> HIDE DEF a
<1>3. /\ v \in Seq(Char) /\ Len(v) = l + 1
      /\ \A k \in 1 .. l + 1 : v[k] = IF k <= l THEN new[k] ELSE <<a>>[k - l]
  BY <1>2, ConcatProperties
<1> HIDE DEF v, l, n
<1>4. l <= Len(v) /\ (\A k \in 1 .. l : v[k] = new[k])
  BY <1>1, <1>3
<1>5. v[n] = a
  <2>1. n \in 1 .. l + 1 /\ ~ n <= l /\ n - l = 1
    BY <1>1
  <2>2. QED
    BY <1>2, <1>3, <2>1
<1>6. /\ w \in Seq(Char) /\ Len(w) = m * n + n
      /\ \A i \in 1 .. m : w[i * n] = t[i]
      /\ \A i \in 0 .. m, k \in 1 .. l : w[i * n + k] = new[k]
      /\ \A k \in 1 .. n : w[m * n + k] = v[k]
  <2>1. /\ Len(new) <= Len(v) /\ (\A k \in 1 .. Len(new) : v[k] = new[k])
        /\ m <= Len(t) /\ v \in Seq(Char) /\ Len(v) = n
    BY <1>1, <1>3, <1>4 DEF l
  <2>2. WovenThen(t, new, m, v, w)
    BY <2>1, WovenAppend DEF w
  <2> HIDE DEF w
  <2>3. QED
    BY <2>1, <2>2 DEF WovenThen, l, n
<1> HIDE DEF w
<1>7. n \in Nat /\ (m + 1) * n = m * n + n
  BY <1>1, Multiples
<1>8. w[(m + 1) * n] = t[m + 1]
  <2>1. n \in 1 .. n
    BY <1>1
  <2>2. w[m * n + n] = v[n]
    BY <1>6, <2>1
  <2>3. QED
    BY <1>5, <1>7, <2>2 DEF a
<1>9. \A i \in 1 .. m + 1 : w[i * n] = t[i]
  BY <1>6, <1>8
<1>10. (m + 1) - 1 = m
  OBVIOUS
<1>11. Woven(t, new, m + 1, w)
  BY <1>6, <1>7, <1>9, <1>10 DEF Woven, n, l
<1>12. QED
  BY <1>11 DEF w, v, a

(* Replacing the empty string everywhere puts new in every gap.            *)
LEMMA ReplacedGaps ==
    ASSUME NEW t \in Seq(Char), NEW new \in Seq(Char)
    PROVE  InEveryGap(t, new, Replaced(t, <<>>, new, 0 .. Len(t)))
<1> DEFINE L == Len(t)
           places == 0 .. L
           piece(i) == (IF i \in places THEN new ELSE <<>>)
               \o (IF i = L \/ (i \in places /\ <<>> # <<>>) THEN <<>> ELSE <<t[i + 1]>>)
           s == [i \in 1 .. L + 1 |-> piece(i - 1)]
           flat == CHOOSE f : Joins(f, L + 1, s)
<1>1. L \in Nat /\ \A i \in 1 .. L : t[i] \in Char
  BY LenProperties, ElementOfSeq
<1>2. \A i \in 0 .. L : piece(i) = new \o (IF i = L THEN <<>> ELSE <<t[i + 1]>>)
  OBVIOUS
<1>3. Replaced(t, <<>>, new, 0 .. L) = FlattenSeq(s)
  BY DEF Replaced
<1> HIDE DEF piece
<1>4. ASSUME NEW i \in 1 .. L PROVE s[i] = new \o <<t[i]>> /\ s[i] \in Seq(Char)
  <2>1. i - 1 \in 0 .. L /\ i - 1 # L /\ (i - 1) + 1 = i /\ i \in 1 .. L + 1
    BY <1>1
  <2>2. s[i] = piece(i - 1)
    BY <2>1
  <2>3. piece(i - 1) = new \o <<t[(i - 1) + 1]>>
    BY <1>2, <2>1
  <2>4. <<t[i]>> \in Seq(Char)
    BY <1>1
  <2>5. s[i] = new \o <<t[i]>>
    BY <2>1, <2>2, <2>3
  <2> HIDE DEF s
  <2>6. QED
    BY <2>4, <2>5, ConcatProperties
<1>5. s[L + 1] = new
  <2>1. L + 1 \in 1 .. L + 1 /\ (L + 1) - 1 = L /\ L \in 0 .. L
    BY <1>1
  <2>2. s[L + 1] = piece(L)
    BY <2>1
  <2>3. piece(L) = new \o <<>>
    BY <1>2, <2>1
  <2>4. QED
    BY <2>2, <2>3, ConcatEmptySeq
<1> HIDE DEF s
<1>6. ASSUME NEW i \in 1 .. L + 1 PROVE s[i] \in Seq(Char)
  <2>1. i \in 1 .. L \/ i = L + 1
    BY <1>1
  <2>2. QED
    BY <1>4, <1>5, <2>1
<1>7. Joins(flat, L + 1, s)
  <2>1. L + 1 \in Nat
    BY <1>1
  <2>2. QED
    BY <1>6, <2>1, JoinExists
<1>8. FlattenSeq(s) = flat[L + 1]
  <2>1. Len(s) = L + 1
    BY <1>1 DEF s
  <2>2. L + 1 # 0
    BY <1>1
  <2>3. FlattenSeq(s) = LET flatten[i \in 1 .. Len(s)] ==
                              IF i = 1 THEN s[i] ELSE flatten[i - 1] \o s[i]
                        IN flatten[Len(s)]
    BY <2>1, <2>2 DEF FlattenSeq
  <2>4. QED
    BY <2>1, <2>3 DEF Joins
<1> HIDE DEF flat
<1>9. \A i \in 1 .. L + 1 : flat[i] = IF i = 1 THEN s[i] ELSE flat[i - 1] \o s[i]
  BY <1>7, Zenon DEF Joins
<1> DEFINE K == {m \in Nat : m + 1 <= L => Woven(t, new, m + 1, flat[m + 1])}
<1>10. 0 \in K
  <2>1. ASSUME 1 <= L PROVE Woven(t, new, 1, flat[1])
    <3>1. 1 \in 1 .. L /\ 1 \in 1 .. L + 1
      BY <1>1, <2>1
    <3>2. flat[1] = new \o <<t[1]>> /\ new \o <<t[1]>> \in Seq(Char)
      BY <1>4, <1>9, <3>1
    <3>3. Woven(t, new, 0, <<>>)
      <4>1. 0 * Stride(new) = 0
        BY LenProperties DEF Stride
      <4>2. QED
        BY <4>1, EmptySeq DEF Woven
    <3>4. Woven(t, new, 0 + 1, <<>> \o (new \o <<t[0 + 1]>>))
      <4>1. 0 \in Nat /\ 0 < Len(t)
        BY <1>1, <2>1
      <4>2. QED
        BY <3>3, <4>1, WovenNext
    <3>5. 0 + 1 = 1 /\ <<>> \o (new \o <<t[1]>>) = new \o <<t[1]>>
      BY <3>2, ConcatEmptySeq
    <3>6. QED
      BY <3>2, <3>4, <3>5
  <2>2. 0 + 1 = 1
    OBVIOUS
  <2>3. QED
    BY <2>1, <2>2
<1>11. ASSUME NEW m \in Nat, m \in K PROVE m + 1 \in K
  <2>1. ASSUME (m + 1) + 1 <= L PROVE Woven(t, new, (m + 1) + 1, flat[(m + 1) + 1])
    <3> DEFINE q == m + 1
    <3>1. q \in Nat /\ q < L /\ q + 1 \in 1 .. L /\ q + 1 \in 1 .. L + 1 /\ q + 1 # 1
          /\ (q + 1) - 1 = q /\ m + 1 <= L
      BY <1>1, <2>1
    <3>2. Woven(t, new, q, flat[q])
      BY <1>11, <3>1
    <3> HIDE DEF q
    <3>3. flat[q + 1] = flat[q] \o s[q + 1]
      BY <1>9, <3>1
    <3>4. s[q + 1] = new \o <<t[q + 1]>>
      BY <1>4, <3>1
    <3>5. Woven(t, new, q + 1, flat[q] \o (new \o <<t[q + 1]>>))
      BY <3>1, <3>2, WovenNext
    <3>6. Woven(t, new, q + 1, flat[q + 1])
      BY <3>3, <3>4, <3>5
    <3>7. QED
      BY <3>6 DEF q
  <2>2. m + 1 \in Nat
    OBVIOUS
  <2>3. QED
    BY <2>1, <2>2
<1> HIDE DEF K
<1>12. Nat \subseteq K
  BY <1>10, <1>11, SetInduction
<1>13. CASE L = 0
  <2>1. FlattenSeq(s) = new
    <3>1. L + 1 = 1 /\ 1 \in 1 .. L + 1
      BY <1>13
    <3>2. flat[1] = s[1]
      BY <1>9, <3>1
    <3>3. QED
      BY <1>5, <1>8, <3>1, <3>2
  <2>2. 0 * (Len(new) + 1) = 0 /\ Len(new) \in Nat
    BY LenProperties
  <2>3. InEveryGap(t, new, new)
    BY <1>13, <2>2 DEF InEveryGap
  <2>4. QED
    BY <1>3, <2>1, <2>3
<1>14. CASE L # 0
  <2>1. L - 1 \in Nat /\ (L - 1) + 1 = L
    BY <1>1, <1>14
  <2>2. Woven(t, new, L, flat[L])
    <3>1. L - 1 \in K
      BY <1>12, <2>1
    <3>2. (L - 1) + 1 <= L => Woven(t, new, (L - 1) + 1, flat[(L - 1) + 1])
      BY <3>1 DEF K
    <3>3. QED
      BY <1>1, <2>1, <3>2
  <2>3. flat[L + 1] = flat[L] \o new
    <3>1. L + 1 \in 1 .. L + 1 /\ L + 1 # 1 /\ (L + 1) - 1 = L
      BY <1>1, <1>14
    <3>2. QED
      BY <1>5, <1>9, <3>1
  <2>4. Len(new) \in Nat /\ Len(new) <= Len(new) /\ L <= Len(t)
    BY <1>1, LenProperties
  <2> HIDE DEF L
  <2>5. InEveryGap(t, new, flat[L] \o new)
    <3>1. L \in Nat /\ new \in Seq(Char) /\ \A k \in 1 .. Len(new) : new[k] = new[k]
      BY <1>1 DEF L
    <3>2. WovenThen(t, new, L, new, flat[L] \o new)
      BY <2>2, <2>4, <3>1, WovenAppend
    <3>3. QED
      BY <3>2 DEF InEveryGap, WovenThen, L, Stride
  <2>6. QED
    BY <1>3, <1>8, <2>3, <2>5 DEF L
<1>15. QED
  BY <1>13, <1>14
\* Of the empty text nothing but new is left.
LEMMA ReplacedNothing ==
    ASSUME NEW t \in Seq(Char), t = <<>>, NEW new \in Seq(Char)
    PROVE  Replaced(t, <<>>, new, 0 .. Len(t)) = new
<1> DEFINE u == Replaced(t, <<>>, new, 0 .. Len(t))
<1>1. u \in Seq(Char) /\ InEveryGap(t, new, u)
  BY ReplacedType, ReplacedGaps
<1> HIDE DEF u
<1>2. Len(t) = 0 /\ Len(new) \in Nat /\ Len(u) \in Nat
  BY <1>1, EmptySeq, LenProperties
<1>3. 0 * (Len(new) + 1) = 0
  BY <1>2
<1>4. Len(u) = Len(new)
  BY <1>1, <1>2, <1>3 DEF InEveryGap
<1>5. ASSUME NEW k \in 1 .. Len(new) PROVE u[k] = new[k]
  <2>1. 0 \in 0 .. Len(t)
    BY <1>2
  <2>2. u[0 * (Len(new) + 1) + k] = new[k]
    BY <1>1, <2>1 DEF InEveryGap
  <2>3. 0 * (Len(new) + 1) + k = k
    BY <1>2, <1>3
  <2>4. QED
    BY <2>2, <2>3
<1>6. u = new
  BY <1>1, <1>4, <1>5, SeqEqual
<1>7. QED
  BY <1>6 DEF u

(* The empty string occurs in every gap, once in the empty text and more   *)
(* often in any other: an edit that looks for it makes new_string of the   *)
(* empty text, and of another nothing or, with replace_all, that text with *)
(* new_string in its gaps.                                                 *)
LEMMA EmptyOldString ==
    ASSUME NEW r \in Requests, r.tool = "file_edit", r.old = <<>>,
           NEW t \in Seq(Char), NEW u \in Edits(r, t)
    PROVE  \/ t = <<>> /\ u = r.new
           \/ r.replace_all /\ InEveryGap(t, r.new, u)
<1>1. Len(t) \in Nat /\ r.new \in Seq(Char)
  BY LenProperties, RequestTypes, TextIsWritten
<1>2. Cardinality(0 .. Len(t)) = Len(t) + 1
  BY <1>1, FS_Interval
<1>3. Occurrences(t, r.old) = 0 .. Len(t)
  BY DEF Occurrences
<1>4. /\ u = Replaced(t, <<>>, r.new, 0 .. Len(t))
      /\ r.replace_all \/ ~ Len(t) + 1 > 1
  BY <1>2, <1>3 DEF Edits
<1>5. InEveryGap(t, r.new, u)
  BY <1>1, <1>4, ReplacedGaps
<1>6. CASE ~ Len(t) + 1 > 1
  <2>1. Len(t) = 0
    BY <1>1, <1>6
  <2>2. t = <<>>
    BY <2>1, EmptySeq
  <2>3. Replaced(t, <<>>, r.new, 0 .. Len(t)) = r.new
    BY <1>1, <2>2, ReplacedNothing
  <2>4. QED
    BY <1>4, <2>2, <2>3
<1>7. QED
  BY <1>4, <1>5, <1>6

(* The parsed document is a text.                                          *)
LEMMA ParsedType == ASSUME NEW t \in Seq(Char) PROVE Parsed(t) \in Seq(Char)
<1>1. <<Markdown>> \in Seq(Char)
  BY DEF Char
<1>2. QED
  BY <1>1, ConcatProperties DEF Parsed

-----------------------------------------------------------------------------
LEMMA InitInv == Init => Inv
<1> SUFFICES ASSUME Init PROVE Inv
  OBVIOUS
<1> USE DEF Init
<1>1. NoFile \in Written /\ Text \subseteq Written
  BY TextIsWritten DEF Written, Char
<1>2. files \in [Path -> Written]
  BY <1>1, FileToolsAssumption
<1>3. TypeOK
  BY <1>1, <1>2 DEF TypeOK, Label
<1>4. \A c \in Call : CallInv(c)
  BY DEF CallInv, OrderInv, RemoteInv, SeenInv, Ended
<1>5. QED
  BY <1>3, <1>4 DEF Inv

(* What a step of another call leaves of call d.                           *)
Unmoved(d) ==
    /\ pc'[d] = pc[d] /\ text'[d] = text[d] /\ answer'[d] = answer[d]
    /\ document'[d] = document[d] /\ job'[d] = job[d] /\ mishaps'[d] = mishaps[d]
    /\ d \in wrote' <=> d \in wrote
    /\ request' = request
    /\ seen[d] \subseteq seen'[d]
    /\ pc[d] \notin Ended => files'[Source(request[d])] \in seen'[d]

LEMMA UnmovedKeeps == ASSUME NEW d \in Call, CallInv(d), Unmoved(d) PROVE CallInv(d)'
<1> USE DEF CallInv, Unmoved
<1>1. OrderInv(d)'
  BY DEF OrderInv, Parses
<1>2. RemoteInv(d)'
  BY DEF RemoteInv, Parses
<1>3. MayCreate(d) => MayCreate(d)'
  BY DEF MayCreate
<1>4. SeenInv(d)'
  BY <1>3 DEF SeenInv
<1>5. QED
  BY <1>1, <1>2, <1>4

(* A step that writes no file, in variables of call c only.                *)
Apart(c) ==
    /\ files' = files /\ request' = request /\ wrote' = wrote
    /\ \A d \in Call \ {c} :
        /\ pc'[d] = pc[d] /\ text'[d] = text[d] /\ answer'[d] = answer[d]
        /\ document'[d] = document[d] /\ job'[d] = job[d] /\ mishaps'[d] = mishaps[d]
        /\ seen'[d] = seen[d]

LEMMA ApartKeeps ==
    ASSUME Inv, NEW c \in Call, Apart(c), TypeOK', CallInv(c)' PROVE Inv'
<1>1. \A d \in Call \ {c} : Unmoved(d)
  BY DEF Apart, Unmoved, Inv, CallInv, SeenInv
<1>2. \A d \in Call \ {c} : CallInv(d)'
  BY <1>1, UnmovedKeeps DEF Inv
<1>3. QED
  BY <1>2 DEF Inv

(* A call begins: its source contains what it contains.                    *)
LEMMA BeginInv == ASSUME Inv, NEW c \in Call, Begin(c) PROVE Inv'
<1> USE DEF Begin, Goto, Answer, Mishap, remote, history
<1> DEFINE r == request[c]
<1>0. r \in Requests
  BY DEF Inv, TypeOK
<1>a. Source(r) \in Path /\ r.tool \in {"file_edit", "file_write", "upload", "parse"}
  BY <1>0, RequestTypes
<1>b. r.tool \in {"file_write", "upload"} => r.content \in Written
  BY <1>0, RequestTypes, TextIsWritten DEF Written, Char
<1>1. TypeOK'
  BY <1>a, <1>b DEF Inv, TypeOK, Label
<1>2. Apart(c)
  BY DEF Apart, Inv, TypeOK
<1>3. OrderInv(c)'
  BY DEF Inv, TypeOK, CallInv, OrderInv, Parses
<1>4. RemoteInv(c)'
  BY DEF Inv, TypeOK, CallInv, OrderInv, RemoteInv, Parses
<1>5. SeenInv(c)'
  <2>1. seen'[c] = {files[Source(r)]} /\ files' = files /\ request' = request
    BY DEF Inv, TypeOK
  <2>2. CASE r.tool \in {"file_edit", "parse"} /\ pc'[c] = "read"
    BY <2>1, <2>2 DEF SeenInv
  <2>3. CASE /\ r.tool \in {"file_write", "upload"}
             /\ pc'[c] = "write" /\ text'[c] = r.content
    <3>1. text'[c] \in Outcomes(r, files[Source(r)])
      BY <2>3 DEF Outcomes
    <3>2. QED
      BY <2>1, <2>3, <3>1 DEF SeenInv
  <2>4. QED
    BY <2>2, <2>3 DEF Inv, TypeOK
<1>6. QED
  BY <1>1, <1>2, <1>3, <1>4, <1>5, ApartKeeps DEF CallInv

(* An edit is made of the text that its file contains now.                 *)
LEMMA EditReadInv == ASSUME Inv, NEW c \in Call, EditRead(c) PROVE Inv'
<1> USE DEF EditRead, Goto, Answer, Mishap, remote, history
<1> DEFINE r == request[c]
<1>0. r \in Requests
  BY DEF Inv, TypeOK
<1> DEFINE found == files[r.path]
<1>a. found \in Seq(Char) /\ found \in seen[c] /\ Source(r) = r.path
  BY <1>0, RequestTypes DEF Inv, TypeOK, Written, Char, CallInv, SeenInv, Source, Ended
<1>b. Edits(r, found) \subseteq Written
  BY <1>0, <1>a, EditsType DEF Written, Char
<1>1. TypeOK'
  BY <1>b DEF Inv, TypeOK, Label
<1>2. Apart(c)
  BY DEF Apart, Inv, TypeOK
<1>3. OrderInv(c)'
  BY DEF Inv, TypeOK, CallInv, OrderInv, Parses
<1>4. RemoteInv(c)'
  BY DEF Inv, TypeOK, CallInv, OrderInv, RemoteInv, Parses
<1>5. SeenInv(c)'
  <2>1. CASE Answer(c, "refused")
    BY <2>1 DEF Inv, TypeOK, SeenInv, Ended
  <2>2. CASE \E new \in Edits(r, found) : text' = [text EXCEPT ![c] = new] /\ Goto(c, "write")
    <3>1. pc'[c] = "write" /\ text'[c] \in Edits(r, found)
      BY <2>2 DEF Inv, TypeOK
    <3>2. text'[c] \in Outcomes(r, found)
      BY <1>a, <3>1, EditsAreOutcomes
    <3>3. r.old = <<>> => \/ found = <<>> /\ text'[c] = r.new
                          \/ r.replace_all /\ InEveryGap(found, r.new, text'[c])
      BY <1>0, <1>a, <3>1, EmptyOldString
    <3>4. request' = request /\ seen' = seen /\ found # NoFile
      OBVIOUS
    <3> HIDE DEF found
    <3>5. MayCreate(c)'
      BY <1>a, <3>3, <3>4 DEF MayCreate
    <3>6. QED
      BY <1>a, <3>1, <3>2, <3>4, <3>5 DEF SeenInv, found
  <2>3. QED
    BY <2>1, <2>2
<1>6. QED
  BY <1>1, <1>2, <1>3, <1>4, <1>5, ApartKeeps DEF CallInv

(* An edit without an old_string writes after a failed read.               *)
LEMMA EditReadFailsInv == ASSUME Inv, NEW c \in Call, EditReadFails(c) PROVE Inv'
<1> USE DEF EditReadFails, Goto, Answer, Mishap, remote, history
<1> DEFINE r == request[c]
<1>0. r \in Requests
  BY DEF Inv, TypeOK
<1>a. /\ r.new \in Written /\ Source(r) = r.path
      /\ files[r.path] \in seen[c]
  BY <1>0, RequestTypes, TextIsWritten DEF Written, Char, Source, Inv, CallInv, SeenInv, Ended
<1>1. TypeOK'
  BY <1>a DEF Inv, TypeOK, Label
<1>2. Apart(c)
  BY DEF Apart, Inv, TypeOK
<1>3. OrderInv(c)'
  BY DEF Inv, TypeOK, CallInv, OrderInv, Parses
<1>4. RemoteInv(c)'
  BY DEF Inv, TypeOK, CallInv, OrderInv, RemoteInv, Parses
<1>5. SeenInv(c)'
  <2>1. CASE Answer(c, "error")
    BY <2>1 DEF Inv, TypeOK, SeenInv, Ended
  <2>2. CASE r.old = <<>> /\ text' = [text EXCEPT ![c] = r.new] /\ Goto(c, "write")
    <3>1. pc'[c] = "write" /\ text'[c] = r.new
      BY <2>2 DEF Inv, TypeOK
    <3>2. r.new \in Outcomes(r, files[r.path])
      BY <2>2 DEF Outcomes
    <3>3. files[r.path] = NoFile \/ "read" \in mishaps'[c]
      BY DEF Inv, TypeOK
    <3>4. MayCreate(c)'
      BY <1>a, <3>1, <3>3 DEF MayCreate
    <3>5. QED
      BY <1>a, <3>1, <3>2, <3>4 DEF SeenInv
  <2>3. QED
    BY <2>1, <2>2
<1>6. QED
  BY <1>1, <1>2, <1>3, <1>4, <1>5, ApartKeeps DEF CallInv

(* A parse holds what its file contains.                                   *)
LEMMA ParseReadInv == ASSUME Inv, NEW c \in Call, ParseRead(c) PROVE Inv'
<1> USE DEF ParseRead, Goto, Answer, Mishap, remote, history
<1> DEFINE r == request[c]
<1>0. r \in Requests
  BY DEF Inv, TypeOK
<1>a. r.path \in Path /\ Source(r) = r.path
  BY <1>0, RequestTypes DEF Source
<1>1. TypeOK'
  BY <1>a DEF Inv, TypeOK, Label
<1>2. Apart(c)
  BY DEF Apart, Inv, TypeOK
<1>3. OrderInv(c)'
  BY DEF Inv, TypeOK, CallInv, OrderInv, Parses
<1>4. RemoteInv(c)'
  BY DEF Inv, TypeOK, CallInv, OrderInv, RemoteInv, Parses
<1>5. SeenInv(c)'
  BY <1>a DEF Inv, TypeOK, CallInv, SeenInv, Ended
<1>6. QED
  BY <1>1, <1>2, <1>3, <1>4, <1>5, ApartKeeps DEF CallInv

(* The document is kept from here on.                                      *)
LEMMA UploadDocumentInv == ASSUME Inv, NEW c \in Call, UploadDocument(c) PROVE Inv'
<1> USE DEF UploadDocument, Goto, Answer, Mishap, remote, history
<1>1. TypeOK'
  BY DEF Inv, TypeOK, Label
<1>2. Apart(c)
  BY DEF Apart, Inv, TypeOK
<1>3. OrderInv(c)'
  BY DEF Inv, TypeOK, CallInv, OrderInv, Parses
<1>4. RemoteInv(c)'
  BY DEF Inv, TypeOK, CallInv, OrderInv, RemoteInv, Parses
<1>5. SeenInv(c)'
  BY DEF Inv, TypeOK, CallInv, SeenInv, MayCreate, Ended
<1>6. QED
  BY <1>1, <1>2, <1>3, <1>4, <1>5, ApartKeeps DEF CallInv

(* The job runs while its document is kept.                                *)
LEMMA StartJobInv == ASSUME Inv, NEW c \in Call, StartJob(c) PROVE Inv'
<1> USE DEF StartJob, Goto, Answer, Mishap, remote, history
<1>1. TypeOK'
  BY DEF Inv, TypeOK, Label
<1>2. Apart(c)
  BY DEF Apart, Inv, TypeOK
<1>3. OrderInv(c)'
  BY DEF Inv, TypeOK, CallInv, OrderInv, Parses
<1>4. RemoteInv(c)'
  BY DEF Inv, TypeOK, CallInv, OrderInv, RemoteInv, Parses
<1>5. SeenInv(c)'
  BY DEF Inv, TypeOK, CallInv, SeenInv, MayCreate, Ended
<1>6. QED
  BY <1>1, <1>2, <1>3, <1>4, <1>5, ApartKeeps DEF CallInv

(* The job of a call ends, at whatever step the call is.                   *)
LEMMA JobEndsInv == ASSUME Inv, NEW c \in Call, JobEnds(c) PROVE Inv'
<1> USE DEF JobEnds, Goto, Answer, Mishap, remote, history
<1>1. TypeOK'
  BY DEF Inv, TypeOK, Label
<1>2. Apart(c)
  BY DEF Apart, Inv, TypeOK
<1>3. OrderInv(c)'
  BY DEF Inv, TypeOK, CallInv, OrderInv, Parses
<1>4. RemoteInv(c)'
  BY DEF Inv, TypeOK, CallInv, OrderInv, RemoteInv, Parses
<1>5. SeenInv(c)'
  BY DEF Inv, TypeOK, CallInv, SeenInv, MayCreate, Ended
<1>6. QED
  BY <1>1, <1>2, <1>3, <1>4, <1>5, ApartKeeps DEF CallInv

(* The parsed text is what FileStore allows the call to write.             *)
LEMMA GetResultInv == ASSUME Inv, NEW c \in Call, GetResult(c) PROVE Inv'
<1> USE DEF GetResult, Goto, Answer, Mishap, remote, history
<1> DEFINE r == request[c]
<1>0. r \in Requests
  BY DEF Inv, TypeOK
<1>a. text[c] \in Seq(Char) /\ text[c] \in seen[c] \ {NoFile} /\ r.tool = "parse"
  BY DEF Inv, TypeOK, CallInv, SeenInv, OrderInv, Parses, Written, Char
<1>b. Parsed(text[c]) \in Written
  BY <1>a, ParsedType DEF Written, Char
<1>1. TypeOK'
  BY <1>b DEF Inv, TypeOK, Label
<1>2. Apart(c)
  BY DEF Apart, Inv, TypeOK
<1>3. OrderInv(c)'
  BY DEF Inv, TypeOK, CallInv, OrderInv, Parses
<1>4. RemoteInv(c)'
  BY DEF Inv, TypeOK, CallInv, OrderInv, RemoteInv, Parses
<1>5. SeenInv(c)'
  <2>1. Parsed(text[c]) \in Outcomes(r, text[c])
    BY <1>a DEF Outcomes
  <2>2. pc'[c] = "write" /\ text'[c] = Parsed(text[c])
    BY DEF Inv, TypeOK
  <2>3. QED
    BY <1>a, <2>1, <2>2 DEF Inv, CallInv, SeenInv, Ended
<1>6. QED
  BY <1>1, <1>2, <1>3, <1>4, <1>5, ApartKeeps DEF CallInv

(* The job is deleted when the result is in its file.                      *)
LEMMA DeleteJobInv == ASSUME Inv, NEW c \in Call, DeleteJob(c) PROVE Inv'
<1> USE DEF DeleteJob, Goto, Answer, Mishap, remote, history
<1>1. TypeOK'
  BY DEF Inv, TypeOK, Label
<1>2. Apart(c)
  BY DEF Apart, Inv, TypeOK
<1>3. OrderInv(c)'
  BY DEF Inv, TypeOK, CallInv, OrderInv, Parses
<1>4. RemoteInv(c)'
  BY DEF Inv, TypeOK, CallInv, OrderInv, RemoteInv, Parses
<1>5. SeenInv(c)'
  BY DEF Inv, TypeOK, CallInv, SeenInv, MayCreate, Ended
<1>6. QED
  BY <1>1, <1>2, <1>3, <1>4, <1>5, ApartKeeps DEF CallInv

(* The document is deleted when no job is running on it.                   *)
LEMMA DeleteDocumentInv == ASSUME Inv, NEW c \in Call, DeleteDocument(c) PROVE Inv'
<1> USE DEF DeleteDocument, Goto, Answer, Mishap, remote, history
<1>1. TypeOK'
  BY DEF Inv, TypeOK, Label
<1>2. Apart(c)
  BY DEF Apart, Inv, TypeOK
<1>3. OrderInv(c)'
  BY DEF Inv, TypeOK, CallInv, OrderInv, Parses
<1>4. RemoteInv(c)'
  BY DEF Inv, TypeOK, CallInv, OrderInv, RemoteInv, Parses
<1>5. SeenInv(c)'
  BY DEF Inv, TypeOK, CallInv, SeenInv, MayCreate, Ended
<1>6. QED
  BY <1>1, <1>2, <1>3, <1>4, <1>5, ApartKeeps DEF CallInv

(* A remote call fails before the file was written.                        *)
LEMMA CallFailsInv == ASSUME Inv, NEW c \in Call, CallFails(c) PROVE Inv'
<1> USE DEF CallFails, Goto, Answer, Mishap, remote, history
<1>1. TypeOK'
  BY DEF Inv, TypeOK, Label
<1>2. Apart(c)
  BY DEF Apart, Inv, TypeOK
<1>3. OrderInv(c)'
  BY DEF Inv, TypeOK, CallInv, OrderInv, Parses
<1>4. RemoteInv(c)'
  BY DEF Inv, TypeOK, CallInv, OrderInv, RemoteInv, Parses
<1>5. SeenInv(c)'
  BY DEF Inv, TypeOK, CallInv, SeenInv, MayCreate, Ended
<1>6. QED
  BY <1>1, <1>2, <1>3, <1>4, <1>5, ApartKeeps DEF CallInv

(* Nobody is answered after a crash.                                       *)
LEMMA CrashInv == ASSUME Inv, NEW c \in Call, Crash(c) PROVE Inv'
<1> USE DEF Crash, Goto, Answer, Mishap, remote, history
<1>1. TypeOK'
  BY DEF Inv, TypeOK, Label
<1>2. Apart(c)
  BY DEF Apart, Inv, TypeOK
<1>3. OrderInv(c)'
  BY DEF Inv, TypeOK, CallInv, OrderInv, Parses
<1>4. RemoteInv(c)'
  BY DEF Inv, TypeOK, CallInv, OrderInv, RemoteInv, Parses
<1>5. SeenInv(c)'
  BY DEF Inv, TypeOK, CallInv, SeenInv, MayCreate, Ended
<1>6. QED
  BY <1>1, <1>2, <1>3, <1>4, <1>5, ApartKeeps DEF CallInv

(* A write shows in what every other call in progress has seen of its      *)
(* source since it began.                                                  *)
LEMMA WriteInv == ASSUME Inv, NEW c \in Call, Write(c) PROVE Inv'
<1> DEFINE r == request[c]
           p == Target(r)
<1>1. r \in Requests /\ p \in Path /\ text[c] \in Written /\ pc[c] = "write"
  BY RequestTypes DEF Inv, TypeOK, Write
<1>2. /\ files' = [files EXCEPT ![p] = text[c]]
      /\ wrote' = wrote \cup {c}
      /\ seen' = [d \in Call |-> IF pc[d] \notin {"new", "over"} /\ Source(request[d]) = p
                                 THEN seen[d] \cup {text[c]} ELSE seen[d]]
      /\ UNCHANGED <<request, text, document, job>>
  BY DEF Write, remote
<1>3. \/ /\ pc' = [pc EXCEPT ![c] = "over"]
         /\ answer' = [answer EXCEPT ![c] = "error"]
         /\ mishaps' = [mishaps EXCEPT ![c] = @ \cup {"write"}]
      \/ /\ r.tool # "parse"
         /\ pc' = [pc EXCEPT ![c] = "over"]
         /\ answer' = [answer EXCEPT ![c] = "ok"]
         /\ UNCHANGED mishaps
      \/ /\ r.tool = "parse"
         /\ pc' = [pc EXCEPT ![c] = "delete_job"]
         /\ UNCHANGED <<answer, mishaps>>
  BY DEF Write, Goto, Answer, Mishap
<1> HIDE DEF p
<1>4. TypeOK'
  <2>1. files' \in [Path -> Written] /\ seen' \in [Call -> SUBSET Written]
    BY <1>1, <1>2 DEF Inv, TypeOK
  <2>2. QED
    BY <1>2, <1>3, <2>1 DEF Inv, TypeOK, Label
<1>5. \A d \in Call : pc[d] \notin Ended => files'[Source(request[d])] \in seen'[d]
  <2> SUFFICES ASSUME NEW d \in Call, pc[d] \notin Ended
               PROVE files'[Source(request[d])] \in seen'[d]
    OBVIOUS
  <2>1. Source(request[d]) \in Path /\ files[Source(request[d])] \in seen[d]
    BY RequestTypes DEF Inv, TypeOK, CallInv, SeenInv
  <2>2. QED
    BY <1>1, <1>2, <2>1 DEF Inv, TypeOK, Ended
<1>6. ASSUME NEW d \in Call \ {c} PROVE CallInv(d)'
  <2>1. Unmoved(d)
    BY <1>2, <1>3, <1>5 DEF Unmoved, Inv, TypeOK
  <2>2. QED
    BY <2>1, UnmovedKeeps DEF Inv
<1>7. OrderInv(c)'
  BY <1>1, <1>2, <1>3 DEF Inv, TypeOK, CallInv, OrderInv, Parses
<1>8. RemoteInv(c)'
  BY <1>1, <1>2, <1>3 DEF Inv, TypeOK, CallInv, OrderInv, RemoteInv, Parses
<1>9. SeenInv(c)'
  BY <1>1, <1>2, <1>3, <1>5 DEF Inv, TypeOK, SeenInv, Ended
<1>10. QED
  BY <1>4, <1>6, <1>7, <1>8, <1>9 DEF Inv, CallInv

LEMMA StepInv == Inv /\ [Next]_vars => Inv'
<1> SUFFICES ASSUME Inv, [Next]_vars PROVE Inv'
  OBVIOUS
<1>1. CASE UNCHANGED vars
  BY <1>1 DEF vars, Inv, TypeOK, CallInv, OrderInv, RemoteInv, SeenInv, MayCreate, Parses
<1>2. ASSUME NEW c \in Call, Step(c) PROVE Inv'
  BY <1>2, BeginInv, EditReadInv, EditReadFailsInv, ParseReadInv, UploadDocumentInv, StartJobInv,
     JobEndsInv, GetResultInv, WriteInv, DeleteJobInv, DeleteDocumentInv, CallFailsInv, CrashInv
  DEF Step
<1>3. QED
  BY <1>1, <1>2 DEF Next

(* Inv is an invariant of FileTools.                                       *)
LEMMA Invariance == Spec => []Inv
  BY InitInv, StepInv, PTL DEF Spec

-----------------------------------------------------------------------------
(* The variables of FileTools have their types; above all, what the edits  *)
(* and the parses write are texts.                                         *)
THEOREM TypeCorrect == Spec => []TypeOK
<1>1. Inv => TypeOK
  BY DEF Inv
<1>2. QED
  BY <1>1, Invariance, PTL

(* A call that answers success has written, one that refuses has not, and  *)
(* one that answers an error has only when the answer of its write was     *)
(* lost.                                                                   *)
THEOREM TrueAnswers == Spec => []AnswersAreTrue
<1>1. Inv => AnswersAreTrue
  BY DEF Inv, CallInv, OrderInv, AnswersAreTrue
<1>2. QED
  BY <1>1, Invariance, PTL

(* parse deletes no document that a job still parses, and no result that   *)
(* is not in the sandbox.                                                  *)
THEOREM DeletesInTime == Spec => []NothingDeletedTooEarly
<1>1. Inv => NothingDeletedTooEarly
  BY DEF Inv, CallInv, RemoteInv, NothingDeletedTooEarly
<1>2. QED
  BY <1>1, Invariance, PTL

(* A parse that succeeds leaves behind only what it failed to delete.      *)
THEOREM LeavesOnlyByMishap == Spec => []LeftoversHaveACause
<1>1. Inv => LeftoversHaveACause
  BY DEF Inv, CallInv, RemoteInv, LeftoversHaveACause
<1>2. QED
  BY <1>1, Invariance, PTL

(* Only Write adds a call to wrote, and unless its read failed, what an    *)
(* edit without an old_string writes is new_string for a file that was     *)
(* absent or empty, or with replace_all a text that the call saw with      *)
(* new_string in every gap.                                                *)
THEOREM CreatesOnly == Spec => EmptyOldStringKeepsText
<1> DEFINE Keeps == \A c \in Call :
              LET r == request[c] IN
              r.tool = "file_edit" /\ r.old = <<>> /\ c \in wrote' \ wrote =>
                 \/ "read" \in mishaps[c]
                 \/ seen[c] \cap {NoFile, <<>>} # {} /\ text[c] = r.new
                 \/ r.replace_all /\ \E t \in seen[c] \ {NoFile} :
                                        InEveryGap(t, r.new, text[c])
<1>1. ASSUME Inv, NEW d \in Call, Step(d), NEW c \in Call, c \in wrote' \ wrote
      PROVE  pc[c] = "write"
  BY <1>1 DEF Step, Begin, EditRead, EditReadFails, ParseRead, UploadDocument, StartJob, JobEnds,
     GetResult, Write, DeleteJob, DeleteDocument, CallFails, Crash, history
<1>2. ASSUME Inv, NEW c \in Call, pc[c] = "write", request[c].tool = "file_edit"
      PROVE  MayCreate(c)
  BY <1>2 DEF Inv, CallInv, SeenInv
<1>3. Inv /\ [Next]_vars => [Keeps]_vars
  BY <1>1, <1>2 DEF Next, MayCreate
<1>4. QED
  BY <1>3, Invariance, PTL DEF Spec, EmptyOldStringKeepsText

-----------------------------------------------------------------------------
(* The refinement of FileStore.                                            *)
phase == [c \in Call |-> Phase(c)]

PhasesOfCalls ==
    \A c \in Call :
        /\ pc[c] \in Ended => Phase(c) = pc[c]
        /\ pc[c] \notin Ended /\ c \in wrote => Phase(c) = "changed"
        /\ pc[c] \notin Ended /\ c \notin wrote => Phase(c) = "running"

LEMMA Phases == PhasesOfCalls /\ PhasesOfCalls'
<1>1. PhasesOfCalls
  BY DEF PhasesOfCalls, Phase, Ended
<1>2. QED
  BY <1>1, PTL

(* A step that leaves files and seen alone is invisible, or an end.        *)
LEMMA QuietStep ==
    ASSUME NEW c \in Call, UNCHANGED <<files, request, seen, wrote>>,
           \A d \in Call \ {c} : pc'[d] = pc[d],
           pc'[c] = pc[c] \/ (pc[c] \notin Ended /\ pc'[c] # "new")
    PROVE  Store!Next \/ UNCHANGED Store!vars
<1>1. \A d \in Call \ {c} : Phase(d)' = Phase(d)
  BY Phases DEF PhasesOfCalls
<1>2. CASE pc'[c] = "over" /\ pc[c] # "over"
  <2>1. Phase(c) \in {"running", "changed"} /\ Phase(c)' = "over"
    BY <1>2, Phases DEF PhasesOfCalls, Ended
  <2>2. phase' = [phase EXCEPT ![c] = "over"]
    BY <1>1, <2>1 DEF phase
  <2>3. Store!End(c)
    BY <2>1, <2>2 DEF Store!End, phase
  <2>4. QED
    BY <2>3 DEF Store!Next
<1>3. CASE pc'[c] = pc[c] \/ pc'[c] # "over"
  <2>1. Phase(c)' = Phase(c)
    BY <1>3, Phases DEF PhasesOfCalls, Ended
  <2>2. phase' = phase
    BY <1>1, <2>1 DEF phase
  <2>3. QED
    BY <2>2 DEF Store!vars, phase
<1>4. QED
  BY <1>2, <1>3

LEMMA BeginStep == ASSUME Inv, NEW c \in Call, Begin(c) PROVE Store!Next
<1>1. /\ pc[c] = "new" /\ pc'[c] \in {"read", "write"} /\ c \notin wrote /\ wrote' = wrote
      /\ \A d \in Call \ {c} : pc'[d] = pc[d]
      /\ seen' = [seen EXCEPT ![c] = {files[Source(request[c])]}]
      /\ UNCHANGED <<files, request>>
  BY DEF Begin, Goto, Inv, TypeOK, CallInv, OrderInv
<1>2. \A d \in Call \ {c} : Phase(d)' = Phase(d)
  BY <1>1, Phases DEF PhasesOfCalls
<1>3. Phase(c) = "new" /\ Phase(c)' = "running"
  BY <1>1, Phases DEF PhasesOfCalls, Ended
<1>4. phase' = [phase EXCEPT ![c] = "running"]
  BY <1>2, <1>3 DEF phase
<1>5. Store!Begin(c)
  BY <1>1, <1>3, <1>4 DEF Store!Begin, phase
<1>6. QED
  BY <1>5 DEF Store!Next

LEMMA WriteStep == ASSUME Inv, NEW c \in Call, Write(c) PROVE Store!Next
<1> DEFINE p == Target(request[c])
           new == text[c]
<1>1. /\ pc[c] = "write" /\ pc'[c] \in {"over", "delete_job"} /\ c \notin wrote
      /\ wrote' = wrote \cup {c}
      /\ \A d \in Call \ {c} : pc'[d] = pc[d]
      /\ files' = [files EXCEPT ![p] = new]
      /\ seen' = [d \in Call |-> IF pc[d] \notin {"new", "over"} /\ Source(request[d]) = p
                                 THEN seen[d] \cup {new} ELSE seen[d]]
      /\ request' = request
  BY DEF Write, Answer, Goto, Inv, TypeOK, CallInv, OrderInv
<1>2. \E old \in seen[c] : new \in Outcomes(request[c], old)
  BY <1>1 DEF Inv, CallInv, SeenInv
<1>3. \A d \in Call \ {c} : Phase(d)' = Phase(d)
  BY <1>1, Phases DEF PhasesOfCalls
<1>4. Phase(c) = "running" /\ Phase(c)' \in {"changed", "over"}
  BY <1>1, Phases DEF PhasesOfCalls, Ended
<1>5. \E q \in {"changed", "over"} : phase' = [phase EXCEPT ![c] = q]
  BY <1>3, <1>4 DEF phase
<1>6. \A d \in Call : pc[d] \notin {"new", "over"} <=> phase[d] \in {"running", "changed"}
  BY Phases DEF PhasesOfCalls, Ended, phase
<1>7. seen' = [d \in Call |->
         IF phase[d] \in {"running", "changed"} /\ Source(request[d]) = p
         THEN seen[d] \cup {new} ELSE seen[d]]
  BY <1>1, <1>6
<1>8. phase[c] = "running"
  BY <1>4 DEF phase
<1>9. Store!Change(c)
  BY <1>1, <1>2, <1>5, <1>7, <1>8 DEF Store!Change, phase
<1>10. QED
  BY <1>9 DEF Store!Next

LEMMA StoreStep == Inv /\ [Next]_vars => [Store!Next]_(Store!vars)
<1> SUFFICES ASSUME Inv, [Next]_vars PROVE Store!Next \/ UNCHANGED Store!vars
  OBVIOUS
<1>1. CASE UNCHANGED vars
  BY <1>1 DEF vars, Store!vars, Phase
<1>2. ASSUME NEW c \in Call, Step(c) PROVE Store!Next \/ UNCHANGED Store!vars
  <2>1. CASE Begin(c)
    BY <2>1, BeginStep
  <2>2. CASE Write(c)
    BY <2>2, WriteStep
  <2>3. CASE JobEnds(c)
    BY <2>3, QuietStep DEF JobEnds, history
  <2>4. CASE \/ EditRead(c) \/ EditReadFails(c) \/ ParseRead(c) \/ UploadDocument(c)
             \/ StartJob(c) \/ GetResult(c) \/ DeleteJob(c) \/ DeleteDocument(c)
             \/ CallFails(c) \/ Crash(c)
    <3>1. /\ UNCHANGED <<files, request, seen, wrote>>
          /\ pc[c] \notin Ended
          /\ \E label \in Label \ {"new"} : Goto(c, label)
      BY <2>4 DEF EditRead, EditReadFails, ParseRead, UploadDocument, StartJob, GetResult,
         DeleteJob, DeleteDocument, CallFails, Crash, Answer, history, Ended, Label
    <3>2. pc'[c] # "new" /\ \A d \in Call \ {c} : pc'[d] = pc[d]
      BY <3>1 DEF Goto, Inv, TypeOK
    <3>3. QED
      BY <3>1, <3>2, QuietStep
  <2>5. QED
    BY <1>2, <2>1, <2>2, <2>3, <2>4 DEF Step
<1>3. QED
  BY <1>1, <1>2 DEF Next

LEMMA StoreInit == Init => Store!Init
<1> SUFFICES ASSUME Init PROVE Store!Init
  OBVIOUS
<1>1. \A c \in Call : Phase(c) = "new"
  BY Phases DEF PhasesOfCalls, Init, Ended
<1>2. QED
  BY <1>1 DEF Init, Store!Init

(* The tools that change files implement FileStore: every call writes at   *)
(* most once, while it runs, what its request makes of a content that its  *)
(* source had since the call began.                                        *)
THEOREM ImplementsFileStore == Spec => KeepsFileStorePromise
  BY StoreInit, StoreStep, Invariance, PTL DEF Spec, KeepsFileStorePromise, Store!Spec
=============================================================================
