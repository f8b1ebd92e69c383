------------------------------ MODULE ListLemmas -----------------------------
(***************************************************************************)
(* What the operations of std::list, as the code uses them, do to the      *)
(* elements of a list: push_back, front and pop_front, erase.              *)
(***************************************************************************)
EXTENDS Lists, Integers, SequenceTheorems, TLAPS

\* push_back, as the two lists of connections use it.
LEMMA AppendNew ==
  ASSUME NEW S, NEW s \in Seq(S), NEW e \in S
  PROVE  /\ Append(s, e) \in Seq(S) /\ Len(Append(s, e)) = Len(s) + 1
         /\ Elems(Append(s, e)) = Elems(s) \cup {e}
         /\ NoRepeats(s) /\ e \notin Elems(s) => NoRepeats(Append(s, e))
<1>1. /\ Append(s, e) \in Seq(S)
      /\ Len(Append(s, e)) = Len(s) + 1 /\ Len(s) \in Nat
      /\ \A i \in 1..Len(s) : Append(s, e)[i] = s[i]
      /\ Append(s, e)[Len(s) + 1] = e
  BY AppendProperties, LenProperties
<1>2. Elems(Append(s, e)) \subseteq Elems(s) \cup {e}
  BY <1>1 DEF Elems
<1>3. Elems(s) \cup {e} \subseteq Elems(Append(s, e))
  BY <1>1 DEF Elems
<1>4. ASSUME NoRepeats(s), e \notin Elems(s)  PROVE NoRepeats(Append(s, e))
  BY <1>1, <1>4 DEF Elems, NoRepeats
<1> QED  BY <1>1, <1>2, <1>3, <1>4

\* begin and pop_front, by which NgxGetConnection takes a connection.
LEMMA TailOf ==
  ASSUME NEW S, NEW s \in Seq(S), s # <<>>
  PROVE  /\ Tail(s) \in Seq(S) /\ Len(s) \in Nat \ {0}
         /\ Len(Tail(s)) = Len(s) - 1 /\ Head(s) \in Elems(s)
         /\ NoRepeats(s) => /\ Elems(Tail(s)) = Elems(s) \ {Head(s)}
                            /\ NoRepeats(Tail(s))
<1>1. /\ Tail(s) \in Seq(S) /\ Len(s) \in Nat \ {0} /\ Head(s) = s[1]
      /\ Len(Tail(s)) = Len(s) - 1
      /\ \A i \in 1..Len(Tail(s)) : Tail(s)[i] = s[i + 1]
  BY HeadTailProperties, EmptySeq, LenProperties
<1>2. Head(s) \in Elems(s)
  BY <1>1 DEF Elems
<1>3. ASSUME NoRepeats(s)
      PROVE  Elems(Tail(s)) = Elems(s) \ {Head(s)} /\ NoRepeats(Tail(s))
  <2>1. Elems(Tail(s)) \subseteq Elems(s) \ {Head(s)}
    BY <1>1, <1>3 DEF Elems, NoRepeats
  <2>2. ASSUME NEW i \in 1..Len(s), s[i] # Head(s)  PROVE s[i] \in Elems(Tail(s))
    <3>1. i - 1 \in 1..Len(Tail(s)) /\ Tail(s)[i - 1] = s[i]
      BY <1>1, <2>2
    <3> QED  BY <3>1 DEF Elems
  <2>3. Elems(s) \ {Head(s)} \subseteq Elems(Tail(s))
    BY <2>2 DEF Elems
  <2>4. NoRepeats(Tail(s))
    BY <1>1, <1>3 DEF NoRepeats
  <2> QED  BY <2>1, <2>3, <2>4
<1> QED  BY <1>1, <1>2, <1>3

\* erase, by which the recycling thread takes one out of the middle.
LEMMA Shifted ==
  ASSUME NEW S, NEW s \in Seq(S), NEW i \in 1..Len(s), NEW t \in Seq(S),
         Len(t) = Len(s) - 1,
         \A j \in 1..Len(t) : t[j] = IF j < i THEN s[j] ELSE s[j + 1],
         NoRepeats(s)
  PROVE  Elems(t) = Elems(s) \ {s[i]} /\ NoRepeats(t)
<1>1. Len(s) \in Nat /\ i \in Nat /\ 1 <= i /\ i <= Len(s)
  BY LenProperties
<1>2. Elems(t) \subseteq Elems(s) \ {s[i]}
  <2> SUFFICES ASSUME NEW j \in 1..Len(t)  PROVE t[j] \in Elems(s) \ {s[i]}
    BY DEF Elems
  <2>1. CASE j < i
    BY <2>1, <1>1 DEF Elems, NoRepeats
  <2>2. CASE j >= i
    <3>1. j + 1 \in 1..Len(s) /\ t[j] = s[j + 1] /\ j + 1 # i
      BY <2>2, <1>1
    <3> QED  BY <3>1 DEF Elems, NoRepeats
  <2> QED  BY <2>1, <2>2, <1>1
<1>3. ASSUME NEW j \in 1..Len(s), s[j] # s[i]  PROVE s[j] \in Elems(t)
  <2>1. CASE j < i
    <3>1. j \in 1..Len(t) /\ t[j] = s[j]
      BY <2>1, <1>1
    <3> QED  BY <3>1 DEF Elems
  <2>2. CASE j > i
    <3>1. j - 1 \in 1..Len(t) /\ t[j - 1] = s[j - 1 + 1]
      BY <2>2, <1>1
    <3>2. t[j - 1] = s[j]
      BY <3>1, <1>1
    <3> QED  BY <3>1, <3>2 DEF Elems
  <2> QED  BY <2>1, <2>2, <1>1, <1>3
<1>4. Elems(s) \ {s[i]} \subseteq Elems(t)
  BY <1>3 DEF Elems
<1>5. NoRepeats(t)
  BY <1>1 DEF NoRepeats
<1> QED  BY <1>2, <1>4, <1>5

LEMMA Erased ==
  ASSUME NEW S, NEW s \in Seq(S), NEW i \in 1..Len(s)
  PROVE  LET t == SubSeq(s, 1, i - 1) \o SubSeq(s, i + 1, Len(s))
         IN  /\ t \in Seq(S) /\ Len(s) \in Nat /\ Len(t) = Len(s) - 1
             /\ NoRepeats(s) => Elems(t) = Elems(s) \ {s[i]} /\ NoRepeats(t)
<1> DEFINE u == SubSeq(s, 1, i - 1)
           v == SubSeq(s, i + 1, Len(s))
           t == u \o v
<1>1. Len(s) \in Nat /\ \A j \in 1..Len(s) : s[j] \in S
  BY LenProperties, ElementOfSeq
<1>2. /\ u \in Seq(S) /\ Len(u) = i - 1
      /\ \A j \in 1..(i - 1) : u[j] = s[j]
  <2>1. \A j \in 1..(i - 1) : s[j] \in S
    BY <1>1
  <2>2. /\ u \in Seq(S) /\ Len(u) = IF 1 <= i - 1 THEN i - 1 - 1 + 1 ELSE 0
        /\ \A j \in 1..(i - 1 - 1 + 1) : u[j] = s[1 + j - 1]
    BY <1>1, <2>1, SubSeqProperties
  <2> QED  BY <2>2, <1>1
<1>3. /\ v \in Seq(S) /\ Len(v) = Len(s) - i
      /\ \A j \in 1..(Len(s) - i) : v[j] = s[i + j]
  <2>1. \A j \in (i + 1)..Len(s) : s[j] \in S
    BY <1>1
  <2>2. /\ v \in Seq(S)
        /\ Len(v) = IF i + 1 <= Len(s) THEN Len(s) - (i + 1) + 1 ELSE 0
        /\ \A j \in 1..(Len(s) - (i + 1) + 1) : v[j] = s[i + 1 + j - 1]
    BY <1>1, <2>1, SubSeqProperties
  <2> QED  BY <2>2, <1>1
<1> HIDE DEF u, v
<1>4. /\ t \in Seq(S) /\ Len(t) = Len(u) + Len(v)
      /\ \A j \in 1..(Len(u) + Len(v)) :
           t[j] = IF j <= Len(u) THEN u[j] ELSE v[j - Len(u)]
  BY <1>2, <1>3, ConcatProperties
<1> HIDE DEF t
<1>5. Len(t) = Len(s) - 1
  BY <1>1, <1>2, <1>3, <1>4
<1>6. ASSUME NEW j \in 1..Len(t)
      PROVE  t[j] = IF j < i THEN s[j] ELSE s[j + 1]
  <2>1. CASE j < i
    BY <2>1, <1>1, <1>2, <1>3, <1>4
  <2>2. CASE j >= i
    <3>1. t[j] = v[j - (i - 1)] /\ j - (i - 1) \in 1..(Len(s) - i)
      BY <2>2, <1>1, <1>2, <1>3, <1>4
    <3>2. i + (j - (i - 1)) = j + 1
      BY <1>1, <1>5
    <3> QED  BY <2>2, <3>1, <3>2, <1>1, <1>3, <1>5
  <2> QED  BY <2>1, <2>2, <1>1, <1>5
<1>7. NoRepeats(s) => Elems(t) = Elems(s) \ {s[i]} /\ NoRepeats(t)
  BY <1>4, <1>5, <1>6, Shifted
<1> QED  BY <1>1, <1>4, <1>5, <1>7 DEF t, u, v

\* What front and pop_front, as ThreadFunc uses them, take from a sequence.
LEMMA ElemsHeadTail ==
  ASSUME NEW S, NEW s \in Seq(S), s # <<>>
  PROVE  Elems(s) = {Head(s)} \cup Elems(Tail(s))
<1>1. /\ Len(s) \in Nat \ {0} /\ Head(s) = s[1]
      /\ Len(Tail(s)) = Len(s) - 1
      /\ \A i \in 1..Len(Tail(s)) : Tail(s)[i] = s[i + 1]
  BY HeadTailProperties, EmptySeq, LenProperties
<1>2. Elems(s) \subseteq {Head(s)} \cup Elems(Tail(s))
  <2> SUFFICES ASSUME NEW i \in 1..Len(s), s[i] # Head(s)
               PROVE  s[i] \in Elems(Tail(s))
    BY DEF Elems
  <2>1. i - 1 \in 1..Len(Tail(s)) /\ Tail(s)[i - 1] = s[i]
    BY <1>1
  <2> QED  BY <2>1 DEF Elems
<1>3. {Head(s)} \cup Elems(Tail(s)) \subseteq Elems(s)
  BY <1>1 DEF Elems
<1> QED  BY <1>2, <1>3

LEMMA ElemsConcat ==
  ASSUME NEW S, NEW s \in Seq(S), NEW t \in Seq(S)
  PROVE  Elems(s \o t) = Elems(s) \cup Elems(t)
<1>1. /\ Len(s \o t) = Len(s) + Len(t) /\ Len(s) \in Nat /\ Len(t) \in Nat
      /\ \A i \in 1..Len(s) + Len(t) :
           (s \o t)[i] = IF i <= Len(s) THEN s[i] ELSE t[i - Len(s)]
  BY ConcatProperties, LenProperties
<1>2. Elems(s \o t) \subseteq Elems(s) \cup Elems(t)
  BY <1>1 DEF Elems
<1>3. ASSUME NEW i \in 1..Len(t)  PROVE t[i] \in Elems(s \o t)
  <2>1. Len(s) + i \in 1..Len(s \o t) /\ (s \o t)[Len(s) + i] = t[i]
    BY <1>1
  <2> QED  BY <2>1 DEF Elems
<1>4. Elems(s) \subseteq Elems(s \o t)
  BY <1>1 DEF Elems
<1> QED  BY <1>2, <1>3, <1>4 DEF Elems

\* Moving the head of the queue to the end of what was taken keeps the whole.
LEMMA MoveHead ==
  ASSUME NEW S, NEW s \in Seq(S), NEW t \in Seq(S), t # <<>>
  PROVE  /\ s \o t = Append(s, Head(t)) \o Tail(t)
         /\ NoRepeats(s \o t) => Head(t) \notin Elems(s)
<1> DEFINE h == Head(t)
           u == Tail(t)
<1>1. /\ h \in S /\ u \in Seq(S) /\ Len(u) = Len(t) - 1 /\ h = t[1]
      /\ Len(s) \in Nat /\ Len(t) \in Nat \ {0} /\ Len(u) \in Nat
      /\ \A i \in 1..Len(u) : u[i] = t[i + 1]
  BY HeadTailProperties, EmptySeq, LenProperties
<1>2. /\ Append(s, h) \in Seq(S) /\ Len(Append(s, h)) = Len(s) + 1
      /\ \A i \in 1..Len(s) : Append(s, h)[i] = s[i]
      /\ Append(s, h)[Len(s) + 1] = h
  BY <1>1, AppendProperties
<1>3. /\ s \o t \in Seq(S) /\ Len(s \o t) = Len(s) + Len(t)
      /\ \A i \in 1..Len(s) + Len(t) :
           (s \o t)[i] = IF i <= Len(s) THEN s[i] ELSE t[i - Len(s)]
  BY ConcatProperties
<1>4. s \o t = Append(s, h) \o u
  <2>1. /\ Append(s, h) \o u \in Seq(S)
        /\ Len(Append(s, h) \o u) = Len(s) + 1 + Len(u)
        /\ \A i \in 1..Len(s) + 1 + Len(u) :
             (Append(s, h) \o u)[i] =
               IF i <= Len(s) + 1 THEN Append(s, h)[i] ELSE u[i - (Len(s) + 1)]
    BY <1>1, <1>2, ConcatProperties
  <2>2. Len(s \o t) = Len(Append(s, h) \o u)
    BY <1>1, <1>3, <2>1
  <2>3. ASSUME NEW i \in 1..Len(s \o t)
        PROVE  (s \o t)[i] = (Append(s, h) \o u)[i]
    <3>1. CASE i <= Len(s)
      BY <3>1, <1>1, <1>2, <1>3, <2>1
    <3>2. CASE i = Len(s) + 1
      BY <3>2, <1>1, <1>2, <1>3, <2>1
    <3>3. CASE i > Len(s) + 1
      <4>1. i - (Len(s) + 1) \in 1..Len(u)
        BY <3>3, <1>1, <1>3
      <4>2. u[i - (Len(s) + 1)] = t[i - Len(s)]
        BY <4>1, <1>1
      <4> QED  BY <4>2, <3>3, <1>1, <1>3, <2>1
    <3> QED  BY <3>1, <3>2, <3>3, <1>1, <1>3
  <2> QED  BY <2>1, <2>2, <2>3, <1>3, SeqEqual
<1>5. ASSUME NoRepeats(s \o t), h \in Elems(s)  PROVE FALSE
  <2>1. PICK i \in 1..Len(s) : s[i] = h
    BY <1>5 DEF Elems
  <2>2. /\ (s \o t)[i] = h /\ (s \o t)[Len(s) + 1] = h
        /\ i \in 1..Len(s \o t) /\ Len(s) + 1 \in 1..Len(s \o t)
    BY <2>1, <1>1, <1>3
  <2>3. i = Len(s) + 1
    BY <2>2, <1>5 DEF NoRepeats
  <2> QED  BY <2>3, <1>1
<1> QED  BY <1>4, <1>5

===============================================================================
