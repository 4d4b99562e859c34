------------------------- MODULE AgentSessionProofs -------------------------
(***************************************************************************)
(* Theorems of AgentSession, for any prompts, messages and numbers of      *)
(* retries, calls and messages.  TypeCorrect holds however the calls of    *)
(* the host overlap; the others are about prompts that wait for each       *)
(* other, the discipline ~Overlap names.                                   *)
(*                                                                         *)
(* IInv: at most one prompt is at work, and a run belongs to one that      *)
(*   waits for it.  IdleMeansIdle is not inductive without.                *)
(* DInv: the types, with what they need: the branch is in the order in     *)
(*   which messages were said, every compaction keeps what is on it, a     *)
(*   batch of tools has its calls.                                         *)
(* AInv: both, and a manual compaction works on a session that is idle.    *)
(* RInv: results follow their calls in the file and in the context, and    *)
(*   while a batch of tools works the message with its calls is the last   *)
(*   of both.                                                              *)
(* CInv: the last reply is the last message of its run, so that taking a   *)
(*   failed one out of the context takes out the last, which a reload      *)
(*   leaves out too.                                                       *)
(* LInv: what waits when nobody will look any more is late.  That somebody *)
(*   looks before needs that the context does not begin with a reply, is   *)
(*   not empty behind a run, and that the reply of a run is remembered.    *)
(* QInv: what the host sees is what waits, or that and the message on its  *)
(*   way into the context, which waits nowhere else.                       *)
(*                                                                         *)
(* Selected and Max are folds and choices: the lemmas of the first part    *)
(* say what they do with <<>>, Append and \o, each by induction on a set   *)
(* of sequences or numbers.                                                *)
(***************************************************************************)
EXTENDS AgentSession, SequenceTheorems, WellFoundedInduction, TLAPS

-----------------------------------------------------------------------------
(* Sequences.                                                               *)

LEMMA Least ==
  ASSUME NEW T \in SUBSET Nat, T # {}
  PROVE  \E n \in T : \A k \in T : n <= k
<1> DEFINE R == OpToRel(<, Nat)
<1>1. IsWellFoundedOn(R, Nat)
  BY NatLessThanWellFounded
<1>2. \A a, b \in Nat : a < b => <<a, b>> \in R
  BY DEF OpToRel
<1> HIDE DEF R
<1>3. PICK x \in T : \A y \in T : ~ (<<y, x>> \in R)
  BY <1>1, WFMin
<1>4. ASSUME NEW k \in T, ~ (x <= k) PROVE FALSE
  <2>1. k \in Nat /\ x \in Nat
    OBVIOUS
  <2>2. k < x
    BY <1>4, <2>1
  <2> QED
    BY <1>2, <1>3, <2>1, <2>2
<1> QED
  BY <1>4

LEMMA Below ==
  ASSUME NEW S \in SUBSET Nat, 0 \in S, \A n \in S : n + 1 \in S
  PROVE  \A n \in Nat : n \in S
<1> SUFFICES ASSUME Nat \ S # {} PROVE FALSE
  OBVIOUS
<1>1. PICK n \in Nat \ S : \A k \in Nat \ S : n <= k
  BY Least
<1>2. n # 0 /\ n - 1 \in Nat /\ n - 1 \in S
  BY <1>1
<1> QED BY <1>1, <1>2

\* Induction over sequences, for a set of them.
LEMMA SequencesBelow ==
  ASSUME NEW S, NEW Q, Q \subseteq Seq(S), <<>> \in Q,
         \A s \in Q, e \in S : Append(s, e) \in Q
  PROVE  Seq(S) \subseteq Q
<1> DEFINE N == {n \in Nat : \A s \in Seq(S) : Len(s) = n => s \in Q}
<1>1. 0 \in N
  OBVIOUS
<1>2. ASSUME NEW n \in N PROVE n + 1 \in N
  <2>1. ASSUME NEW s \in Seq(S), Len(s) = n + 1 PROVE s \in Q
    <3>1. s # <<>> /\ n \in Nat
      BY <2>1
    <3>2. PICK t \in Seq(S), e \in S : s = Append(t, e)
      BY <3>1, SequenceEmptyOrAppend
    <3>3. Len(t) = n
      BY <2>1, <3>1, <3>2
    <3> QED
      BY <3>2, <3>3
  <2> QED
    BY <2>1
<1>3. N \in SUBSET Nat
  OBVIOUS
<1> HIDE DEF N
<1>4. \A n \in Nat : n \in N
  BY <1>1, <1>2, <1>3, Below
<1>5. \A n \in Nat : \A s \in Seq(S) : Len(s) = n => s \in Q
  BY <1>4 DEF N
<1>6. \A s \in Seq(S) : Len(s) \in Nat
  OBVIOUS
<1> QED
  BY <1>5, <1>6

\* The selections of the beginnings of s.
Selects(g, s, T) ==
    /\ g[0] = <<>>
    /\ \A n \in 1 .. Len(s) : g[n] = IF s[n] \in T THEN Append(g[n - 1], s[n]) ELSE g[n - 1]

LEMMA SelectsExist ==
  ASSUME NEW S, NEW T
  PROVE  \A s \in Seq(S) : \E g \in [0 .. Len(s) -> Seq(S)] : Selects(g, s, T)
<1> DEFINE Q == {s \in Seq(S) : \E g \in [0 .. Len(s) -> Seq(S)] : Selects(g, s, T)}
<1>1. <<>> \in Q
  <2> DEFINE g == [n \in 0 .. 0 |-> <<>>]
  <2>1. g \in [0 .. 0 -> Seq(S)] /\ Selects(g, <<>>, T)
    BY DEF Selects
  <2> QED
    BY <2>1
<1>2. ASSUME NEW s \in Q, NEW e \in S PROVE Append(s, e) \in Q
  <2>1. PICK g \in [0 .. Len(s) -> Seq(S)] : Selects(g, s, T)
    OBVIOUS
  <2> DEFINE last == IF e \in T THEN Append(g[Len(s)], e) ELSE g[Len(s)]
             h == [n \in 0 .. Len(s) + 1 |-> IF n = Len(s) + 1 THEN last ELSE g[n]]
  <2>2. /\ Append(s, e) \in Seq(S) /\ Len(Append(s, e)) = Len(s) + 1 /\ Len(s) \in Nat
        /\ \A n \in 1 .. Len(s) : Append(s, e)[n] = s[n]
        /\ Append(s, e)[Len(s) + 1] = e
    OBVIOUS
  <2>3. last \in Seq(S)
    BY <2>2
  <2> HIDE DEF last
  <2>4. h \in [0 .. Len(s) + 1 -> Seq(S)]
    BY <2>2, <2>3
  <2>5. h[0] = <<>>
    BY <2>1, <2>2 DEF Selects
  <2>6. \A n \in 1 .. Len(s) : h[n] = g[n] /\ h[n - 1] = g[n - 1]
    BY <2>2
  <2>7. h[Len(s) + 1] = last /\ h[Len(s)] = g[Len(s)]
    BY <2>2
  <2> HIDE DEF h
  <2>8. ASSUME NEW n \in 1 .. Len(s) + 1
        PROVE  h[n] = IF Append(s, e)[n] \in T THEN Append(h[n - 1], Append(s, e)[n]) ELSE h[n - 1]
    <3>1. CASE n \in 1 .. Len(s)
      BY <2>1, <2>2, <2>6, <3>1 DEF Selects
    <3>2. CASE n = Len(s) + 1
      BY <2>2, <2>7, <3>2 DEF last
    <3> QED
      BY <2>2, <3>1, <3>2
  <2>9. Selects(h, Append(s, e), T)
    BY <2>2, <2>5, <2>8 DEF Selects
  <2> QED
    BY <2>2, <2>4, <2>9
<1>3. Q \subseteq Seq(S)
  OBVIOUS
<1> HIDE DEF Q
<1>4. Seq(S) \subseteq Q
  BY <1>1, <1>2, <1>3, SequencesBelow
<1> QED
  BY <1>4 DEF Q

\* There is only one, and it is the same for a longer sequence.
LEMMA SelectsAgree ==
  ASSUME NEW S, NEW s \in Seq(S), NEW t \in Seq(S), NEW T, NEW g, NEW h,
         Selects(g, s, T), Selects(h, t, T),
         NEW m \in Nat, m <= Len(s), m <= Len(t), \A n \in 1 .. m : s[n] = t[n]
  PROVE  g[m] = h[m]
<1> DEFINE N == {n \in Nat : n <= m => g[n] = h[n]}
<1>1. 0 \in N
  BY DEF Selects
<1>2. ASSUME NEW n \in N PROVE n + 1 \in N
  <2>1. ASSUME n + 1 <= m PROVE g[n + 1] = h[n + 1]
    <3>1. /\ n + 1 \in 1 .. Len(s) /\ n + 1 \in 1 .. Len(t) /\ n + 1 \in 1 .. m
          /\ (n + 1) - 1 = n /\ n <= m
      BY <2>1
    <3>2. s[n + 1] = t[n + 1] /\ g[n] = h[n]
      BY <3>1
    <3> QED
      BY <3>1, <3>2 DEF Selects
  <2> QED
    BY <2>1
<1>3. N \in SUBSET Nat
  OBVIOUS
<1> HIDE DEF N
<1>4. m \in N
  BY <1>1, <1>2, <1>3, Below
<1> QED
  BY <1>4 DEF N

LEMMA SelectedIs ==
  ASSUME NEW S, NEW s \in Seq(S), NEW T
  PROVE  \E g \in [0 .. Len(s) -> Seq(S)] : Selects(g, s, T) /\ Selected(s, T) = g[Len(s)]
<1> DEFINE Body(g) == [n \in 0 .. Len(s) |->
              IF n = 0 THEN <<>>
              ELSE IF s[n] \in T THEN Append(g[n - 1], s[n]) ELSE g[n - 1]]
           upTo == CHOOSE g : g = Body(g)
<1>1. Selected(s, T) = upTo[Len(s)]
  BY DEF Selected
<1>2. PICK g \in [0 .. Len(s) -> Seq(S)] : Selects(g, s, T)
  BY SelectsExist
<1>3. g = Body(g)
  <2>1. Len(s) \in Nat /\ \A n \in 0 .. Len(s) : n = 0 \/ n \in 1 .. Len(s)
    OBVIOUS
  <2>2. \A n \in 0 .. Len(s) :
            g[n] = IF n = 0 THEN <<>>
                   ELSE IF s[n] \in T THEN Append(g[n - 1], s[n]) ELSE g[n - 1]
    BY <1>2, <2>1 DEF Selects
  <2> QED
    BY <2>2
<1>4. upTo = Body(upTo)
  <2> HIDE DEF Body
  <2> QED
    BY <1>3
<1>5. Selects(upTo, s, T)
  <2>1. \A n \in 0 .. Len(s) : upTo[n] = Body(upTo)[n]
    BY <1>4
  <2> HIDE DEF upTo
  <2>2. Len(s) \in Nat /\ \A n \in 1 .. Len(s) : n # 0 /\ n \in 0 .. Len(s)
    OBVIOUS
  <2>3. upTo[0] = <<>>
    BY <2>1, <2>2
  <2>4. ASSUME NEW n \in 1 .. Len(s)
        PROVE  upTo[n] = IF s[n] \in T THEN Append(upTo[n - 1], s[n]) ELSE upTo[n - 1]
    BY <2>1, <2>2
  <2> QED
    BY <2>3, <2>4 DEF Selects
<1>6. upTo[Len(s)] = g[Len(s)]
  <2> HIDE DEF upTo
  <2> QED
    BY <1>2, <1>5, SelectsAgree
<1> QED
  BY <1>1, <1>2, <1>6

LEMMA SelectedTypes ==
  ASSUME NEW S, NEW s \in Seq(S), NEW T
  PROVE  Selected(s, T) \in Seq(S)
BY SelectedIs

LEMMA SelectedEmpty == ASSUME NEW T PROVE Selected(<<>>, T) = <<>>
<1>1. <<>> \in Seq({}) /\ Len(<<>>) = 0
  OBVIOUS
<1>2. PICK g \in [0 .. Len(<<>>) -> Seq({})] :
        Selects(g, <<>>, T) /\ Selected(<<>>, T) = g[Len(<<>>)]
  BY <1>1, SelectedIs
<1> QED
  BY <1>1, <1>2 DEF Selects

LEMMA SelectedAppend ==
  ASSUME NEW S, NEW s \in Seq(S), NEW e \in S, NEW T
  PROVE  Selected(Append(s, e), T) =
            IF e \in T THEN Append(Selected(s, T), e) ELSE Selected(s, T)
<1> DEFINE t == Append(s, e)
<1>1. /\ t \in Seq(S) /\ Len(t) = Len(s) + 1 /\ Len(s) \in Nat
      /\ \A n \in 1 .. Len(s) : t[n] = s[n]
      /\ t[Len(s) + 1] = e
  OBVIOUS
<1> HIDE DEF t
<1>2. PICK g \in [0 .. Len(s) -> Seq(S)] : Selects(g, s, T) /\ Selected(s, T) = g[Len(s)]
  BY SelectedIs
<1>3. PICK h \in [0 .. Len(t) -> Seq(S)] : Selects(h, t, T) /\ Selected(t, T) = h[Len(t)]
  BY <1>1, SelectedIs
<1>4. g[Len(s)] = h[Len(s)]
  <2> DEFINE m == Len(s)
  <2>1. m \in Nat /\ m <= Len(s) /\ m <= Len(t)
    BY <1>1
  <2>2. \A n \in 1 .. m : s[n] = t[n]
    BY <1>1
  <2>3. Selects(g, s, T) /\ Selects(h, t, T) /\ t \in Seq(S)
    BY <1>1, <1>2, <1>3
  <2> HIDE DEF m
  <2>4. g[m] = h[m]
    BY <2>1, <2>2, <2>3, SelectsAgree
  <2> QED
    BY <2>4 DEF m
<1>5. h[Len(s) + 1] = IF e \in T THEN Append(h[Len(s)], e) ELSE h[Len(s)]
  <2>1. Len(s) + 1 \in 1 .. Len(t) /\ (Len(s) + 1) - 1 = Len(s)
    BY <1>1
  <2> QED
    BY <1>1, <1>3, <2>1 DEF Selects
<1> QED
  BY <1>1, <1>2, <1>3, <1>4, <1>5 DEF t

LEMMA MaxIs ==
  ASSUME NEW S \in SUBSET Nat, S # {}, NEW b \in Nat, \A x \in S : x <= b
  PROVE  Max(S) \in S /\ \A x \in S : x <= Max(S)
<1> DEFINE T == {n \in Nat : \A x \in S : x <= n}
<1>1. PICK n \in T : \A k \in T : n <= k
  BY Least
<1>2. n \in S
  <2>1. SUFFICES ASSUME n \notin S PROVE FALSE
    OBVIOUS
  <2>2. \A x \in S : x \in Nat /\ x <= n /\ x # n
    BY <1>1, <2>1
  <2>3. n \in Nat
    BY <1>1
  <2>4. PICK x \in S : x \in Nat /\ x <= n /\ x # n
    BY <2>2
  <2>5. n # 0 /\ n - 1 \in Nat
    BY <2>3, <2>4
  <2>6. \A y \in S : y <= n - 1
    BY <2>2, <2>3
  <2>7. n - 1 \in T
    BY <2>5, <2>6
  <2> QED
    BY <1>1, <2>3, <2>7
<1>3. \E x \in S : \A y \in S : x >= y
  BY <1>1, <1>2
<1> QED
  BY <1>3 DEF Max

LEMMA MaxOf ==
  ASSUME NEW S \in SUBSET Nat, NEW n \in S, \A x \in S : x <= n
  PROVE  Max(S) = n
<1>1. \E x \in S : \A y \in S : x >= y
  OBVIOUS
<1>2. Max(S) \in S /\ \A y \in S : Max(S) >= y
  BY <1>1 DEF Max
<1>3. Max(S) \in Nat /\ n \in Nat /\ Max(S) >= n /\ Max(S) <= n
  BY <1>2
<1> QED
  BY <1>3

LEMMA MinIs ==
  ASSUME NEW S \in SUBSET Nat, S # {}
  PROVE  Min(S) \in S /\ \A x \in S : Min(S) <= x
BY Least DEF Min

LEMMA ToSetIs ==
  ASSUME NEW S, NEW s \in Seq(S)
  PROVE  ToSet(s) = {s[i] : i \in 1 .. Len(s)} /\ ToSet(s) \subseteq S
BY DEF ToSet

LEMMA ToSetAppend ==
  ASSUME NEW S, NEW s \in Seq(S), NEW e \in S
  PROVE  ToSet(Append(s, e)) = ToSet(s) \cup {e}
<1>1. /\ Append(s, e) \in Seq(S) /\ Len(Append(s, e)) = Len(s) + 1 /\ Len(s) \in Nat
      /\ \A i \in 1 .. Len(s) : Append(s, e)[i] = s[i]
      /\ Append(s, e)[Len(s) + 1] = e
  OBVIOUS
<1>2. /\ ToSet(Append(s, e)) = {Append(s, e)[i] : i \in 1 .. Len(s) + 1}
      /\ ToSet(s) = {s[i] : i \in 1 .. Len(s)}
  BY <1>1, ToSetIs
<1>3. 1 .. Len(s) + 1 = (1 .. Len(s)) \cup {Len(s) + 1}
  BY <1>1
<1> QED
  BY <1>1, <1>2, <1>3

LEMMA SelectedConcat ==
  ASSUME NEW S, NEW s \in Seq(S), NEW t \in Seq(S), NEW T
  PROVE  Selected(s \o t, T) = Selected(s, T) \o Selected(t, T)
<1> DEFINE Q == {u \in Seq(S) : Selected(s \o u, T) = Selected(s, T) \o Selected(u, T)}
<1>1. <<>> \in Q
  <2>1. s \o <<>> = s /\ Selected(s, T) \in Seq(S) /\ Selected(<<>>, T) = <<>>
    BY SelectedTypes, SelectedEmpty
  <2> QED
    BY <2>1
<1>2. ASSUME NEW u \in Q, NEW e \in S PROVE Append(u, e) \in Q
  <2>1. s \o u \in Seq(S) /\ s \o Append(u, e) = Append(s \o u, e) /\ Append(u, e) \in Seq(S)
    OBVIOUS
  <2>2. Selected(s, T) \in Seq(S) /\ Selected(u, T) \in Seq(S)
    BY SelectedTypes
  <2>3. Selected(s \o Append(u, e), T) =
          IF e \in T THEN Append(Selected(s, T) \o Selected(u, T), e)
          ELSE Selected(s, T) \o Selected(u, T)
    <3>1. \A w \in Seq(S) : Selected(Append(w, e), T) =
            IF e \in T THEN Append(Selected(w, T), e) ELSE Selected(w, T)
      BY SelectedAppend
    <3>2. Selected(s \o u, T) = Selected(s, T) \o Selected(u, T)
      BY <1>2
    <3> QED
      BY <2>1, <3>1, <3>2
  <2>4. Selected(Append(u, e), T) = IF e \in T THEN Append(Selected(u, T), e) ELSE Selected(u, T)
    BY SelectedAppend
  <2>5. Append(Selected(s, T) \o Selected(u, T), e) = Selected(s, T) \o Append(Selected(u, T), e)
    <3>1. \A a, b \in Seq(S) : Append(a \o b, e) = a \o Append(b, e)
      <4>1. TAKE a, b \in Seq(S)
      <4>2. <<e>> \in Seq(S) /\ a \o b \in Seq(S)
        OBVIOUS
      <4>3. Append(a \o b, e) = (a \o b) \o <<e>> /\ Append(b, e) = b \o <<e>>
        BY <4>2, AppendIsConcat
      <4>4. (a \o b) \o <<e>> = a \o (b \o <<e>>)
        BY <4>2, ConcatAssociative, SMTT(30)
      <4> QED
        BY <4>3, <4>4, Zenon
    <3> QED
      BY <2>2, <3>1
  <2> QED
    BY <2>1, <2>3, <2>4, <2>5
<1>3. Q \subseteq Seq(S)
  OBVIOUS
<1> HIDE DEF Q
<1>4. t \in Q
  BY <1>1, <1>2, <1>3, SequencesBelow
<1> QED
  BY <1>4 DEF Q

LEMMA SelectedSame ==
  ASSUME NEW S, NEW s \in Seq(S), NEW T, NEW U, \A e \in ToSet(s) : e \in T <=> e \in U
  PROVE  Selected(s, T) = Selected(s, U)
<1> DEFINE Q == {u \in Seq(S) : (\A e \in ToSet(u) : e \in T <=> e \in U)
                                    => Selected(u, T) = Selected(u, U)}
<1>1. <<>> \in Q
  BY SelectedEmpty
<1>2. ASSUME NEW u \in Q, NEW e \in S PROVE Append(u, e) \in Q
  <2>1. Append(u, e) \in Seq(S) /\ ToSet(Append(u, e)) = ToSet(u) \cup {e}
    BY ToSetAppend
  <2>2. \A V : Selected(Append(u, e), V) =
                    IF e \in V THEN Append(Selected(u, V), e) ELSE Selected(u, V)
    BY SelectedAppend
  <2> QED
    BY <2>1, <2>2
<1>3. Q \subseteq Seq(S)
  OBVIOUS
<1> HIDE DEF Q
<1>4. s \in Q
  BY <1>1, <1>2, <1>3, SequencesBelow
<1> QED
  BY <1>4 DEF Q

LEMMA SelectedOne ==
  ASSUME NEW S, NEW e \in S, NEW T
  PROVE  Selected(<<e>>, T) = IF e \in T THEN <<e>> ELSE <<>>
<1>1. <<>> \in Seq(S) /\ <<e>> = Append(<<>>, e)
  OBVIOUS
<1>2. Selected(Append(<<>>, e), T) =
        IF e \in T THEN Append(Selected(<<>>, T), e) ELSE Selected(<<>>, T)
  BY <1>1, SelectedAppend
<1>3. Selected(<<>>, T) = <<>>
  BY SelectedEmpty
<1> QED
  BY <1>1, <1>2, <1>3

LEMMA SelectedNone ==
  ASSUME NEW S, NEW s \in Seq(S), NEW T, ToSet(s) \cap T = {}
  PROVE  Selected(s, T) = <<>>
<1> DEFINE Q == {u \in Seq(S) : ToSet(u) \cap T = {} => Selected(u, T) = <<>>}
<1>1. <<>> \in Q
  BY SelectedEmpty
<1>2. ASSUME NEW u \in Q, NEW e \in S PROVE Append(u, e) \in Q
  <2>1. Append(u, e) \in Seq(S) /\ ToSet(Append(u, e)) = ToSet(u) \cup {e}
    BY ToSetAppend
  <2>2. Selected(Append(u, e), T) = IF e \in T THEN Append(Selected(u, T), e) ELSE Selected(u, T)
    BY SelectedAppend
  <2> QED
    BY <2>1, <2>2
<1>3. Q \subseteq Seq(S)
  OBVIOUS
<1> HIDE DEF Q
<1>4. s \in Q
  BY <1>1, <1>2, <1>3, SequencesBelow
<1> QED
  BY <1>4 DEF Q

LEMMA RemoveNone ==
  ASSUME NEW S, NEW s \in Seq(S), NEW e, e \notin ToSet(s)
  PROVE  RemoveFirst(s, e) = s
BY ToSetIs DEF RemoveFirst

LEMMA RemoveFirstIs ==
  ASSUME NEW S, NEW s \in Seq(S), NEW e, NEW i \in 1 .. Len(s), s[i] = e,
         \A j \in 1 .. Len(s) : s[j] = e => i <= j
  PROVE  RemoveFirst(s, e) = SubSeq(s, 1, i - 1) \o SubSeq(s, i + 1, Len(s))
<1> DEFINE I == {j \in 1 .. Len(s) : s[j] = e}
<1>1. I \in SUBSET Nat /\ i \in I /\ \A j \in I : i <= j
  OBVIOUS
<1>2. Min(I) = i
  <2>1. Min(I) \in I /\ \A j \in I : Min(I) <= j
    BY <1>1, MinIs
  <2> QED
    BY <1>1, <2>1
<1>3. I # {}
  BY <1>1
<1>4. RemoveFirst(s, e) = RemoveAt(s, Min(I))
  BY <1>3 DEF RemoveFirst, SelectInSeq
<1> HIDE DEF I
<1> QED
  BY <1>2, <1>4 DEF RemoveAt

LEMMA RemoveFirstTypes ==
  ASSUME NEW S, NEW s \in Seq(S), NEW e
  PROVE  RemoveFirst(s, e) \in Seq(S)
<1>1. CASE e \notin ToSet(s)
  BY <1>1, RemoveNone
<1>2. CASE e \in ToSet(s)
  <2> DEFINE I == {j \in 1 .. Len(s) : s[j] = e}
  <2>1. I \in SUBSET Nat /\ I # {}
    BY <1>2, ToSetIs
  <2>2. Min(I) \in I /\ \A j \in I : Min(I) <= j
    BY <2>1, MinIs
  <2>3. RemoveFirst(s, e) = RemoveAt(s, Min(I))
    BY <2>1 DEF RemoveFirst, SelectInSeq
  <2> HIDE DEF I
  <2>4. PICK i \in 1 .. Len(s) : RemoveFirst(s, e) = SubSeq(s, 1, i - 1) \o SubSeq(s, i + 1, Len(s))
    BY <2>2, <2>3 DEF RemoveAt, I
  <2>5. \A j \in 1 .. Len(s) : s[j] \in S
    OBVIOUS
  <2>6. SubSeq(s, 1, i - 1) \in Seq(S) /\ SubSeq(s, i + 1, Len(s)) \in Seq(S)
    BY <2>5, SubSeqProperties
  <2> QED
    BY <2>4, <2>6
<1> QED
  BY <1>1, <1>2

LEMMA RemoveHead ==
  ASSUME NEW S, NEW s \in Seq(S), NEW e \in S
  PROVE  RemoveFirst(<<e>> \o s, e) = s
<1> DEFINE t == <<e>> \o s
<1>1. /\ <<e>> \in Seq(S) /\ t \in Seq(S) /\ Len(t) = Len(s) + 1 /\ t[1] = e /\ Len(s) \in Nat
      /\ \A i \in 2 .. Len(t) : t[i] = s[i - 1]
  OBVIOUS
<1> HIDE DEF t
<1>2. RemoveFirst(t, e) = SubSeq(t, 1, 0) \o SubSeq(t, 2, Len(t))
  <2>1. 1 \in 1 .. Len(t) /\ \A j \in 1 .. Len(t) : t[j] = e => 1 <= j
    BY <1>1
  <2>2. RemoveFirst(t, e) = SubSeq(t, 1, 1 - 1) \o SubSeq(t, 1 + 1, Len(t))
    BY <1>1, <2>1, RemoveFirstIs
  <2> QED
    BY <2>2
<1>3. SubSeq(t, 1, 0) = <<>>
  OBVIOUS
<1>4. SubSeq(t, 2, Len(t)) = s
  <2>1. \A i \in 2 .. Len(t) : t[i] \in S
    BY <1>1
  <2>2. /\ SubSeq(t, 2, Len(t)) \in Seq(S)
        /\ Len(SubSeq(t, 2, Len(t))) = IF 2 <= Len(t) THEN Len(t) - 2 + 1 ELSE 0
        /\ \A i \in 1 .. Len(t) - 2 + 1 : SubSeq(t, 2, Len(t))[i] = t[2 + i - 1]
    BY <1>1, <2>1, SubSeqProperties
  <2>3. /\ Len(SubSeq(t, 2, Len(t))) = Len(s)
        /\ \A i \in 1 .. Len(s) : SubSeq(t, 2, Len(t))[i] = s[i]
    BY <1>1, <2>2
  <2> QED
    BY <2>2, <2>3, SeqEqual
<1>5. <<>> \o s = s
  OBVIOUS
<1>6. RemoveFirst(t, e) = s
  BY <1>2, <1>3, <1>4, <1>5, Zenon
<1> QED
  BY <1>6 DEF t

-----------------------------------------------------------------------------
FlagTypes ==
    /\ pc \in [Prompts -> PromptStages]
    /\ run \in [at : RunStages, aborted : BOOLEAN]
    /\ active \in BOOLEAN

\* At most one prompt has begun and has not yet settled.
OneAtWork ==
    \A p, q \in Prompts : pc[p] \notin Resting /\ pc[q] \notin Resting => p = q

\* The flag of the session is set exactly while a prompt works.
ActiveIsWorking == active <=> \E p \in Prompts : pc[p] \in Working

\* A run of the agent belongs to a prompt that waits for its end.
RunHasOwner == run.at # "idle" => \E p \in Prompts : pc[p] = "running"

IInv == FlagTypes /\ OneAtWork /\ ActiveIsWorking /\ RunHasOwner

-----------------------------------------------------------------------------
\* What the stages are to each other.
LEMMA StagesDiffer ==
  /\ Working \cap Resting = {} /\ Working \subseteq PromptStages
  /\ "preCompact" \notin Working \cup Resting /\ "checked" \notin Working \cup Resting
  /\ Resting \subseteq PromptStages /\ {"preCompact", "checked"} \subseteq PromptStages
BY DEF Working, Resting, PromptStages

\* A step of one prompt that does not rest, after which it works on, or rests
\* with the flag cleared.
LEMMA StageMoves ==
  ASSUME IInv, NEW p \in Prompts, NEW stage \in PromptStages,
         pc' = [pc EXCEPT ![p] = stage],
         run' \in [at : RunStages, aborted : BOOLEAN], active' \in BOOLEAN,
         pc[p] \notin Resting \/ (\A q \in Prompts \ {p} : pc[q] \in Resting),
         active' <=> stage \in Working,
         run'.at # "idle" => stage = "running"
  PROVE  IInv'
<1> USE DEF IInv, FlagTypes
<1>1. /\ pc' \in [Prompts -> PromptStages] /\ pc'[p] = stage
      /\ \A q \in Prompts \ {p} : pc'[q] = pc[q]
  OBVIOUS
<1>2. \A q \in Prompts \ {p} : pc[q] \in Resting
  BY DEF OneAtWork
<1>3. OneAtWork'
  BY <1>1, <1>2 DEF OneAtWork
<1>4. ActiveIsWorking'
  <2>1. \A q \in Prompts \ {p} : pc'[q] \notin Working
    BY <1>1, <1>2, StagesDiffer
  <2> QED
    BY <2>1, <1>1 DEF ActiveIsWorking, Working
<1>5. RunHasOwner'
  BY <1>1 DEF RunHasOwner
<1> QED
  BY <1>1, <1>3, <1>4, <1>5

\* A step that moves no prompt and does not start or end a run.
LEMMA RunMoves ==
  ASSUME IInv, UNCHANGED <<pc, active>>,
         run' \in [at : RunStages, aborted : BOOLEAN],
         run'.at # "idle" => run.at # "idle"
  PROVE  IInv'
BY DEF IInv, FlagTypes, OneAtWork, ActiveIsWorking, RunHasOwner

\* While p does not rest, no other prompt works, and a run is p's own.
LEMMA OwnRun ==
  ASSUME IInv, NEW p \in Prompts,
         pc[p] \notin Resting \/ (\A q \in Prompts \ {p} : pc[q] \in Resting)
  PROVE  /\ pc[p] # "running" => run.at = "idle"
         /\ active <=> pc[p] \in Working
<1>1. \A q \in Prompts \ {p} : pc[q] \in Resting
  BY DEF IInv, OneAtWork
<1>2. \A q \in Prompts \ {p} : pc[q] \notin Working /\ pc[q] # "running"
  BY <1>1, StagesDiffer DEF Working
<1> QED
  BY <1>2 DEF IInv, ActiveIsWorking, RunHasOwner

-----------------------------------------------------------------------------
(* One lemma for each group of actions.                                     *)

LEMMA BeginKeeps ==
  ASSUME IInv, ~Overlap, NEW p \in Prompts,
         Prompt(p) \/ StartRun(p) \/ Trigger(p)
  PROVE  IInv'
<1> USE DEF At, Go
<1>0. /\ pc \in [Prompts -> PromptStages] /\ active \in BOOLEAN
      /\ run \in [at : RunStages, aborted : BOOLEAN]
  BY DEF IInv, FlagTypes
<1>1. CASE Prompt(p)
  <2>1. PICK stage \in {"preCompact", "checked"} : pc' = [pc EXCEPT ![p] = stage]
    BY <1>1 DEF Prompt, CheckCompaction
  <2>2. \A q \in Prompts \ {p} : pc[q] \in Resting
    BY <1>1 DEF Prompt, MayStart
  <2>3. ~active /\ pc[p] # "running" /\ run' = run /\ active' = active
    BY <1>1 DEF Prompt
  <2>4. run.at = "idle"
    BY <2>2, <2>3, OwnRun
  <2>5. stage \in PromptStages /\ stage \notin Working
    BY StagesDiffer
  <2> QED
    BY <1>0, <2>1, <2>2, <2>3, <2>4, <2>5, StageMoves
<1>2. ASSUME RunAgentPrompt(p), pc[p] # "running",
             pc[p] \notin Resting \/ (\A q \in Prompts \ {p} : pc[q] \in Resting)
      PROVE  IInv'
  <2>1. run.at = "idle"
    BY <1>2, OwnRun
  <2>2. /\ pc' = [pc EXCEPT ![p] = "running"] /\ active' = TRUE
        /\ run' = [at |-> "prompting", aborted |-> FALSE]
    BY <1>2, <2>1 DEF RunAgentPrompt
  <2>3. run' \in [at : RunStages, aborted : BOOLEAN]
    BY <2>2 DEF RunStages
  <2>4. "running" \in PromptStages /\ "running" \in Working
    BY DEF PromptStages, Working
  <2> QED
    BY <1>2, <2>2, <2>3, <2>4, StageMoves
<1>3. CASE StartRun(p)
  BY <1>2, <1>3, StagesDiffer DEF StartRun
<1>4. CASE Trigger(p)
  BY <1>2, <1>4 DEF Trigger, MayStart
<1> QED
  BY <1>1, <1>3, <1>4

LEMMA RoundKeeps ==
  ASSUME IInv, NEW p \in Prompts,
         \/ Finish(p) \/ PostRun(p) \/ RetryWake(p) \/ Continue(p)
         \/ \E b \in BOOLEAN : EndCompaction(p, b)
  PROVE  IInv'
<1> USE DEF At, Go
<1> DEFINE Stages == {"post", "sleeping", "postCompact", "continuing", "ending"}
<1>0. /\ pc \in [Prompts -> PromptStages] /\ active \in BOOLEAN
      /\ run \in [at : RunStages, aborted : BOOLEAN]
  BY DEF IInv, FlagTypes
<1>s. Stages \subseteq Working /\ Stages \subseteq PromptStages /\ Stages \cap Resting = {}
      /\ "running" \notin Stages
  BY DEF Working, PromptStages, Resting
<1>a. AfterRun \in {"continuing", "ending"}
  BY DEF AfterRun
<1>1. ASSUME NEW stage \in Stages, pc' = [pc EXCEPT ![p] = stage],
             run' = run, active' = active, pc[p] \in Stages
      PROVE  IInv'
  <2>1. pc[p] # "running" /\ pc[p] \notin Resting /\ pc[p] \in Working
    BY <1>1, <1>s
  <2>2. run.at = "idle" /\ active
    BY <2>1, OwnRun, <1>0
  <2> QED
    BY <1>0, <1>1, <1>s, <2>1, <2>2, StageMoves
<1>2. CASE Finish(p)
  <2>1. /\ pc[p] = "running" /\ pc' = [pc EXCEPT ![p] = "post"]
        /\ run' = NoRun /\ active' = active
    BY <1>2 DEF Finish
  <2>2. pc[p] \notin Resting /\ pc[p] \in Working
    BY <2>1 DEF Resting, Working
  <2>3. active
    BY <2>2, OwnRun, <1>0
  <2>4. run' \in [at : RunStages, aborted : BOOLEAN] /\ run'.at = "idle"
    BY <2>1 DEF NoRun, RunStages
  <2>5. "post" \in PromptStages /\ "post" \in Working
    BY DEF PromptStages, Working
  <2> QED
    BY <1>0, <2>1, <2>2, <2>3, <2>4, <2>5, StageMoves
<1>3. CASE PostRun(p)
  <2>1. pc[p] \in Stages /\ run' = run /\ active' = active
    BY <1>3 DEF PostRun
  <2>2. \E stage \in Stages : pc' = [pc EXCEPT ![p] = stage]
    BY <1>3, <1>a DEF PostRun, CheckCompaction
  <2> QED
    BY <1>1, <2>1, <2>2
<1>4. CASE RetryWake(p)
  <2>1. pc[p] \in Stages /\ run' = run /\ active' = active
    BY <1>4 DEF RetryWake
  <2>2. \E stage \in Stages : pc' = [pc EXCEPT ![p] = stage]
    BY <1>4, <1>a DEF RetryWake, CheckCompaction
  <2> QED
    BY <1>1, <2>1, <2>2
<1>5. CASE Continue(p)
  <2>1. pc[p] = "continuing" /\ active' = active
    BY <1>5 DEF Continue
  <2>2. pc[p] \notin Resting /\ pc[p] \in Working /\ pc[p] # "running"
    BY <2>1 DEF Resting, Working
  <2>3. active /\ run.at = "idle"
    BY <2>2, OwnRun, <1>0
  <2>4. CASE pc' = [pc EXCEPT ![p] = "ending"] /\ run' = run
    BY <1>1, <2>1, <2>4
  <2>5. ASSUME NEW at \in {"prompting", "turn"}, run' = [at |-> at, aborted |-> FALSE],
               pc' = [pc EXCEPT ![p] = "running"]
        PROVE  IInv'
    <3>1. run' \in [at : RunStages, aborted : BOOLEAN]
      BY <2>5 DEF RunStages
    <3>2. "running" \in PromptStages /\ "running" \in Working
      BY DEF PromptStages, Working
    <3> QED
      BY <1>0, <2>1, <2>2, <2>3, <2>5, <3>1, <3>2, StageMoves
  <2>6. \/ pc' = [pc EXCEPT ![p] = "ending"] /\ run' = run
        \/ /\ pc' = [pc EXCEPT ![p] = "running"]
           /\ \E at \in {"prompting", "turn"} : run' = [at |-> at, aborted |-> FALSE]
    BY <1>5 DEF Continue
  <2> QED
    BY <2>4, <2>5, <2>6
<1>6. ASSUME NEW b \in BOOLEAN, EndCompaction(p, b) PROVE IInv'
  <2>1. run' = run /\ active' = active
    BY <1>6 DEF EndCompaction
  <2>2. CASE pc[p] = "preCompact"
    <3>1. pc' = [pc EXCEPT ![p] = "checked"]
      BY <1>6, <2>2 DEF EndCompaction, Working
    <3>2. pc[p] \notin Resting /\ pc[p] # "running" /\ pc[p] \notin Working
      BY <2>2, StagesDiffer
    <3>3. ~active /\ run.at = "idle"
      BY <3>2, OwnRun
    <3> QED
      BY <1>0, <2>1, <3>1, <3>2, <3>3, StageMoves, StagesDiffer
  <2>3. CASE pc[p] = "postCompact"
    <3>1. \E stage \in Stages : pc' = [pc EXCEPT ![p] = stage]
      BY <1>6, <2>3, <1>a DEF EndCompaction
    <3> QED
      BY <1>1, <2>1, <2>3, <3>1
  <2> QED
    BY <1>6, <2>2, <2>3 DEF EndCompaction
<1> QED
  BY <1>2, <1>3, <1>4, <1>5, <1>6

LEMMA SettleKeeps ==
  ASSUME IInv, NEW p \in Prompts, Settle(p) \/ Settled(p)
  PROVE  IInv'
<1> USE DEF At, Go
<1>0. /\ pc \in [Prompts -> PromptStages] /\ active \in BOOLEAN
      /\ run \in [at : RunStages, aborted : BOOLEAN]
  BY DEF IInv, FlagTypes
<1>1. CASE Settle(p)
  <2>1. /\ pc[p] = "ending" /\ pc' = [pc EXCEPT ![p] = "settling"]
        /\ active' = FALSE /\ run' = run
    BY <1>1 DEF Settle
  <2>2. pc[p] \notin Resting
    BY <2>1 DEF Resting
  <2>3. run.at = "idle"
    BY <2>1, <2>2, OwnRun
  <2>4. "settling" \in PromptStages /\ "settling" \notin Working
    BY DEF PromptStages, Working
  <2> QED
    BY <1>0, <2>1, <2>2, <2>3, <2>4, StageMoves
<1>2. CASE Settled(p)
  <2>1. /\ pc[p] = "settling" /\ pc' = [pc EXCEPT ![p] = "done"]
        /\ active' = active /\ run' = run
    BY <1>2 DEF Settled
  <2>2. /\ pc' \in [Prompts -> PromptStages] /\ pc'[p] = "done"
        /\ \A q \in Prompts \ {p} : pc'[q] = pc[q]
    BY <1>0, <2>1 DEF PromptStages
  <2>3. \A q \in Prompts : /\ pc'[q] \in Resting <=> pc[q] \in Resting
                           /\ pc'[q] \in Working <=> pc[q] \in Working
                           /\ pc'[q] = "running" <=> pc[q] = "running"
    BY <2>1, <2>2 DEF Resting, Working
  <2> QED
    BY <1>0, <2>1, <2>2, <2>3 DEF IInv, FlagTypes, OneAtWork, ActiveIsWorking, RunHasOwner
<1> QED
  BY <1>1, <1>2

LEMMA RunKeeps ==
  ASSUME IInv, RunStep
  PROVE  IInv'
<1>0. run \in [at : RunStages, aborted : BOOLEAN]
  BY DEF IInv, FlagTypes
<1>1. UNCHANGED <<pc, active>> /\ run.at # "idle"
  BY DEF RunStep, BeginRun, BeginTurn, Answer, Execute, Poll, stages
<1>2. run' = run \/ \E stage \in RunStages : run' = [run EXCEPT !.at = stage]
  <2>1. CASE BeginRun \/ BeginTurn \/ Poll
    BY <2>1 DEF BeginRun, BeginTurn, Poll, RunAt, RunStages
  <2>2. ASSUME NEW kind, Answer(kind) PROVE <1>2!2
    BY <2>2 DEF Answer, RunAt, RunStages
  <2>3. ASSUME NEW next \in {"called", "answered"}, Execute(next) PROVE <1>2!2
    BY <2>3 DEF Execute, RunAt, RunStages
  <2> QED
    BY <2>1, <2>2, <2>3 DEF RunStep
<1>3. run' \in [at : RunStages, aborted : BOOLEAN]
  BY <1>0, <1>2
<1> QED
  BY <1>1, <1>3, RunMoves

LEMMA HostKeeps ==
  ASSUME IInv, ManualStep \/ Host
  PROVE  IInv'
<1>0. run \in [at : RunStages, aborted : BOOLEAN]
  BY DEF IInv, FlagTypes
<1>1. UNCHANGED <<pc, active>>
  BY DEF ManualStep, PrepareManual, EndManual, Host, Steer, FollowUp, Custom, Abort,
         ClearQueue, Compact, AbortCompaction, RecordBashResult, stages
<1>2. run' = run \/ (run.at # "idle" /\ run' = [run EXCEPT !.aborted = TRUE])
  BY DEF ManualStep, PrepareManual, EndManual, Host, Steer, FollowUp, Custom, Abort, StopWork,
         ClearQueue, Compact, AbortCompaction, RecordBashResult
<1>3. run' \in [at : RunStages, aborted : BOOLEAN]
  BY <1>0, <1>2
<1> QED
  BY <1>0, <1>1, <1>2, <1>3, RunMoves

-----------------------------------------------------------------------------
LEMMA InitIInv == Init => IInv
<1> SUFFICES ASSUME Init PROVE IInv
  OBVIOUS
<1>1. \A p \in Prompts : pc[p] = "ready"
  BY DEF Init
<1>2. /\ pc \in [Prompts -> PromptStages] /\ active = FALSE
      /\ run \in [at : RunStages, aborted : BOOLEAN] /\ run.at = "idle"
  BY DEF Init, NoRun, PromptStages, RunStages
<1>3. "ready" \in Resting /\ "ready" \notin Working
  BY DEF Resting, Working
<1> QED
  BY <1>1, <1>2, <1>3 DEF IInv, FlagTypes, OneAtWork, ActiveIsWorking, RunHasOwner

LEMMA StepIInv == ~Overlap /\ IInv /\ [Next]_vars => IInv'
<1> SUFFICES ASSUME ~Overlap, IInv, [Next]_vars PROVE IInv'
  OBVIOUS
<1>1. ASSUME NEW p \in Prompts, Prompt(p) \/ Trigger(p) \/ PromptStep(p) PROVE IInv'
  BY <1>1, BeginKeeps, RoundKeeps, SettleKeeps DEF PromptStep
<1>2. CASE RunStep
  BY <1>2, RunKeeps
<1>3. CASE ManualStep \/ Host
  BY <1>3, HostKeeps
<1>4. CASE UNCHANGED vars
  BY <1>4 DEF vars, stages, IInv, FlagTypes, OneAtWork, ActiveIsWorking, RunHasOwner
<1> QED
  BY <1>1, <1>2, <1>3, <1>4 DEF Next

\* Between its prompts a session is idle: if no prompt starts before the one
\* before it has settled, no run, retry, compaction after a run or continuation
\* is under way while _isAgentRunActive is false, and agent_settled is true to
\* its name.
THEOREM IdleIsIdle == ASSUME ~Overlap PROVE Spec => []IdleMeansIdle
<1>1. IInv => IdleMeansIdle
  BY StagesDiffer DEF IInv, ActiveIsWorking, RunHasOwner, IdleMeansIdle, Working
<1>2. ~Overlap
  OBVIOUS
<1> QED
  BY InitIInv, StepIInv, <1>1, <1>2, PTL DEF Spec

-----------------------------------------------------------------------------
(* Messages and the branch: log stands for said, list for saved.            *)

Logs == Seq([kind : MessageKinds, ref : Nat])

\* A compaction may keep id first.
Keepable(log, list, id) ==
    \E j \in DOMAIN list : list[j] = id /\ log[id].kind \notin {"summary", "result"}

Grows(list) == \A i, j \in DOMAIN list : i < j => list[i] < list[j]

\* What a summary keeps first is saved before it.
SummariesKeep(log, list) ==
    \A i \in DOMAIN list : log[list[i]].kind = "summary" =>
        LET kept == log[list[i]].ref
        IN  \E j \in 1 .. i - 1 : list[j] = kept /\ log[kept].kind \notin {"summary", "result"}

\* The branch of a session.
Branch(log, list) ==
    log \in Logs /\ list \in Seq(1 .. Len(log)) /\ Grows(list) /\ SummariesKeep(log, list)

\* longer is log with n messages more.
Longer(log, longer, n) ==
    longer \in Logs /\ Len(longer) = Len(log) + n /\ \A i \in 1 .. Len(log) : longer[i] = log[i]

NumbersAfter(k, n) == [i \in 1 .. n |-> k + i]

\* more is list with the numbers of m of them, of all if there is a summary.
Joins(log, longer, list, more, m) ==
    /\ m = 0 \/ m = Len(longer) - Len(log)
    /\ more = list \o NumbersAfter(Len(log), m)
    /\ \A i \in Len(log) + 1 .. Len(longer) : longer[i].kind = "summary" =>
            m = Len(longer) - Len(log) /\ Keepable(log, list, longer[i].ref)

\* Messages are added, and to the branch all of them or none.
LEMMA BranchGrows ==
  ASSUME NEW log, NEW list, Branch(log, list),
         NEW n \in Nat, NEW longer, Longer(log, longer, n),
         NEW m \in Nat, NEW more, Joins(log, longer, list, more, m)
  PROVE  Branch(longer, more) /\ \A id : Keepable(log, list, id) => Keepable(longer, more, id)
<1> DEFINE len == Len(list)
           top == Len(log)
           new == NumbersAfter(top, m)
<1>m. m \in Nat /\ m <= n
  BY DEF Joins, Longer, Branch, Logs
<1>1. /\ list \in Seq(1 .. top) /\ top \in Nat /\ len \in Nat /\ m \in Nat /\ m <= n
      /\ Len(longer) = top + n /\ longer \in Logs
      /\ \A i \in 1 .. top : longer[i] = log[i]
  BY <1>m DEF Branch, Longer, Logs
<1>2. \A i \in 1 .. len : list[i] \in 1 .. top
  BY <1>1
<1>3. /\ more \in Seq(1 .. top + n) /\ Len(more) = len + m
      /\ \A i \in 1 .. len : more[i] = list[i]
      /\ \A i \in len + 1 .. len + m : more[i] = top + (i - len)
  <2>1. new \in Seq(1 .. top + n) /\ Len(new) = m /\ \A i \in 1 .. m : new[i] = top + i
    BY <1>1 DEF NumbersAfter
  <2>2. list \in Seq(1 .. top + n)
    BY <1>1, <1>2
  <2> HIDE DEF new
  <2>3. more \in Seq(1 .. top + n)
    BY <2>1, <2>2 DEF new, Joins
  <2>4. more = list \o new
    BY DEF new, Joins
  <2> HIDE DEF len, top
  <2>5. /\ Len(more) = len + m
        /\ \A i \in 1 .. len + m : more[i] = IF i <= len THEN list[i] ELSE new[i - len]
    <3>1. /\ Len(list \o new) = Len(list) + Len(new)
          /\ \A i \in 1 .. Len(list) + Len(new) :
                (list \o new)[i] = IF i <= Len(list) THEN list[i] ELSE new[i - Len(list)]
      BY <2>1, <2>2, ConcatProperties
    <3> QED
      BY <2>1, <2>4, <3>1 DEF len
  <2>6. \A i \in 1 .. len : i \in 1 .. len + m /\ i <= len
    BY <1>1
  <2>7. ASSUME NEW i \in len + 1 .. len + m PROVE more[i] = top + (i - len)
    <3>1. i - len \in 1 .. m /\ i \in 1 .. len + m /\ ~ (i <= len)
      BY <1>1
    <3> QED
      BY <2>1, <2>5, <3>1
  <2> QED
    BY <2>3, <2>5, <2>6, <2>7
<1>4. DOMAIN list = 1 .. len /\ DOMAIN more = 1 .. len + m
  BY <1>1, <1>3
<1> HIDE DEF len, top, new
<1>5. Grows(more)
  <2>1. ASSUME NEW i \in 1 .. len + m, NEW j \in 1 .. len + m, i < j
        PROVE  more[i] < more[j]
    <3>1. CASE j \in 1 .. len
      <4>1. i \in 1 .. len
        BY <1>1, <2>1, <3>1
      <4>2. list[i] < list[j]
        BY <1>4, <2>1, <3>1, <4>1 DEF Branch, Grows
      <4> QED
        BY <1>3, <3>1, <4>1, <4>2
    <3>2. CASE j \in len + 1 .. len + m /\ i \in 1 .. len
      <4>1. more[i] \in 1 .. top
        BY <1>2, <1>3, <3>2
      <4>2. more[j] = top + (j - len) /\ j > len
        BY <1>1, <1>3, <3>2
      <4>3. top \in Int /\ top + (j - len) \in Int /\ top < top + (j - len)
        BY <1>1, <4>2
      <4>4. \A a \in 1 .. top : a < top + (j - len)
        BY <4>3
      <4> QED
        BY <4>1, <4>2, <4>4
    <3>3. CASE j \in len + 1 .. len + m /\ i \in len + 1 .. len + m
      <4>1. more[i] = top + (i - len) /\ more[j] = top + (j - len)
        BY <1>3, <3>3
      <4>2. i \in Int /\ j \in Int /\ len \in Int /\ top \in Int
        BY <1>1
      <4>3. top + (i - len) < top + (j - len)
        BY <2>1, <4>2
      <4> QED
        BY <4>1, <4>3
    <3>4. \A k \in 1 .. len + m : k \in 1 .. len \/ k \in len + 1 .. len + m
      BY <1>1
    <3> QED
      BY <3>1, <3>2, <3>3, <3>4
  <2> QED
    BY <1>4, <2>1 DEF Grows
<1>6. ASSUME NEW j \in 1 .. len
      PROVE  more[j] = list[j] /\ longer[list[j]] = log[list[j]]
  BY <1>1, <1>2, <1>3
<1>7. ASSUME NEW id, Keepable(log, list, id)
      PROVE  \E j \in 1 .. len : more[j] = id /\ longer[id].kind \notin {"summary", "result"}
  BY <1>4, <1>6, <1>7 DEF Keepable
<1>8. \A id : Keepable(log, list, id) => Keepable(longer, more, id)
  <2>1. \A j \in 1 .. len : j \in DOMAIN more
    BY <1>1, <1>4
  <2> QED
    BY <1>7, <2>1 DEF Keepable
<1>9. ASSUME NEW i \in 1 .. len + m, longer[more[i]].kind = "summary"
      PROVE  \E j \in 1 .. i - 1 : /\ more[j] = longer[more[i]].ref
                                   /\ longer[longer[more[i]].ref].kind \notin {"summary", "result"}
  <2>1. CASE i \in 1 .. len
    <3>1. more[i] = list[i] /\ longer[list[i]] = log[list[i]]
      BY <1>6, <2>1
    <3>2. PICK j \in 1 .. i - 1 : /\ list[j] = log[list[i]].ref
                                  /\ log[log[list[i]].ref].kind \notin {"summary", "result"}
      BY <1>4, <1>9, <2>1, <3>1 DEF Branch, SummariesKeep
    <3>3. j \in 1 .. len
      BY <1>1, <2>1
    <3>4. more[j] = list[j] /\ longer[list[j]] = log[list[j]]
      BY <1>6, <3>3
    <3> QED
      BY <3>1, <3>2, <3>4
  <2>2. CASE i \in len + 1 .. len + m
    <3>1. more[i] = top + (i - len) /\ i > len
      BY <1>1, <1>3, <2>2
    <3>2. more[i] \in top + 1 .. Len(longer)
      BY <1>1, <2>2, <3>1
    <3>3. Keepable(log, list, longer[more[i]].ref)
      BY <1>9, <3>2 DEF top, Joins
    <3>4. PICK j \in 1 .. len : /\ more[j] = longer[more[i]].ref
                                /\ longer[longer[more[i]].ref].kind \notin {"summary", "result"}
      BY <1>7, <3>3
    <3>5. j \in 1 .. i - 1
      BY <1>1, <3>1
    <3> QED
      BY <3>4, <3>5
  <2>3. i \in 1 .. len \/ i \in len + 1 .. len + m
    BY <1>1
  <2> QED
    BY <2>1, <2>2, <2>3
<1>10. SummariesKeep(longer, more)
  BY <1>4, <1>9 DEF SummariesKeep
<1> QED
  BY <1>1, <1>3, <1>5, <1>8, <1>10 DEF Branch

-----------------------------------------------------------------------------
(* What buildSessionContext makes of a branch.                              *)

LEMMA FrontIs ==
  ASSUME NEW S, NEW s \in Seq(S), s # <<>>
  PROVE  /\ Front(s) \in Seq(S) /\ Last(s) \in S /\ s = Append(Front(s), Last(s))
         /\ Len(Front(s)) = Len(s) - 1 /\ \A i \in 1 .. Len(s) - 1 : Front(s)[i] = s[i]
<1>1. /\ Len(s) \in Nat \ {0} /\ \A i \in 1 .. Len(s) : s[i] \in S
  OBVIOUS
<1>2. /\ SubSeq(s, 1, Len(s) - 1) \in Seq(S) /\ Len(SubSeq(s, 1, Len(s) - 1)) = Len(s) - 1
      /\ \A i \in 1 .. Len(s) - 1 : SubSeq(s, 1, Len(s) - 1)[i] = s[i]
  <2> DEFINE n == Len(s) - 1
  <2>1. n \in Nat /\ \A i \in 1 .. n : s[i] \in S
    BY <1>1
  <2> HIDE DEF n
  <2>2. /\ SubSeq(s, 1, n) \in Seq(S) /\ Len(SubSeq(s, 1, n)) = IF 1 <= n THEN n - 1 + 1 ELSE 0
        /\ \A i \in 1 .. n - 1 + 1 : SubSeq(s, 1, n)[i] = s[1 + i - 1]
    BY <2>1, SubSeqProperties
  <2>3. Len(SubSeq(s, 1, n)) = n /\ \A i \in 1 .. n : SubSeq(s, 1, n)[i] = s[i]
    BY <2>1, <2>2
  <2> QED
    BY <2>2, <2>3 DEF n
<1>3. Last(s) \in S /\ Last(s) = s[Len(s)] /\ Front(s) = SubSeq(s, 1, Len(s) - 1)
  BY <1>1 DEF Last, Front
<1>4. /\ Append(Front(s), Last(s)) \in Seq(S) /\ Len(Append(Front(s), Last(s))) = Len(s)
      /\ \A i \in 1 .. Len(s) : Append(Front(s), Last(s))[i] = s[i]
  BY <1>1, <1>2, <1>3
<1>5. s = Append(Front(s), Last(s))
  BY <1>4, SeqEqual
<1> QED
  BY <1>2, <1>3, <1>5

LEMMA SubSeqIs ==
  ASSUME NEW S, NEW s \in Seq(S), NEW k \in 1 .. Len(s) + 1, NEW n \in 0 .. Len(s)
  PROVE  SubSeq(s, k, n) \in Seq(S)
<1>1. \A i \in k .. n : s[i] \in S
  OBVIOUS
<1>2. k \in Int /\ n \in Int
  OBVIOUS
<1> QED
  BY <1>1, <1>2, SubSeqProperties

\* Parts of a concatenation.
LEMMA PartsOfConcat ==
  ASSUME NEW S, NEW s \in Seq(S), NEW t \in Seq(S)
  PROVE  /\ \A k \in 1 .. Len(s), n \in 0 .. Len(s) : SubSeq(s \o t, k, n) = SubSeq(s, k, n)
         /\ \A k \in 1 .. Len(s) + 1 :
                SubSeq(s \o t, k, Len(s \o t)) = SubSeq(s, k, Len(s)) \o t
<1> DEFINE w == s \o t
<1>1. w \in Seq(S) /\ Len(w) = Len(s) + Len(t) /\ Len(s) \in Nat /\ Len(t) \in Nat
  BY ConcatProperties
<1>2. ASSUME NEW k \in 1 .. Len(s), NEW n \in 0 .. Len(s) PROVE SubSeq(w, k, n) = SubSeq(s, k, n)
  <2>1. CASE n = 0
    <3>1. k \in Int /\ n \in Int /\ n < k
      BY <2>1
    <3> QED
      BY <3>1, SubSeqEmpty
  <2>2. CASE n # 0
    <3>1. n \in 1 .. Len(s)
      BY <1>1, <2>2
    <3> QED
      BY <3>1, SubSeqOfConcat1
  <2> QED
    BY <2>1, <2>2
<1>3. ASSUME NEW k \in 1 .. Len(s) + 1
      PROVE  SubSeq(w, k, Len(w)) = SubSeq(s, k, Len(s)) \o t
  <2> DEFINE m == Len(s)
  <2>1. /\ k \in 1 .. Len(w) + 1 /\ m \in k - 1 .. Len(w) /\ Len(w) \in m .. Len(w)
    BY <1>1
  <2>2. SubSeq(w, k, m) \o SubSeq(w, m + 1, Len(w)) = SubSeq(w, k, Len(w))
    BY <1>1, <2>1, ConcatAdjacentSubSeq
  <2>3. SubSeq(w, k, m) = SubSeq(s, k, m)
    <3>1. CASE k = m + 1
      <4>1. k \in Int /\ m \in Int /\ m < k
        BY <1>1, <3>1
      <4> QED
        BY <4>1, SubSeqEmpty
    <3>2. CASE k # m + 1
      <4>1. k \in 1 .. Len(s) /\ m \in 0 .. Len(s)
        BY <1>1, <3>2
      <4> QED
        BY <1>2, <4>1
    <3> QED
      BY <3>1, <3>2
  <2>4. SubSeq(w, m + 1, Len(w)) = t
    <3>1. CASE Len(t) = 0
      <4>1. m + 1 \in Int /\ Len(w) \in Int /\ Len(w) < m + 1 /\ t = <<>>
        BY <1>1, <3>1
      <4> QED
        BY <4>1, SubSeqEmpty
    <3>2. CASE Len(t) # 0
      <4>1. m + 1 \in Len(s) + 1 .. Len(s) + Len(t) /\ Len(w) \in Len(s) + 1 .. Len(s) + Len(t)
        BY <1>1, <3>2
      <4>2. SubSeq(w, m + 1, Len(w)) = SubSeq(t, m + 1 - Len(s), Len(w) - Len(s))
        BY <4>1, SubSeqOfConcat2
      <4>3. m + 1 - Len(s) = 1 /\ Len(w) - Len(s) = Len(t)
        BY <1>1
      <4> QED
        BY <4>2, <4>3, SubSeqFull
    <3> QED
      BY <3>1, <3>2
  <2> HIDE DEF w
  <2> QED
    BY <2>2, <2>3, <2>4
<1> QED
  BY <1>2, <1>3

LEMMA PlaceIs ==
  ASSUME NEW list \in Seq(Nat), Grows(list), NEW j \in 1 .. Len(list)
  PROVE  PlaceOf(list, list[j]) = j
<1>1. \A i \in 1 .. Len(list) : list[i] \in Nat /\ i \in Nat
  OBVIOUS
<1>2. \A i \in 1 .. Len(list) : list[i] = list[j] => i = j
  <2>1. \A i, k \in 1 .. Len(list) : i < k => list[i] < list[k]
    BY DEF Grows
  <2>2. \A i, k \in 1 .. Len(list) : i < k => list[i] # list[k]
    BY <1>1, <2>1
  <2> QED
    BY <1>1, <2>2
<1>3. DOMAIN list = 1 .. Len(list)
  OBVIOUS
<1> QED
  BY <1>2, <1>3 DEF PlaceOf

\* Without a summary the context is the branch; otherwise it is the last
\* summary at s, what it keeps from k on, and what came after it.
RebuiltAt(log, list, s, k) ==
    /\ s \in 1 .. Len(list) /\ k \in 1 .. s - 1
    /\ log[list[s]].kind = "summary" /\ list[k] = log[list[s]].ref
    /\ log[list[k]].kind \notin {"summary", "result"}
    /\ \A i \in 1 .. Len(list) : log[list[i]].kind = "summary" => i <= s

RebuiltFrom(log, list, s, k) ==
    (<<list[s]>> \o SubSeq(list, k, s - 1))
        \o SubSeq(list, s + 1, Len(list))

LEMMA RebuiltIs ==
  ASSUME NEW log, NEW list, Branch(log, list)
  PROVE  /\ \A s, k : RebuiltAt(log, list, s, k) => Rebuilt(log, list) = RebuiltFrom(log, list, s, k)
         /\ Summaries(log, list) # {} => \E s, k : RebuiltAt(log, list, s, k)
         /\ Summaries(log, list) = {} => Rebuilt(log, list) = list
<1>0. /\ list \in Seq(1 .. Len(log)) /\ list \in Seq(Nat) /\ Len(list) \in Nat
      /\ DOMAIN list = 1 .. Len(list) /\ Grows(list)
  <2>1. log \in Logs /\ list \in Seq(1 .. Len(log)) /\ Grows(list)
    BY DEF Branch
  <2>2. 1 .. Len(log) \subseteq Nat
    OBVIOUS
  <2>3. list \in Seq(Nat)
    BY <2>1, <2>2, SeqMonotonic
  <2> QED
    BY <2>1, <2>3
<1> DEFINE T == Summaries(log, list)
<1>1. T \in SUBSET Nat /\ T = {i \in 1 .. Len(list) : log[list[i]].kind = "summary"}
  BY <1>0 DEF Summaries
<1>2. ASSUME NEW s, NEW k, RebuiltAt(log, list, s, k)
      PROVE  Rebuilt(log, list) = RebuiltFrom(log, list, s, k)
  <2>1. s \in T /\ \A x \in T : x <= s
    BY <1>1, <1>2 DEF RebuiltAt
  <2>2. Max(T) = s
    BY <1>1, <2>1, MaxOf
  <2>3. k \in 1 .. Len(list) /\ list[k] = log[list[s]].ref
    BY <1>0, <1>2 DEF RebuiltAt
  <2>4. PlaceOf(list, log[list[s]].ref) = k
    BY <1>0, <2>3, PlaceIs
  <2>5. T # {}
    BY <2>1
  <2> HIDE DEF T
  <2> QED
    BY <2>2, <2>4, <2>5 DEF Rebuilt, RebuiltFrom, T
<1>3. ASSUME T # {} PROVE \E s, k : RebuiltAt(log, list, s, k)
  <2> DEFINE s == Max(T)
  <2>1. Len(list) \in Nat /\ \A x \in T : x <= Len(list)
    BY <1>0, <1>1
  <2>2. s \in T /\ \A x \in T : x <= s
    BY <1>1, <1>3, <2>1, MaxIs
  <2> HIDE DEF s
  <2>3. PICK k \in 1 .. s - 1 : /\ list[k] = log[list[s]].ref
                                /\ log[log[list[s]].ref].kind \notin {"summary", "result"}
    BY <1>0, <1>1, <2>2 DEF Branch, SummariesKeep
  <2>4. RebuiltAt(log, list, s, k)
    BY <1>0, <1>1, <2>2, <2>3 DEF RebuiltAt
  <2> QED
    BY <2>4
<1> QED
  BY <1>2, <1>3 DEF Rebuilt

LEMMA RebuiltTypes ==
  ASSUME NEW log, NEW list, Branch(log, list)
  PROVE  Rebuilt(log, list) \in Seq(1 .. Len(log))
<1> DEFINE S == 1 .. Len(log)
<1>1. list \in Seq(S)
  BY DEF Branch
<1>2. CASE Summaries(log, list) = {}
  BY <1>1, <1>2, RebuiltIs
<1>3. CASE Summaries(log, list) # {}
  <2>1. PICK s, k : RebuiltAt(log, list, s, k)
    BY <1>3, RebuiltIs
  <2>2. /\ s \in 1 .. Len(list) /\ k \in 1 .. Len(list) + 1 /\ s - 1 \in 0 .. Len(list)
        /\ s + 1 \in 1 .. Len(list) + 1 /\ Len(list) \in 0 .. Len(list)
    BY <1>1, <2>1 DEF RebuiltAt
  <2>3. <<list[s]>> \in Seq(S)
    BY <1>1, <2>2
  <2>4. SubSeq(list, k, s - 1) \in Seq(S)
    BY <1>1, <2>2, SubSeqIs
  <2>5. SubSeq(list, s + 1, Len(list)) \in Seq(S)
    BY <1>1, <2>2, SubSeqIs
  <2>6. RebuiltFrom(log, list, s, k) \in Seq(S)
    BY <2>3, <2>4, <2>5, ConcatProperties DEF RebuiltFrom
  <2> QED
    BY <2>1, <2>6, RebuiltIs
<1> QED
  BY <1>2, <1>3

\* Messages without a summary are added behind.
LEMMA RebuiltLonger ==
  ASSUME NEW log, NEW list, Branch(log, list), NEW n \in Nat, NEW longer, Longer(log, longer, n),
         NEW new \in Seq(1 .. Len(longer)), \A i \in 1 .. Len(new) : longer[new[i]].kind # "summary",
         Branch(longer, list \o new)
  PROVE  Rebuilt(longer, list \o new) = Rebuilt(log, list) \o new
<1> DEFINE S == 1 .. Len(longer)
           more == list \o new
<1>0. /\ Len(log) \in Nat /\ Len(longer) = Len(log) + n /\ list \in Seq(1 .. Len(log))
      /\ \A i \in 1 .. Len(log) : longer[i] = log[i]
  BY DEF Branch, Longer, Logs
<1>1. list \in Seq(S) /\ new \in Seq(S) /\ Len(list) \in Nat /\ Len(new) \in Nat
  <2>1. 1 .. Len(log) \subseteq S
    BY <1>0
  <2> QED
    BY <1>0, <2>1, SeqMonotonic
<1>2. /\ more \in Seq(S) /\ Len(more) = Len(list) + Len(new)
      /\ \A i \in 1 .. Len(list) + Len(new) :
            more[i] = IF i <= Len(list) THEN list[i] ELSE new[i - Len(list)]
  BY <1>1, ConcatProperties
<1>3. \A i \in 1 .. Len(list) :
        list[i] \in 1 .. Len(log) /\ more[i] = list[i] /\ longer[list[i]] = log[list[i]]
  BY <1>0, <1>1, <1>2
<1>4. ASSUME NEW i \in 1 .. Len(more), longer[more[i]].kind = "summary"
      PROVE  i \in 1 .. Len(list) /\ log[list[i]].kind = "summary"
  <2>1. CASE i <= Len(list)
    <3>1. i \in 1 .. Len(list)
      BY <1>1, <1>2, <2>1
    <3> QED
      BY <1>3, <1>4, <3>1
  <2>2. CASE ~ (i <= Len(list))
    <3>1. i - Len(list) \in 1 .. Len(new) /\ more[i] = new[i - Len(list)]
      BY <1>1, <1>2, <2>2
    <3> QED
      BY <1>4, <3>1
  <2> QED
    BY <2>1, <2>2
<1>5. DOMAIN list = 1 .. Len(list) /\ DOMAIN more = 1 .. Len(more)
  BY <1>1, <1>2
<1> HIDE DEF more
<1>6. CASE Summaries(log, list) = {}
  <2>1. Summaries(longer, more) = {}
    BY <1>4, <1>5, <1>6 DEF Summaries
  <2>2. Rebuilt(longer, more) = more
    BY <2>1, RebuiltIs DEF more
  <2> QED
    BY <1>6, <2>2, RebuiltIs DEF more
<1>7. CASE Summaries(log, list) # {}
  <2>1. PICK s, k : RebuiltAt(log, list, s, k)
    BY <1>7, RebuiltIs
  <2>2. /\ s \in 1 .. Len(list) /\ k \in 1 .. Len(list) /\ s - 1 \in 0 .. Len(list)
        /\ s + 1 \in 1 .. Len(list) + 1 /\ Len(list) \in 0 .. Len(list) /\ s \in 1 .. Len(more)
        /\ k \in 1 .. s - 1
    <3>1. s \in 1 .. Len(list) /\ k \in 1 .. s - 1
      BY <2>1 DEF RebuiltAt
    <3>2. s \in 1 .. Len(list) /\ Len(list) \in Nat /\ Len(more) = Len(list) + Len(new) /\ Len(new) \in Nat
      BY <1>1, <1>2, <3>1
    <3> QED
      BY <3>1, <3>2
  <2>3. more[s] = list[s] /\ more[k] = list[k] /\ longer[list[s]] = log[list[s]]
        /\ longer[list[k]] = log[list[k]]
    BY <1>3, <2>2
  <2>4. RebuiltAt(longer, more, s, k)
    BY <1>4, <2>1, <2>2, <2>3 DEF RebuiltAt
  <2>5. SubSeq(more, k, s - 1) = SubSeq(list, k, s - 1)
    BY <1>1, <2>2, PartsOfConcat DEF more
  <2>6. SubSeq(more, s + 1, Len(more)) = SubSeq(list, s + 1, Len(list)) \o new
    BY <1>1, <2>2, PartsOfConcat DEF more
  <2> DEFINE a == <<list[s]>>
             b == SubSeq(list, k, s - 1)
             c == SubSeq(list, s + 1, Len(list))
  <2>8. a \in Seq(S) /\ b \in Seq(S) /\ c \in Seq(S)
    <3>1. a \in Seq(S)
      BY <1>1, <2>2
    <3>2. b \in Seq(S)
      BY <1>1, <2>2, SubSeqIs
    <3>3. c \in Seq(S)
      BY <1>1, <2>2, SubSeqIs
    <3> QED
      BY <3>1, <3>2, <3>3
  <2>9. Rebuilt(longer, more) = (a \o b) \o (c \o new) /\ Rebuilt(log, list) = (a \o b) \o c
    <3>1. Branch(longer, more)
      BY DEF more
    <3>2. /\ Rebuilt(longer, more) = RebuiltFrom(longer, more, s, k)
          /\ Rebuilt(log, list) = RebuiltFrom(log, list, s, k)
      BY <2>1, <2>4, <3>1, RebuiltIs
    <3> QED
      BY <2>3, <2>5, <2>6, <3>2 DEF RebuiltFrom
  <2> HIDE DEF a, b, c
  <2> DEFINE d == a \o b
  <2>10. d \in Seq(S)
    BY <2>8, ConcatProperties
  <2> HIDE DEF d
  <2>11. (d \o c) \o new = d \o (c \o new)
    <3>1. d \in Seq(S) /\ c \in Seq(S) /\ new \in Seq(S)
      BY <1>1, <2>8, <2>10
    <3> HIDE DEF S
    <3> QED
      BY <3>1, ConcatAssociative, SMTT(30)
  <2>12. Rebuilt(longer, more) = d \o (c \o new) /\ Rebuilt(log, list) = d \o c
    BY <2>9 DEF d
  <2>13. Rebuilt(longer, more) = Rebuilt(log, list) \o new
    BY <2>11, <2>12, Zenon
  <2> QED
    BY <2>13 DEF more
<1> QED
  BY <1>6, <1>7

\* A summary is added: it stands first, followed by what it keeps.
Compacted(log, list, id, result) ==
    \E k \in 1 .. Len(list) :
        /\ log[list[k]].kind \notin {"summary", "result"}
        /\ result = <<id>> \o SubSeq(list, k, Len(list))

LEMMA RebuiltSummary ==
  ASSUME NEW log, NEW list, Branch(log, list), NEW longer, Longer(log, longer, 1),
         NEW id, id = Len(log) + 1, longer[id].kind = "summary",
         Keepable(log, list, longer[id].ref), Branch(longer, Append(list, id))
  PROVE  Compacted(log, list, id, Rebuilt(longer, Append(list, id)))
<1> DEFINE S == 1 .. Len(longer)
           more == Append(list, id)
           s == Len(list) + 1
<1>0. /\ Len(log) \in Nat /\ Len(longer) = id /\ list \in Seq(1 .. Len(log)) /\ id \in S
      /\ \A i \in 1 .. Len(log) : longer[i] = log[i]
  BY DEF Branch, Longer, Logs
<1>1. list \in Seq(S) /\ Len(list) \in Nat /\ DOMAIN list = 1 .. Len(list)
  <2>1. 1 .. Len(log) \subseteq S
    BY <1>0
  <2> QED
    BY <1>0, <2>1, SeqMonotonic
<1>2. /\ more \in Seq(S) /\ Len(more) = s /\ more[s] = id
      /\ \A i \in 1 .. Len(list) : more[i] = list[i]
  BY <1>0, <1>1, AppendProperties
<1> HIDE DEF more
<1>3. PICK k \in 1 .. Len(list) : list[k] = longer[id].ref
                                  /\ log[list[k]].kind \notin {"summary", "result"}
  BY <1>1 DEF Keepable
<1>4. longer[list[k]] = log[list[k]] /\ more[k] = list[k]
  <2>1. list[k] \in 1 .. Len(log)
    BY <1>0
  <2> QED
    BY <1>0, <1>2, <2>1
<1>5. RebuiltAt(longer, more, s, k)
  <2>1. s \in 1 .. Len(more) /\ k \in 1 .. s - 1 /\ \A i \in 1 .. Len(more) : i <= s
    BY <1>1, <1>2
  <2> QED
    BY <1>2, <1>3, <1>4, <2>1 DEF RebuiltAt
<1>6. Rebuilt(longer, more) = RebuiltFrom(longer, more, s, k)
  BY <1>5, RebuiltIs DEF more
<1>7. SubSeq(more, k, s - 1) = SubSeq(list, k, Len(list))
  <2>1. more = list \o <<id>> /\ <<id>> \in Seq(S) /\ s - 1 = Len(list) /\ Len(list) \in 0 .. Len(list)
    BY <1>0, <1>1, AppendIsConcat DEF more
  <2> QED
    BY <1>1, <2>1, PartsOfConcat
<1>8. SubSeq(more, s + 1, Len(more)) = <<>>
  <2>1. s + 1 \in Int /\ Len(more) \in Int /\ Len(more) < s + 1
    BY <1>1, <1>2
  <2> QED
    BY <2>1, SubSeqEmpty
<1>9. SubSeq(list, k, Len(list)) \in Seq(1 .. Len(log))
  BY <1>0, <1>1, SubSeqIs
<1>11. <<id>> \o SubSeq(list, k, Len(list)) \in Seq(S)
  <2>1. 1 .. Len(log) \subseteq S
    BY <1>0
  <2>2. SubSeq(list, k, Len(list)) \in Seq(S)
    BY <1>9, <2>1, SeqMonotonic
  <2>3. <<id>> \in Seq(S)
    BY <1>0
  <2> QED
    BY <2>2, <2>3, ConcatProperties
<1>12. Rebuilt(longer, more) = (<<id>> \o SubSeq(list, k, Len(list))) \o <<>>
  BY <1>2, <1>6, <1>7, <1>8 DEF RebuiltFrom
<1>13. Rebuilt(longer, more) = <<id>> \o SubSeq(list, k, Len(list))
  BY <1>11, <1>12, ConcatEmptySeq
<1> QED
  BY <1>3, <1>13 DEF more, Compacted

-----------------------------------------------------------------------------
(* What the steps do to the messages.                                       *)

MsgInv ==
    /\ said \in Logs /\ context \in Seq(Ids) /\ missed \subseteq Ids
    /\ Branch(said, saved)

Extended == \E n \in Nat : Longer(said, said', n)

StaysKeepable == \A id : Keepable(said, saved, id) => Keepable(said', saved', id)

\* n messages end, none of them a summary: they are all saved, or all missed.
Adds(n) ==
    /\ Longer(said, said', n)
    /\ \A i \in Len(said) + 1 .. Len(said') : said'[i].kind # "summary"
    /\ context' = context \o NumbersAfter(Len(said), n)
    /\ \/ saved' = saved \o NumbersAfter(Len(said), n) /\ missed' = missed
       \/ saved' = saved /\ missed' = missed \cup (Len(said) + 1 .. Len(said'))

\* A summary is saved and the context built again.
Compacts == \E kept \in Ids, retry \in BOOLEAN :
    Keepable(said, saved, kept) /\ AppendCompaction(kept, retry)

\* The context may lose the reply at its end.
Trims == UNCHANGED <<said, saved, missed>> /\ context' \in {context, WithoutReply}

LEMMA NumbersAre ==
  ASSUME NEW k \in Nat, NEW n \in Nat, NEW top \in Nat, k + n <= top
  PROVE  /\ NumbersAfter(k, n) \in Seq(1 .. top) /\ Len(NumbersAfter(k, n)) = n
         /\ \A i \in 1 .. n : NumbersAfter(k, n)[i] = k + i
<1>1. \A i \in 1 .. n : k + i \in 1 .. top
  OBVIOUS
<1> QED
  BY <1>1 DEF NumbersAfter

LEMMA LongerIs ==
  ASSUME MsgInv, NEW n \in Nat, Longer(said, said', n)
  PROVE  /\ Len(said) \in Nat /\ Len(said') = Len(said) + n /\ said' \in Logs
         /\ Ids = 1 .. Len(said) /\ Ids' = 1 .. Len(said') /\ Ids \subseteq Ids'
         /\ \A i \in Ids : said'[i] = said[i]
         /\ context \in Seq(Ids') /\ saved \in Seq(Ids')
         /\ context \in Seq(Ids) /\ saved \in Seq(Ids)
<1>1. /\ Len(said) \in Nat /\ Len(said') = Len(said) + n /\ said' \in Logs
      /\ Ids = 1 .. Len(said) /\ Ids' = 1 .. Len(said')
  BY DEF MsgInv, Longer, Ids, Logs
<1>2. Ids \subseteq Ids' /\ \A i \in Ids : said'[i] = said[i]
  BY <1>1 DEF Longer
<1>3. context \in Seq(Ids) /\ saved \in Seq(Ids)
  BY <1>1 DEF MsgInv, Branch
<1> QED
  BY <1>1, <1>2, <1>3, SeqMonotonic

LEMMA AddsKeeps ==
  ASSUME MsgInv, NEW n \in Nat, Adds(n)
  PROVE  MsgInv' /\ StaysKeepable /\ Extended
<1>1. Longer(said, said', n)
  BY DEF Adds
<1>2. /\ Len(said) \in Nat /\ Len(said') = Len(said) + n /\ said' \in Logs
      /\ Ids = 1 .. Len(said) /\ Ids' = 1 .. Len(said') /\ Ids \subseteq Ids'
      /\ context \in Seq(Ids') /\ saved \in Seq(Ids')
  BY <1>1, LongerIs
<1>3. NumbersAfter(Len(said), n) \in Seq(Ids')
  BY <1>2, NumbersAre
<1>4. context' \in Seq(Ids')
  BY <1>2, <1>3, ConcatProperties DEF Adds
<1>5. missed' \subseteq Ids'
  <2>1. Len(said) + 1 .. Len(said') \subseteq Ids' /\ missed \subseteq Ids
    BY <1>2 DEF MsgInv
  <2> QED
    BY <1>2, <2>1 DEF Adds
<1>6. \A i \in Len(said) + 1 .. Len(said') : said'[i].kind # "summary"
  BY DEF Adds
<1>7. Branch(said, saved)
  BY DEF MsgInv
<1>8. \E m \in Nat : Joins(said, said', saved, saved', m)
  <2>1. NumbersAfter(Len(said), 0) = <<>>
    BY DEF NumbersAfter
  <2>2. saved = saved \o <<>>
    BY <1>2, ConcatEmptySeq
  <2>3. CASE saved' = saved
    <3>1. Joins(said, said', saved, saved', 0)
      BY <1>6, <2>1, <2>2, <2>3 DEF Joins
    <3> QED
      BY <3>1
  <2>4. CASE saved' = saved \o NumbersAfter(Len(said), n)
    <3>1. n = Len(said') - Len(said)
      BY <1>2
    <3>2. Joins(said, said', saved, saved', n)
      BY <1>6, <2>4, <3>1 DEF Joins
    <3> QED
      BY <3>2
  <2> QED
    BY <2>3, <2>4 DEF Adds
<1>10. Branch(said', saved') /\ \A id : Keepable(said, saved, id) => Keepable(said', saved', id)
  BY <1>1, <1>7, <1>8, BranchGrows
<1> QED
  BY <1>1, <1>2, <1>4, <1>5, <1>10 DEF MsgInv, StaysKeepable, Extended

LEMMA CompactsKeeps ==
  ASSUME MsgInv, NEW kept \in Ids, NEW retry \in BOOLEAN, Keepable(said, saved, kept),
         AppendCompaction(kept, retry)
  PROVE  /\ MsgInv' /\ StaysKeepable /\ Extended /\ Longer(said, said', 1)
         /\ said'[Len(said) + 1] = Message("summary", kept)
         /\ saved' = Append(saved, Len(said) + 1) /\ missed' = missed
         /\ Rebuilt(said', saved') \in Seq(Ids') /\ Rebuilt(said', saved') # <<>>
         /\ context' = IF retry /\ said'[Last(Rebuilt(said', saved'))].kind \in Errors
                       THEN Front(Rebuilt(said', saved')) ELSE Rebuilt(said', saved')
         /\ \E k \in 1 .. Len(saved) :
                /\ said[saved[k]].kind \notin {"summary", "result"}
                /\ Rebuilt(said', saved') =
                    <<Len(said) + 1>> \o SubSeq(saved, k, Len(saved))
<1> DEFINE id == Len(said) + 1
           rebuilt == Rebuilt(said', saved')
<1>1. /\ said \in Logs /\ Len(said) \in Nat /\ Ids = 1 .. Len(said) /\ kept \in Nat
      /\ Branch(said, saved) /\ saved \in Seq(Ids)
  BY DEF MsgInv, Ids, Branch, Logs
<1>2. Message("summary", kept) \in [kind : MessageKinds, ref : Nat]
  BY <1>1 DEF Message, MessageKinds
<1>3. said' = Append(said, Message("summary", kept)) /\ saved' = Append(saved, id)
      /\ missed' = missed
  BY DEF AppendCompaction
<1>4. /\ Longer(said, said', 1) /\ said'[id] = Message("summary", kept) /\ Len(said') = id
  BY <1>1, <1>2, <1>3, AppendProperties DEF Longer, Logs
<1>5. saved' = saved \o NumbersAfter(Len(said), 1)
  <2>1. NumbersAfter(Len(said), 1) = <<id>>
    BY <1>1 DEF NumbersAfter
  <2>2. saved \in Seq(Nat) /\ id \in Nat
    <3>1. Ids \subseteq Nat
      BY <1>1
    <3> QED
      BY <1>1, <3>1, SeqMonotonic
  <2> QED
    BY <1>3, <2>1, <2>2, AppendIsConcat
<1>6. said'[id].kind = "summary" /\ said'[id].ref = kept
  BY <1>4 DEF Message
<1>8. Branch(said', saved') /\ \A x : Keepable(said, saved, x) => Keepable(said', saved', x)
  <2>1. Len(said') - Len(said) = 1
    BY <1>1, <1>4
  <2>2. \A i \in Len(said) + 1 .. Len(said') : said'[i].ref = kept
    BY <1>1, <1>4, <1>6
  <2>3. Joins(said, said', saved, saved', 1)
    BY <1>5, <2>1, <2>2 DEF Joins
  <2> QED
    BY <1>1, <1>4, <2>3, BranchGrows
<1>9. /\ Ids \subseteq Ids' /\ Ids' = 1 .. Len(said')
  BY <1>4, LongerIs
<1>10. \E k \in 1 .. Len(saved) :
                /\ said[saved[k]].kind \notin {"summary", "result"}
                /\ rebuilt = <<id>> \o SubSeq(saved, k, Len(saved))
  <2>1. Branch(said', Append(saved, id)) /\ Keepable(said, saved, said'[id].ref)
    BY <1>3, <1>6, <1>8
  <2>2. id = Len(said) + 1
    OBVIOUS
  <2> HIDE DEF id
  <2>3. Compacted(said, saved, id, Rebuilt(said', Append(saved, id)))
    <3>1. Branch(said, saved) /\ Longer(said, said', 1) /\ said'[id].kind = "summary"
      BY <1>1, <1>4, <1>6
    <3> QED
      BY <2>1, <2>2, <3>1, RebuiltSummary
  <2> QED
    BY <1>3, <2>3 DEF Compacted
<1>11. rebuilt \in Seq(Ids')
  BY <1>8, <1>9, RebuiltTypes
<1>12. rebuilt # <<>>
  <2>1. PICK k \in 1 .. Len(saved) :
            rebuilt = <<id>> \o SubSeq(saved, k, Len(saved))
    BY <1>10
  <2>2. SubSeq(saved, k, Len(saved)) \in Seq(Ids)
    BY <1>1, SubSeqIs
  <2>3. SubSeq(saved, k, Len(saved)) \in Seq(Nat) /\ <<id>> \in Seq(Nat)
    <3>1. Ids \subseteq Nat
      BY <1>1
    <3>2. id \in Nat
      BY <1>1
    <3>3. <<id>> \in Seq(Nat)
      BY <3>2
    <3>4. SubSeq(saved, k, Len(saved)) \in Seq(Nat)
      BY <2>2, <3>1, SeqMonotonic
    <3> QED
      BY <3>3, <3>4
  <2>4. <<id>> # <<>>
    OBVIOUS
  <2> QED
    BY <2>1, <2>3, <2>4, ConcatEqualIffEmpty
<1>13. context' = IF retry /\ said'[Last(rebuilt)].kind \in Errors THEN Front(rebuilt) ELSE rebuilt
  BY <1>3 DEF AppendCompaction
<1>14. context' \in Seq(Ids')
  BY <1>11, <1>12, <1>13, FrontIs
<1>15. missed' \subseteq Ids'
  BY <1>3, <1>9 DEF MsgInv
<1> QED
  BY <1>3, <1>4, <1>8, <1>10, <1>11, <1>12, <1>13, <1>14, <1>15
     DEF MsgInv, StaysKeepable, Extended, Longer

LEMMA TrimsKeeps ==
  ASSUME MsgInv, Trims
  PROVE  MsgInv' /\ StaysKeepable /\ Extended
<1>1. said' = said /\ saved' = saved /\ missed' = missed /\ Ids' = Ids
  BY DEF Trims, Ids
<1>2. WithoutReply \in Seq(Ids)
  BY FrontIs DEF WithoutReply, EndsWith, MsgInv
<1>3. context' \in Seq(Ids')
  BY <1>1, <1>2 DEF Trims, MsgInv
<1>4. Longer(said, said', 0)
  BY <1>1 DEF Longer, MsgInv, Logs
<1> QED
  BY <1>1, <1>3, <1>4 DEF MsgInv, StaysKeepable, Extended

LEMMA SayAdds ==
  ASSUME MsgInv, NEW kind \in MessageKinds \ {"summary"}, NEW ref \in Nat, Say(kind, ref)
  PROVE  /\ Adds(1) /\ said'[Len(said) + 1] = Message(kind, ref)
         /\ context' = Append(context, Len(said) + 1)
<1>1. said \in Logs /\ Len(said) \in Nat /\ context \in Seq(Nat) /\ saved \in Seq(Nat)
  <2>1. said \in Logs /\ Len(said) \in Nat /\ Ids \subseteq Nat
    BY DEF MsgInv, Logs, Ids
  <2>2. context \in Seq(Ids) /\ saved \in Seq(Ids)
    BY DEF MsgInv, Branch, Ids
  <2> QED
    BY <2>1, <2>2, SeqMonotonic
<1>2. Message(kind, ref) \in [kind : MessageKinds, ref : Nat] /\ Message(kind, ref).kind = kind
  BY DEF Message
<1>3. said' = Append(said, Message(kind, ref)) /\ context' = Append(context, Len(said) + 1)
      /\ \/ saved' = Append(saved, Len(said) + 1) /\ missed' = missed
         \/ saved' = saved /\ missed' = missed \cup {Len(said) + 1}
  BY DEF Say
<1>4. /\ Longer(said, said', 1) /\ said'[Len(said) + 1] = Message(kind, ref)
      /\ Len(said') = Len(said) + 1
  BY <1>1, <1>2, <1>3, AppendProperties DEF Longer, Logs
<1>5. NumbersAfter(Len(said), 1) = <<Len(said) + 1>>
  BY <1>1 DEF NumbersAfter
<1>6. /\ Append(context, Len(said) + 1) = context \o NumbersAfter(Len(said), 1)
      /\ Append(saved, Len(said) + 1) = saved \o NumbersAfter(Len(said), 1)
  <2>1. Len(said) + 1 \in Nat
    BY <1>1
  <2> QED
    BY <1>1, <1>5, <2>1, AppendIsConcat
<1>7. Len(said) + 1 .. Len(said') = {Len(said) + 1}
  BY <1>1, <1>4
<1>8. \A i \in Len(said) + 1 .. Len(said') : said'[i].kind # "summary"
  BY <1>2, <1>4, <1>7
<1> QED
  BY <1>3, <1>4, <1>6, <1>7, <1>8 DEF Adds

LEMMA RecordAdds ==
  ASSUME MsgInv, NEW kind \in {"bash", "custom"}, NEW n \in Nat, Record(kind, n)
  PROVE  Adds(n) /\ \A i \in Len(said) + 1 .. Len(said') : said'[i].kind = kind
<1> DEFINE new == [i \in 1 .. n |-> Message(kind, 0)]
<1>1. said \in Logs /\ Len(said) \in Nat
  BY DEF MsgInv, Logs
<1>2. Message(kind, 0) \in [kind : MessageKinds, ref : Nat] /\ Message(kind, 0).kind = kind
  BY DEF Message, MessageKinds
<1>3. /\ new \in Seq([kind : MessageKinds, ref : Nat]) /\ Len(new) = n
      /\ \A i \in 1 .. n : new[i].kind = kind
  BY <1>2
<1>4. said' = said \o new
  BY DEF Record
<1> HIDE DEF new
<1>5. /\ said' \in Logs /\ Len(said') = Len(said) + n
      /\ \A i \in 1 .. Len(said) + n : said'[i] = IF i <= Len(said) THEN said[i] ELSE new[i - Len(said)]
  BY <1>1, <1>3, <1>4, ConcatProperties DEF Logs
<1>6. \A i \in 1 .. Len(said) : said'[i] = said[i]
  BY <1>1, <1>5
<1>7. ASSUME NEW i \in Len(said) + 1 .. Len(said') PROVE said'[i].kind = kind
  <2>1. i \in 1 .. Len(said) + n /\ ~ (i <= Len(said)) /\ i - Len(said) \in 1 .. n
    BY <1>1, <1>5
  <2> QED
    BY <1>3, <1>5, <2>1
<1>8. NewIds(n) = NumbersAfter(Len(said), n)
  BY DEF NewIds, NumbersAfter
<1>9. Longer(said, said', n)
  BY <1>5, <1>6 DEF Longer
<1> QED
  BY <1>7, <1>8, <1>9 DEF Adds, Record

\* The message just said is the last one of the context.
SpokenLast ==
    /\ context' # <<>> /\ Last(context') = Len(said') /\ Len(said') = Len(said) + 1
    /\ Len(said') \notin Ids

LEMMA SayIsLast ==
  ASSUME MsgInv, NEW kind \in MessageKinds \ {"summary"}, NEW ref \in Nat, Say(kind, ref)
  PROVE  SpokenLast /\ said'[Len(said')].kind = kind
<1> DEFINE id == Len(said) + 1
<1>1. Adds(1) /\ said'[id] = Message(kind, ref) /\ context' = Append(context, id)
  BY SayAdds
<1>2. Len(said') = id /\ Len(said) \in Nat /\ context \in Seq(Ids') /\ Ids = 1 .. Len(said)
      /\ Ids' = 1 .. Len(said')
  BY <1>1, LongerIs DEF Adds
<1>3. id \in Ids' /\ id \notin Ids
  BY <1>2
<1>4. /\ Len(Append(context, id)) = Len(context) + 1 /\ Append(context, id) \in Seq(Ids')
      /\ Append(context, id)[Len(context) + 1] = id
  BY <1>2, <1>3, AppendProperties
<1> HIDE DEF id
<1>5. Append(context, id) # <<>> /\ Last(Append(context, id)) = id
  BY <1>2, <1>4 DEF Last
<1> QED
  BY <1>1, <1>2, <1>3, <1>5 DEF SpokenLast, Message, id

-----------------------------------------------------------------------------
(* Types.                                                                   *)

\* What a compaction under way keeps first is still there.
KeptKnown ==
    /\ \A p \in Prompts : work[p].kept # 0 => Keepable(said, saved, work[p].kept)
    /\ manual.at = "summarizing" => Keepable(said, saved, manual.kept)

BatchHasCalls == run.at = "batch" => \E i \in DOMAIN said : Kind(i) = "calls"
BashCounted == pendingBash <= hostCalls

DInv == TypeOK /\ Branch(said, saved) /\ KeptKnown /\ BatchHasCalls /\ BashCounted

Works == [msg : 0 .. Len(said), kept : 0 .. Len(said), retry : BOOLEAN]
Manuals == [at : {"ready", "waiting", "preparing", "summarizing", "done"},
            kept : 0 .. Len(said), aborted : BOOLEAN]

LEMMA DInvIs ==
  ASSUME DInv
  PROVE  /\ MsgInv /\ said \in Logs /\ Len(said) \in Nat /\ Ids = 1 .. Len(said)
         /\ steering \in Seq(Queueable) /\ followUp \in Seq(Queueable)
         /\ shown \in [steer : Seq(Texts), follow : Seq(Texts)]
         /\ injecting \in Seq(Queueable \cup Prompts)
         /\ late \subseteq sent /\ sent \subseteq Queueable
         /\ lastAssistant \in 0 .. Len(said) /\ retries \in 0 .. MaxRetries
         /\ work \in [Prompts -> Works]
         /\ pendingBash \in 0 .. MaxHost /\ hostCalls \in 0 .. MaxHost
         /\ manual \in Manuals /\ pc \in [Prompts -> PromptStages]
<1>1. /\ MsgInv /\ said \in Logs /\ Len(said) \in Nat /\ Ids = 1 .. Len(said)
      /\ steering \in Seq(Queueable) /\ followUp \in Seq(Queueable)
      /\ shown \in [steer : Seq(Texts), follow : Seq(Texts)]
      /\ injecting \in Seq(Queueable \cup Prompts)
      /\ late \subseteq sent /\ sent \subseteq Queueable
  BY DEF DInv, TypeOK, DataTypes, MsgInv, Logs, Ids
<1>2. /\ lastAssistant \in 0 .. Len(said) /\ retries \in 0 .. MaxRetries
      /\ work \in [Prompts -> Works]
      /\ pendingBash \in 0 .. MaxHost /\ hostCalls \in 0 .. MaxHost
      /\ manual \in Manuals /\ pc \in [Prompts -> PromptStages]
  BY DEF DInv, TypeOK, DataTypes, ControlTypes, Works, Manuals
<1> QED
  BY <1>1, <1>2

LEMMA FirstKeptIs ==
  ASSUME MsgInv, NEW kept \in FirstKept
  PROVE  kept \in Ids /\ Keepable(said, saved, kept)
<1>1. saved \in Seq(Ids)
  BY DEF MsgInv, Branch, Ids
<1>2. \E j \in DOMAIN saved : kept = saved[j] /\ Kind(saved[j]) \notin {"summary", "result"}
  BY DEF FirstKept
<1> QED
  BY <1>1, <1>2 DEF Keepable, Kind

LEMMA CheckEffect ==
  ASSUME DInv, NEW p \in Prompts, NEW m, NEW skip, NEW compacting, NEW otherwise,
         CheckCompaction(p, m, skip, compacting, otherwise)
  PROVE  /\ Go(p, compacting) \/ Go(p, otherwise)
         /\ \E w \in Works : /\ work' = [work EXCEPT ![p] = w] /\ w.msg = 0
                             /\ w.kept # 0 => Keepable(said, saved, w.kept)
         /\ context' \in {context, WithoutReply}
         /\ overflowTried' \in BOOLEAN /\ compactor' \subseteq Prompts
<1>1. PICK plan \in CompactionPlans(m, skip) :
        IF plan = "none"
        THEN /\ pc' = [pc EXCEPT ![p] = otherwise]
             /\ work' = [work EXCEPT ![p] = NoWork]
             /\ UNCHANGED <<context, overflowTried, compactor>>
        ELSE /\ pc' = [pc EXCEPT ![p] = compacting]
             /\ context' = IF plan = "retry" THEN WithoutReply ELSE context
             /\ overflowTried' = (overflowTried \/ plan = "retry")
             /\ compactor' = IF FirstKept = {} THEN compactor ELSE {p}
             /\ \E kept \in IF FirstKept = {} THEN {0} ELSE FirstKept :
                    work' = [work EXCEPT ![p] =
                             [msg |-> 0, kept |-> kept, retry |-> plan = "retry"]]
  BY DEF CheckCompaction
<1>2. overflowTried \in BOOLEAN /\ compactor \subseteq Prompts
  BY DEF DInv, TypeOK, ControlTypes
<1>3. CASE plan = "none"
  <2>1. NoWork \in Works /\ NoWork.msg = 0 /\ NoWork.kept = 0
    BY DInvIs DEF NoWork, Works
  <2> QED
    BY <1>1, <1>2, <1>3, <2>1 DEF Go
<1>4. CASE plan # "none"
  <2>1. PICK kept \in IF FirstKept = {} THEN {0} ELSE FirstKept :
            work' = [work EXCEPT ![p] = [msg |-> 0, kept |-> kept, retry |-> plan = "retry"]]
    BY <1>1, <1>4
  <2>2. kept = 0 \/ (kept \in Ids /\ Keepable(said, saved, kept))
    BY <2>1, DInvIs, FirstKeptIs
  <2> DEFINE w == [msg |-> 0, kept |-> kept, retry |-> plan = "retry"]
  <2>3. kept \in 0 .. Len(said) /\ 0 \in 0 .. Len(said)
    BY <2>2, DInvIs
  <2>4. w \in Works /\ w.msg = 0 /\ w.kept = kept
    BY <2>3 DEF Works
  <2>5. \E x \in Works : /\ work' = [work EXCEPT ![p] = x] /\ x.msg = 0
                         /\ x.kept # 0 => Keepable(said, saved, x.kept)
    BY <2>1, <2>2, <2>4
  <2>6. /\ Go(p, compacting) /\ context' \in {context, WithoutReply}
        /\ overflowTried' \in BOOLEAN /\ compactor' \subseteq Prompts
    BY <1>1, <1>2, <1>4 DEF Go
  <2> QED
    BY <2>5, <2>6
<1> QED
  BY <1>3, <1>4

\* The steps in which the context may be trimmed.
CheckSteps(p) == Prompt(p) \/ PostRun(p) \/ RetryWake(p)

LEMMA CheckTrims ==
  ASSUME DInv, NEW p \in Prompts, CheckSteps(p)
  PROVE  Trims
<1>1. CASE Prompt(p)
  BY <1>1, CheckEffect DEF Prompt, Trims
<1>2. CASE PostRun(p)
  BY <1>2, CheckEffect DEF PostRun, Trims
<1>3. CASE RetryWake(p)
  BY <1>3, CheckEffect DEF RetryWake, Trims
<1> QED
  BY <1>1, <1>2, <1>3 DEF CheckSteps

LEMMA InjectAdds ==
  ASSUME DInv, Inject
  PROVE  IF injecting = <<>> THEN UNCHANGED messages
         ELSE \E kind \in {"user", "custom"} : Say(kind, 0)
BY DEF Inject

LEMMA CallsKnown ==
  ASSUME DInv, run.at = "batch"
  PROVE  Max({i \in DOMAIN said : Kind(i) = "calls"}) \in Nat
<1> DEFINE S == {i \in DOMAIN said : Kind(i) = "calls"}
<1>1. DOMAIN said = 1 .. Len(said) /\ Len(said) \in Nat
  BY DInvIs DEF Logs
<1>2. S \in SUBSET Nat /\ S # {} /\ \A x \in S : x <= Len(said)
  BY <1>1 DEF DInv, BatchHasCalls
<1>3. Max(S) \in S
  BY <1>1, <1>2, MaxIs
<1> QED
  BY <1>2, <1>3

\* The steps in which messages end.
Speaks(kind, ref) ==
    /\ kind \in MessageKinds \ {"summary"} /\ ref \in Nat /\ Say(kind, ref)
    /\ kind = "result" => run.at = "batch" /\ ref = Max({i \in DOMAIN said : Kind(i) = "calls"})
    /\ kind \in Assistant => run.at = "turn"
    /\ connected' = connected /\ active' = active /\ pc' = pc /\ work' = work

LEMMA RunMessages ==
  ASSUME DInv, RunStep
  PROVE  UNCHANGED messages \/ \E kind, ref : Speaks(kind, ref)
<1>0. /\ {"user", "custom", "result"} \subseteq MessageKinds \ {"summary"}
      /\ {"user", "custom", "result"} \cap Assistant = {}
      /\ Answers \cup {"aborted"} \subseteq MessageKinds \ {"summary", "result"}
  BY SessionAssumption DEF MessageKinds, Assistant, AllAnswers
<1>1. UNCHANGED <<connected, active, pc, work>>
  BY DEF RunStep, BeginRun, BeginTurn, Poll, Answer, Execute, stages
<1>2. CASE BeginRun \/ BeginTurn
  BY <1>0, <1>1, <1>2, InjectAdds DEF BeginRun, BeginTurn, Speaks
<1>3. CASE Poll
  BY <1>3 DEF Poll
<1>4. ASSUME NEW kind \in Answers \cup {"aborted"}, Answer(kind)
      PROVE  \E k, ref : Speaks(k, ref)
  BY <1>0, <1>1, <1>4 DEF Answer, Speaks
<1>5. ASSUME NEW next, Execute(next)
      PROVE  \E k, ref : Speaks(k, ref)
  BY <1>0, <1>1, <1>5, CallsKnown DEF Execute, Speaks
<1> QED
  BY <1>2, <1>3, <1>4, <1>5 DEF RunStep

LEMMA CompactionMessages ==
  ASSUME DInv, NEW b \in BOOLEAN, EndManual(b) \/ \E p \in Prompts : EndCompaction(p, b)
  PROVE  UNCHANGED messages \/ Compacts
<1>1. CASE EndManual(b)
  <2>1. CASE b
    <3>1. Keepable(said, saved, manual.kept) /\ AppendCompaction(manual.kept, FALSE)
      BY <1>1, <2>1 DEF EndManual, DInv, KeptKnown
    <3>2. \E j \in DOMAIN saved : saved[j] = manual.kept
      BY <3>1 DEF Keepable
    <3>3. saved \in Seq(Ids)
      BY DEF DInv, Branch, Ids
    <3>4. manual.kept \in Ids
      BY <3>2, <3>3
    <3> QED
      BY <3>1, <3>4 DEF Compacts
  <2>2. CASE ~b
    BY <1>1, <2>2 DEF EndManual
  <2> QED
    BY <2>1, <2>2
<1>2. ASSUME NEW p \in Prompts, EndCompaction(p, b)
      PROVE  UNCHANGED messages \/ Compacts
  <2>1. CASE b
    <3>1. /\ Keepable(said, saved, work[p].kept)
          /\ AppendCompaction(work[p].kept, work[p].retry)
      BY <1>2, <2>1 DEF EndCompaction, DInv, KeptKnown
    <3>2. \E j \in DOMAIN saved : saved[j] = work[p].kept
      BY <3>1 DEF Keepable
    <3>3. saved \in Seq(Ids)
      BY DEF DInv, Branch, Ids
    <3>4. work[p].kept \in Ids
      BY <3>2, <3>3
    <3>5. work[p].retry \in BOOLEAN
      BY DInvIs DEF Works
    <3> QED
      BY <3>1, <3>4, <3>5 DEF Compacts
  <2>2. CASE ~b
    BY <1>2, <2>2 DEF EndCompaction
  <2> QED
    BY <2>1, <2>2
<1> QED
  BY <1>1, <1>2

\* Between the runs messages are recorded.
LEMMA RecordMessages ==
  ASSUME DInv, Host \/ \E p \in Prompts : Settle(p)
  PROVE  \/ UNCHANGED messages
         \/ \E n \in Nat, kind \in {"bash", "custom"} :
                Record(kind, n) /\ (~active \/ \E p \in Prompts : Settle(p))
<1>1. CASE Host
  BY <1>1 DEF Host, Steer, FollowUp, Custom, Abort, ClearQueue, Compact, AbortCompaction,
              RecordBashResult
<1>2. ASSUME NEW p \in Prompts, Settle(p) PROVE \E n \in Nat : Record("bash", n)
  BY <1>2, DInvIs DEF Settle
<1> QED
  BY <1>1, <1>2

LEMMA OtherMessages ==
  ASSUME \/ PrepareManual
         \/ \E p \in Prompts : Trigger(p) \/ StartRun(p) \/ Finish(p) \/ Continue(p) \/ Settled(p)
  PROVE  UNCHANGED messages
BY DEF PrepareManual, Trigger, StartRun, RunAgentPrompt, Finish, Continue, Settled

\* Whatever happens to the messages, the branch keeps its order, and what a
\* compaction keeps stays.
LEMMA StepMessages ==
  ASSUME DInv, [Next]_vars
  PROVE  MsgInv' /\ StaysKeepable /\ Extended
<1>0. MsgInv
  BY DInvIs
<1>1. CASE UNCHANGED messages
  <2>1. Trims
    BY <1>1 DEF messages, Trims
  <2> QED
    BY <1>0, <2>1, TrimsKeeps
<1>2. CASE Trims
  BY <1>0, <1>2, TrimsKeeps
<1>3. ASSUME NEW n \in Nat, Adds(n) PROVE MsgInv' /\ StaysKeepable /\ Extended
  BY <1>0, <1>3, AddsKeeps
<1>4. CASE Compacts
  BY <1>0, <1>4, CompactsKeeps DEF Compacts
<1>5. CASE RunStep
  BY <1>0, <1>1, <1>3, <1>5, RunMessages, SayAdds DEF Speaks
<1>6. CASE Host \/ \E p \in Prompts : Settle(p)
  BY <1>0, <1>1, <1>3, <1>6, RecordMessages, RecordAdds
<1>7. ASSUME NEW b \in BOOLEAN, EndManual(b) \/ \E p \in Prompts : EndCompaction(p, b)
      PROVE  MsgInv' /\ StaysKeepable /\ Extended
  BY <1>1, <1>4, <1>7, CompactionMessages
<1>8. ASSUME NEW p \in Prompts, CheckSteps(p) PROVE MsgInv' /\ StaysKeepable /\ Extended
  BY <1>2, <1>8, CheckTrims
<1>9. CASE \/ PrepareManual
           \/ \E p \in Prompts : Trigger(p) \/ StartRun(p) \/ Finish(p) \/ Continue(p) \/ Settled(p)
  BY <1>1, <1>9, OtherMessages
<1>10. CASE UNCHANGED vars
  BY <1>1, <1>10 DEF vars
<1> QED
  BY <1>5, <1>6, <1>7, <1>8, <1>9, <1>10 DEF Next, PromptStep, ManualStep, CheckSteps


\* The queues, what is shown of them and what has been sent.
QueueTypes ==
    /\ steering \in Seq(Queueable) /\ followUp \in Seq(Queueable)
    /\ shown \in [steer : Seq(Texts), follow : Seq(Texts)]
    /\ injecting \in Seq(Queueable \cup Prompts)
    /\ late \subseteq sent /\ sent \subseteq Queueable

LEMMA Drains ==
  ASSUME NEW S, NEW T, S \subseteq T, NEW queue \in Seq(S)
  PROVE  Drained(queue) \in Seq(T) /\ Remaining(queue) \in Seq(S) /\ Drained(queue) \in Seq(S)
<1>1. CASE queue = <<>>
  BY <1>1 DEF Drained, Remaining
<1>2. CASE queue # <<>>
  <2>1. Head(queue) \in S /\ Tail(queue) \in Seq(S)
    BY <1>2
  <2> QED
    BY <1>2, <2>1 DEF Drained, Remaining
<1> QED
  BY <1>1, <1>2

LEMMA InjectTypes ==
  ASSUME DInv, Inject
  PROVE  shown' \in [steer : Seq(Texts), follow : Seq(Texts)] /\ overflowTried' \in BOOLEAN
<1>1. shown \in [steer : Seq(Texts), follow : Seq(Texts)] /\ overflowTried \in BOOLEAN
  BY DEF DInv, TypeOK, DataTypes, ControlTypes
<1>2. \A m : RemoveFirst(shown.steer, m) \in Seq(Texts) /\ RemoveFirst(shown.follow, m) \in Seq(Texts)
  BY <1>1, RemoveFirstTypes
<1>3. \/ shown' = shown
      \/ \E m : shown' = [shown EXCEPT !.steer = RemoveFirst(@, m)]
      \/ \E m : shown' = [shown EXCEPT !.follow = RemoveFirst(@, m)]
  BY DEF Inject
<1>4. overflowTried' \in BOOLEAN
  BY <1>1 DEF Inject
<1> QED
  BY <1>1, <1>2, <1>3, <1>4

LEMMA QueueTypesKept ==
  ASSUME DInv, [Next]_vars
  PROVE  QueueTypes'
<1>0. /\ steering \in Seq(Queueable) /\ followUp \in Seq(Queueable)
      /\ shown \in [steer : Seq(Texts), follow : Seq(Texts)]
      /\ injecting \in Seq(Queueable \cup Prompts)
      /\ late \subseteq sent /\ sent \subseteq Queueable
  BY DInvIs
<1>d. /\ Drained(steering) \in Seq(Queueable \cup Prompts) /\ Remaining(steering) \in Seq(Queueable)
      /\ Drained(followUp) \in Seq(Queueable \cup Prompts) /\ Remaining(followUp) \in Seq(Queueable)
  BY <1>0, Drains
<1> USE DEF QueueTypes
<1>1. ASSUME NEW p \in Prompts, Prompt(p) \/ Trigger(p) \/ PromptStep(p) PROVE QueueTypes'
  <2>1. CASE Trigger(p) \/ StartRun(p)
    <3>1. UNCHANGED <<steering, followUp, shown, late, sent>> /\ injecting' \in {injecting, <<p>>}
      BY <2>1 DEF Trigger, StartRun, RunAgentPrompt, queues
    <3>2. <<p>> \in Seq(Queueable \cup Prompts)
      OBVIOUS
    <3> QED
      BY <1>0, <3>1, <3>2
  <2>2. CASE Continue(p)
    <3>1. /\ steering' \in {steering, Remaining(steering)}
          /\ followUp' \in {followUp, Remaining(followUp)}
          /\ injecting' \in {injecting, <<>>, Drained(steering), Drained(followUp)}
          /\ UNCHANGED <<shown, sent, late>>
      BY <2>2 DEF Continue
    <3>2. <<>> \in Seq(Queueable \cup Prompts)
      OBVIOUS
    <3>3. injecting' \in Seq(Queueable \cup Prompts)
      BY <1>0, <1>d, <3>1, <3>2
    <3>4. steering' \in Seq(Queueable) /\ followUp' \in Seq(Queueable)
      BY <1>0, <1>d, <3>1
    <3> QED
      BY <1>0, <3>1, <3>3, <3>4
  <2>3. CASE \/ Prompt(p) \/ Finish(p) \/ PostRun(p) \/ RetryWake(p) \/ Settle(p) \/ Settled(p)
             \/ \E b \in BOOLEAN : EndCompaction(p, b)
    <3>1. UNCHANGED <<queues, injecting>>
      BY <2>3 DEF Prompt, Finish, PostRun, RetryWake, Settle, Settled, EndCompaction
    <3> QED
      BY <1>0, <3>1 DEF queues
  <2> QED
    BY <1>1, <2>1, <2>2, <2>3 DEF PromptStep
<1>2. CASE RunStep
  <2>1. CASE BeginRun \/ BeginTurn
    <3>1. shown' \in [steer : Seq(Texts), follow : Seq(Texts)]
      BY <2>1, InjectTypes DEF BeginRun, BeginTurn
    <3>2. /\ UNCHANGED <<followUp, late, sent>> /\ steering' \in {steering, Remaining(steering)}
          /\ injecting' \in {<<>>, Drained(steering)}
      BY <2>1 DEF BeginRun, BeginTurn
    <3>3. <<>> \in Seq(Queueable \cup Prompts)
      OBVIOUS
    <3>4. injecting' \in Seq(Queueable \cup Prompts) /\ steering' \in Seq(Queueable)
      BY <1>0, <1>d, <3>2, <3>3
    <3> QED
      BY <1>0, <3>1, <3>2, <3>4
  <2>2. CASE Poll
    BY <1>0, <1>d, <2>2 DEF Poll
  <2>3. ASSUME NEW kind, Answer(kind) PROVE QueueTypes'
    BY <1>0, <2>3 DEF Answer, queues
  <2>4. ASSUME NEW next, Execute(next) PROVE QueueTypes'
    BY <1>0, <2>4 DEF Execute, queues
  <2> QED
    BY <1>2, <2>1, <2>2, <2>3, <2>4 DEF RunStep
<1>3. CASE ManualStep
  <2>1. UNCHANGED <<queues, injecting>>
    BY <1>3 DEF ManualStep, PrepareManual, EndManual
  <2> QED
    BY <1>0, <2>1 DEF queues
<1>4. CASE Host
  <2>1. ASSUME NEW m \in Texts, Steer(m) \/ FollowUp(m) PROVE QueueTypes'
    <3>1. m \in Queueable /\ late' \subseteq sent' /\ sent' \subseteq Queueable /\ injecting' = injecting
      BY <1>0, <2>1 DEF Steer, FollowUp, Sent, Queueable
    <3>2. CASE Steer(m)
      <4>1. /\ shown' = [shown EXCEPT !.steer = Append(@, m)] /\ followUp' = followUp
            /\ steering' = Append(steering, m)
        BY <3>2 DEF Steer
      <4>2. Append(shown.steer, m) \in Seq(Texts) /\ Append(steering, m) \in Seq(Queueable)
        BY <1>0, <3>1, AppendProperties
      <4> QED
        BY <1>0, <3>1, <4>1, <4>2
    <3>3. CASE FollowUp(m)
      <4>1. /\ shown' = [shown EXCEPT !.follow = Append(@, m)] /\ steering' = steering
            /\ followUp' = Append(followUp, m)
        BY <3>3 DEF FollowUp
      <4>2. Append(shown.follow, m) \in Seq(Texts) /\ Append(followUp, m) \in Seq(Queueable)
        BY <1>0, <3>1, AppendProperties
      <4> QED
        BY <1>0, <3>1, <4>1, <4>2
    <3> QED
      BY <2>1, <3>2, <3>3
  <2>2. ASSUME NEW m \in Customs, Custom(m) PROVE QueueTypes'
    <3>1. m \in Queueable /\ late' \subseteq sent' /\ sent' \subseteq Queueable
      BY <1>0, <2>2 DEF Custom, Sent, Queueable
    <3>2. UNCHANGED <<followUp, shown, injecting>> /\ steering' \in {steering, Append(steering, m)}
      BY <2>2 DEF Custom
    <3>3. Append(steering, m) \in Seq(Queueable)
      BY <1>0, <3>1, AppendProperties
    <3> QED
      BY <1>0, <3>1, <3>2, <3>3
  <2>3. CASE ClearQueue
    BY <1>0, <2>3 DEF ClearQueue
  <2>4. CASE (\E a \in Aborts : Abort(a)) \/ Compact \/ AbortCompaction \/ RecordBashResult
    <3>1. UNCHANGED <<queues, injecting>>
      BY <2>4 DEF Abort, Compact, AbortCompaction, RecordBashResult
    <3> QED
      BY <1>0, <3>1 DEF queues
  <2> QED
    BY <1>4, <2>1, <2>2, <2>3, <2>4 DEF Host
<1>5. CASE UNCHANGED vars
  BY <1>0, <1>5 DEF vars, queues
<1> QED
  BY <1>1, <1>2, <1>3, <1>4, <1>5 DEF Next

\* Stages and flags, and the counters.
FlagsOK ==
    /\ run \in [at : RunStages, aborted : BOOLEAN]
    /\ aborting \in [Aborts -> {"ready", "waiting", "done"}]
    /\ active \in BOOLEAN /\ connected \in BOOLEAN /\ overflowTried \in BOOLEAN
    /\ sleeper \subseteq Prompts /\ compactor \subseteq Prompts /\ cancelled \subseteq Prompts
    /\ pc \in [Prompts -> PromptStages]

StageMoved(p) == \E stage \in PromptStages : pc' = [pc EXCEPT ![p] = stage]

LEMMA StagesKept ==
  ASSUME DInv, NEW p \in Prompts, Prompt(p) \/ Trigger(p) \/ PromptStep(p)
  PROVE  StageMoved(p)
<1>1. {"preCompact", "checked", "running", "post", "sleeping", "postCompact", "continuing",
       "ending", "settling", "done", AfterRun} \subseteq PromptStages
  BY DEF PromptStages, AfterRun
<1> USE DEF StageMoved
<1>2. CASE Prompt(p)
  <2>1. CheckCompaction(p, LastReply, FALSE, "preCompact", "checked")
    BY <1>2 DEF Prompt
  <2>2. Go(p, "preCompact") \/ Go(p, "checked")
    BY <2>1, CheckEffect
  <2> QED
    BY <1>1, <2>2 DEF Go
<1>3. CASE Trigger(p) \/ StartRun(p)
  BY <1>1, <1>3 DEF Trigger, StartRun, RunAgentPrompt, Go
<1>4. CASE Finish(p) \/ Settle(p) \/ Settled(p)
  BY <1>1, <1>4 DEF Finish, Settle, Settled, Go
<1>5. CASE PostRun(p)
  <2>1. CASE WillRetry(lastAssistant)
    BY <1>1, <1>5, <2>1 DEF PostRun, Go
  <2>2. CASE ~ WillRetry(lastAssistant)
    <3> DEFINE next == IF lastAssistant = 0 THEN "ending" ELSE AfterRun
    <3>1. CheckCompaction(p, lastAssistant, TRUE, "postCompact", next)
      BY <1>5, <2>2 DEF PostRun
    <3>2. next \in PromptStages
      BY <1>1
    <3> HIDE DEF next
    <3>3. Go(p, "postCompact") \/ Go(p, next)
      BY <3>1, CheckEffect
    <3> QED
      BY <1>1, <3>2, <3>3 DEF Go
  <2> QED
    BY <2>1, <2>2
<1>6. CASE RetryWake(p)
  <2>1. CASE p \in cancelled
    <3>1. CheckCompaction(p, work[p].msg, TRUE, "postCompact", AfterRun)
      BY <1>6, <2>1 DEF RetryWake
    <3>2. Go(p, "postCompact") \/ Go(p, AfterRun)
      BY <3>1, CheckEffect
    <3> QED
      BY <1>1, <3>2 DEF Go
  <2>2. CASE p \notin cancelled
    BY <1>1, <1>6, <2>2 DEF RetryWake, Go
  <2> QED
    BY <2>1, <2>2
<1>7. ASSUME NEW b \in BOOLEAN, EndCompaction(p, b) PROVE StageMoved(p)
  BY <1>1, <1>7 DEF EndCompaction, Go
<1>8. CASE Continue(p)
  BY <1>1, <1>8 DEF Continue, Go
<1> QED
  BY <1>2, <1>3, <1>4, <1>5, <1>6, <1>7, <1>8 DEF PromptStep

LEMMA FlagsKept ==
  ASSUME DInv, [Next]_vars
  PROVE  FlagsOK'
<1>0. FlagsOK
  BY DEF DInv, TypeOK, ControlTypes, FlagsOK
<1> USE DEF FlagsOK
<1>r. /\ NoRun \in [at : RunStages, aborted : BOOLEAN]
      /\ [at |-> "prompting", aborted |-> FALSE] \in [at : RunStages, aborted : BOOLEAN]
      /\ [at |-> "turn", aborted |-> FALSE] \in [at : RunStages, aborted : BOOLEAN]
      /\ [run EXCEPT !.aborted = TRUE] \in [at : RunStages, aborted : BOOLEAN]
      /\ \A stage \in RunStages : [run EXCEPT !.at = stage] \in [at : RunStages, aborted : BOOLEAN]
      /\ {"turn", "batch", "called", "answered", "ended"} \subseteq RunStages
  BY <1>0 DEF NoRun, RunStages
<1>1. ASSUME NEW p \in Prompts, Prompt(p) \/ Trigger(p) \/ PromptStep(p) PROVE FlagsOK'
  <2>1. pc' \in [Prompts -> PromptStages]
    <3>1. PICK stage \in PromptStages : pc' = [pc EXCEPT ![p] = stage]
      BY <1>1, StagesKept DEF StageMoved
    <3> QED
      BY <1>0, <3>1
  <2>2. CASE Prompt(p)
    BY <1>0, <2>1, <2>2, CheckEffect DEF Prompt, calls
  <2>3. CASE Trigger(p) \/ StartRun(p)
    BY <1>0, <1>r, <2>1, <2>3 DEF Trigger, StartRun, RunAgentPrompt, control, calls
  <2>4. CASE Finish(p)
    BY <1>0, <1>r, <2>1, <2>4 DEF Finish, control, calls
  <2>5. CASE PostRun(p)
    <3>1. overflowTried' \in BOOLEAN /\ compactor' \subseteq Prompts /\ sleeper' \subseteq Prompts
      <4>1. CASE WillRetry(lastAssistant)
        BY <1>0, <2>5, <4>1 DEF PostRun
      <4>2. CASE ~ WillRetry(lastAssistant)
        <5>1. CheckCompaction(p, lastAssistant, TRUE, "postCompact",
                              IF lastAssistant = 0 THEN "ending" ELSE AfterRun)
          BY <2>5, <4>2 DEF PostRun
        <5>2. overflowTried' \in BOOLEAN /\ compactor' \subseteq Prompts
          BY <5>1, CheckEffect
        <5> QED
          BY <1>0, <2>5, <4>2, <5>2 DEF PostRun
      <4> QED
        BY <4>1, <4>2
    <3> QED
      BY <1>0, <2>1, <2>5, <3>1 DEF PostRun, calls
  <2>6. CASE RetryWake(p)
    <3>1. overflowTried' \in BOOLEAN /\ compactor' \subseteq Prompts
      BY <1>0, <2>6, CheckEffect DEF RetryWake
    <3> QED
      BY <1>0, <2>1, <2>6, <3>1 DEF RetryWake, calls
  <2>7. ASSUME NEW b \in BOOLEAN, EndCompaction(p, b) PROVE FlagsOK'
    BY <1>0, <2>1, <2>7 DEF EndCompaction, control, calls
  <2>8. CASE Continue(p)
    BY <1>0, <1>r, <2>1, <2>8 DEF Continue, control, calls
  <2>9. CASE Settle(p)
    BY <1>0, <2>1, <2>9 DEF Settle, control, calls
  <2>10. CASE Settled(p)
    BY <1>0, <2>1, <2>10 DEF Settled, control, calls
  <2> QED
    BY <1>1, <2>2, <2>3, <2>4, <2>5, <2>6, <2>7, <2>8, <2>9, <2>10 DEF PromptStep
<1>2. CASE RunStep
  <2>1. CASE BeginRun \/ BeginTurn
    BY <1>0, <1>r, <2>1, InjectTypes DEF BeginRun, BeginTurn, RunAt, stages, calls
  <2>2. CASE Poll
    BY <1>0, <1>r, <2>2 DEF Poll, RunAt, stages, calls, control
  <2>3. ASSUME NEW kind, Answer(kind) PROVE FlagsOK'
    <3>1. overflowTried' \in BOOLEAN
      BY <1>0, <2>3 DEF Answer, control
    <3>2. run' \in [at : RunStages, aborted : BOOLEAN]
      BY <1>r, <2>3 DEF Answer, RunAt
    <3> QED
      BY <1>0, <2>3, <3>1, <3>2 DEF Answer, stages, calls
  <2>4. ASSUME NEW next \in {"called", "answered"}, Execute(next) PROVE FlagsOK'
    BY <1>0, <1>r, <2>4 DEF Execute, RunAt, stages, calls, control
  <2> QED
    BY <1>2, <2>1, <2>2, <2>3, <2>4 DEF RunStep
<1>3. CASE ManualStep
  BY <1>0, <1>3 DEF ManualStep, PrepareManual, EndManual, stages, control
<1>4. CASE Host
  <2>1. CASE (\E m \in Texts : Steer(m) \/ FollowUp(m)) \/ (\E m \in Customs : Custom(m))
             \/ ClearQueue \/ RecordBashResult
    BY <1>0, <2>1 DEF Steer, FollowUp, Custom, ClearQueue, RecordBashResult, stages, control, calls
  <2>2. ASSUME NEW a \in Aborts, Abort(a) PROVE FlagsOK'
    BY <1>0, <1>r, <2>2 DEF Abort, StopWork, UntilIdle, control
  <2>3. CASE Compact \/ AbortCompaction
    BY <1>0, <1>r, <2>3 DEF Compact, AbortCompaction, StopWork, control
  <2> QED
    BY <1>4, <2>1, <2>2, <2>3 DEF Host
<1>5. CASE UNCHANGED vars
  BY <1>0, <1>5 DEF vars, control, stages, calls
<1> QED
  BY <1>1, <1>2, <1>3, <1>4, <1>5 DEF Next


LEMMA Growing ==
  ASSUME DInv, [Next]_vars
  PROVE  /\ Len(said') \in Nat /\ Len(said) \in Nat /\ Len(said) <= Len(said')
         /\ Ids \subseteq Ids' /\ Works \subseteq Works' /\ Manuals \subseteq Manuals'
         /\ 0 .. Len(said) \subseteq 0 .. Len(said') /\ \A i \in Ids : said'[i] = said[i]
<1>1. MsgInv /\ Extended
  BY DInvIs, StepMessages
<1>2. PICK n \in Nat : Longer(said, said', n)
  BY <1>1 DEF Extended
<1>3. /\ Len(said) \in Nat /\ Len(said') = Len(said) + n /\ Ids \subseteq Ids'
      /\ \A i \in Ids : said'[i] = said[i]
  BY <1>1, <1>2, LongerIs
<1>4. 0 .. Len(said) \subseteq 0 .. Len(said') /\ Len(said') \in Nat /\ Len(said) <= Len(said')
  BY <1>3
<1>5. Works \subseteq Works' /\ Manuals \subseteq Manuals'
  BY <1>4 DEF Works, Manuals
<1> QED
  BY <1>3, <1>4, <1>5

WorkMoved(p) == \E w \in Works :
    /\ work' = [work EXCEPT ![p] = w]
    /\ w.kept # 0 => Keepable(said, saved, w.kept)
    /\ w.msg # 0 => Kind(w.msg) = "failed"

LEMMA WorkSteps ==
  ASSUME DInv, NEW p \in Prompts, Prompt(p) \/ Trigger(p) \/ PromptStep(p)
  PROVE  work' = work \/ WorkMoved(p)
<1>1. NoWork \in Works /\ NoWork.kept = 0 /\ NoWork.msg = 0
      /\ [NoWork EXCEPT !.msg = lastAssistant] \in Works
      /\ [NoWork EXCEPT !.msg = lastAssistant].msg = lastAssistant
      /\ [NoWork EXCEPT !.msg = lastAssistant].kept = 0
  <2>1. lastAssistant \in 0 .. Len(said) /\ 0 \in 0 .. Len(said)
    BY DInvIs
  <2> QED
    BY <2>1 DEF NoWork, Works
<1>2. ASSUME NEW m, NEW skip, NEW compacting, NEW otherwise,
             CheckCompaction(p, m, skip, compacting, otherwise)
      PROVE  WorkMoved(p)
  BY <1>2, CheckEffect DEF WorkMoved
<1>3. CASE Prompt(p)
  BY <1>2, <1>3 DEF Prompt
<1>4. CASE Trigger(p) \/ StartRun(p) \/ Finish(p) \/ Continue(p) \/ Settle(p) \/ Settled(p)
  BY <1>4 DEF Trigger, StartRun, RunAgentPrompt, Finish, Continue, Settle, Settled
<1>5. CASE PostRun(p)
  BY <1>1, <1>2, <1>5 DEF PostRun, WorkMoved, WillRetry
<1>6. CASE RetryWake(p)
  BY <1>1, <1>2, <1>6 DEF RetryWake, WorkMoved
<1>7. ASSUME NEW b \in BOOLEAN, EndCompaction(p, b) PROVE WorkMoved(p)
  BY <1>1, <1>7 DEF EndCompaction, WorkMoved
<1> QED
  BY <1>3, <1>4, <1>5, <1>6, <1>7 DEF PromptStep

LEMMA WorkHolds ==
  ASSUME DInv, [Next]_vars
  PROVE  work' = work \/ \E p \in Prompts : WorkMoved(p)
<1>1. ASSUME NEW p \in Prompts, Prompt(p) \/ Trigger(p) \/ PromptStep(p)
      PROVE  work' = work \/ WorkMoved(p)
  BY <1>1, WorkSteps
<1>2. RunStep => work' = work
  BY DEF RunStep, BeginRun, BeginTurn, Poll, Answer, Execute, stages
<1>3. ManualStep => work' = work
  BY DEF ManualStep, PrepareManual, EndManual, stages
<1>4. Host => work' = work
  BY DEF Host, Steer, FollowUp, Custom, Abort, ClearQueue, Compact, AbortCompaction,
         RecordBashResult, stages
<1>5. UNCHANGED vars => work' = work
  BY DEF vars, stages
<1> QED
  BY <1>1, <1>2, <1>3, <1>4, <1>5 DEF Next

LEMMA WorkKept ==
  ASSUME DInv, [Next]_vars
  PROVE  /\ work' \in [Prompts -> Works']
         /\ \A p \in Prompts : work'[p].kept # 0 => Keepable(said', saved', work'[p].kept)
<1>0. /\ work \in [Prompts -> Works] /\ Works \subseteq Works' /\ StaysKeepable
      /\ \A p \in Prompts : work[p].kept # 0 => Keepable(said, saved, work[p].kept)
  BY DInvIs, Growing, StepMessages DEF DInv, KeptKnown
<1>1. CASE work' = work
  BY <1>0, <1>1 DEF StaysKeepable
<1>2. ASSUME NEW p \in Prompts, WorkMoved(p)
      PROVE  /\ work' \in [Prompts -> Works']
             /\ \A q \in Prompts : work'[q].kept # 0 => Keepable(said', saved', work'[q].kept)
  <2>1. PICK w \in Works : work' = [work EXCEPT ![p] = w]
                           /\ (w.kept # 0 => Keepable(said, saved, w.kept))
    BY <1>2 DEF WorkMoved
  <2>2. /\ work' \in [Prompts -> Works'] /\ work'[p] = w
        /\ \A q \in Prompts \ {p} : work'[q] = work[q]
    BY <1>0, <2>1
  <2>3. ASSUME NEW q \in Prompts, work'[q].kept # 0
        PROVE  Keepable(said', saved', work'[q].kept)
    <3>1. CASE q = p
      BY <1>0, <2>1, <2>2, <2>3, <3>1 DEF StaysKeepable
    <3>2. CASE q # p
      BY <1>0, <2>2, <2>3, <3>2 DEF StaysKeepable
    <3> QED
      BY <3>1, <3>2
  <2> QED
    BY <2>2, <2>3
<1> QED
  BY <1>1, <1>2, WorkHolds

LEMMA ManualKept ==
  ASSUME DInv, [Next]_vars
  PROVE  /\ manual' \in Manuals'
         /\ manual'.at = "summarizing" => Keepable(said', saved', manual'.kept)
<1>0. /\ manual \in Manuals /\ Manuals \subseteq Manuals' /\ StaysKeepable /\ MsgInv
      /\ manual.at = "summarizing" => Keepable(said, saved, manual.kept)
      /\ Ids = 1 .. Len(said) /\ Len(said) \in Nat
  BY DInvIs, Growing, StepMessages DEF DInv, KeptKnown
<1>1. CASE manual' = manual
  BY <1>0, <1>1 DEF StaysKeepable
<1>2. ASSUME manual' \in Manuals,
             manual'.at = "summarizing" => Keepable(said, saved, manual'.kept)
      PROVE  /\ manual' \in Manuals'
             /\ manual'.at = "summarizing" => Keepable(said', saved', manual'.kept)
  BY <1>0, <1>2 DEF StaysKeepable
<1>3. ASSUME NEW p \in Prompts, Prompt(p) \/ Trigger(p) \/ PromptStep(p)
      PROVE  manual' = manual \/ (manual'.at # "summarizing" /\ manual' \in Manuals)
  <2>1. CASE Settled(p)
    BY <1>0, <2>1 DEF Settled, calls, Manuals
  <2>2. CASE Prompt(p) \/ Trigger(p) \/ StartRun(p) \/ Finish(p) \/ PostRun(p) \/ RetryWake(p)
    BY <2>2 DEF Prompt, Trigger, StartRun, RunAgentPrompt, Finish, PostRun, RetryWake, calls
  <2>3. CASE Continue(p) \/ Settle(p) \/ \E b \in BOOLEAN : EndCompaction(p, b)
    BY <2>3 DEF Continue, Settle, EndCompaction, calls
  <2> QED
    BY <1>3, <2>1, <2>2, <2>3 DEF PromptStep
<1>4. CASE RunStep
  BY <1>1, <1>4 DEF RunStep, BeginRun, BeginTurn, Poll, Answer, Execute, calls
<1>5. CASE PrepareManual
  <2>1. PICK kept \in FirstKept : manual' = [manual EXCEPT !.at = "summarizing", !.kept = kept]
    BY <1>5 DEF PrepareManual
  <2>2. kept \in 0 .. Len(said) /\ Keepable(said, saved, kept)
    <3>1. kept \in Ids /\ Keepable(said, saved, kept)
      BY <1>0, FirstKeptIs
    <3> QED
      BY <1>0, <3>1
  <2>3. manual' \in Manuals /\ manual'.kept = kept
    BY <1>0, <2>1, <2>2 DEF Manuals
  <2> QED
    BY <1>2, <2>2, <2>3
<1>6. ASSUME NEW b \in BOOLEAN, EndManual(b)
      PROVE  manual'.at # "summarizing" /\ manual' \in Manuals
  BY <1>0, <1>6 DEF EndManual, Manuals
<1>7. CASE Host
  <2>1. CASE \/ \E m \in Texts : Steer(m) \/ FollowUp(m)
             \/ \E m \in Customs : Custom(m)
             \/ \E a \in Aborts : Abort(a)
             \/ ClearQueue \/ RecordBashResult
    BY <1>1, <2>1 DEF Steer, FollowUp, Custom, Abort, ClearQueue, RecordBashResult, calls
  <2>2. CASE Compact
    <3>1. manual' = [manual EXCEPT !.at = "waiting"] \/ manual' = [manual EXCEPT !.at = "preparing"]
      BY <2>2 DEF Compact, UntilIdle
    <3>2. manual' \in Manuals /\ manual'.at # "summarizing"
      BY <1>0, <3>1 DEF Manuals
    <3> QED
      BY <1>2, <3>2
  <2>3. CASE AbortCompaction
    <3>1. manual' = manual \/ manual' = [manual EXCEPT !.aborted = TRUE]
      BY <2>3 DEF AbortCompaction
    <3>2. manual' \in Manuals /\ manual'.at = manual.at /\ manual'.kept = manual.kept
      BY <1>0, <3>1 DEF Manuals
    <3> QED
      BY <1>0, <1>2, <3>2
  <2> QED
    BY <1>7, <2>1, <2>2, <2>3 DEF Host
<1>8. CASE UNCHANGED vars
  BY <1>1, <1>8 DEF vars, calls
<1> QED
  BY <1>1, <1>2, <1>3, <1>4, <1>5, <1>6, <1>7, <1>8 DEF Next, ManualStep

LEMMA CountsKept ==
  ASSUME DInv, [Next]_vars
  PROVE  /\ lastAssistant' \in 0 .. Len(said') /\ retries' \in 0 .. MaxRetries
         /\ pendingBash' \in 0 .. MaxHost /\ hostCalls' \in 0 .. MaxHost
         /\ pendingBash' <= hostCalls' /\ (~active' => pendingBash' = 0)
<1>0. /\ lastAssistant \in 0 .. Len(said) /\ retries \in 0 .. MaxRetries /\ MaxRetries \in Nat
      /\ pendingBash \in 0 .. MaxHost /\ hostCalls \in 0 .. MaxHost /\ MaxHost \in Nat
      /\ pendingBash <= hostCalls /\ (~active => pendingBash = 0)
      /\ Len(said') \in Nat /\ 0 .. Len(said) \subseteq 0 .. Len(said')
      /\ active \in BOOLEAN
  BY DInvIs, Growing, SessionAssumption DEF DInv, TypeOK, ControlTypes, BashCounted
<1> DEFINE Bash == /\ pendingBash' \in 0 .. MaxHost /\ hostCalls' \in 0 .. MaxHost
                   /\ pendingBash' <= hostCalls' /\ (~active' => pendingBash' = 0)
           Nums == lastAssistant' \in 0 .. Len(said') /\ retries' \in 0 .. MaxRetries
<1>1. ASSUME UNCHANGED <<pendingBash, hostCalls>>, active' \in {active, TRUE} PROVE Bash
  BY <1>0, <1>1
<1>2. ASSUME lastAssistant' \in {0, lastAssistant, Len(said')},
             retries' \in {0, retries} \/ (retries' = retries + 1 /\ retries < MaxRetries)
      PROVE  Nums
  BY <1>0, <1>2
<1> SUFFICES Bash /\ Nums
  OBVIOUS
<1> HIDE DEF Bash, Nums
<1>3. ASSUME NEW p \in Prompts, Prompt(p) \/ Trigger(p) \/ PromptStep(p) PROVE Bash /\ Nums
  <2>1. CASE Prompt(p) \/ Trigger(p) \/ StartRun(p) \/ Finish(p)
    BY <1>1, <1>2, <2>1 DEF Prompt, Trigger, StartRun, RunAgentPrompt, Finish, control
  <2>2. CASE PostRun(p) \/ RetryWake(p)
    BY <1>1, <1>2, <2>2 DEF PostRun, RetryWake, WillRetry
  <2>3. CASE Continue(p) \/ Settled(p) \/ \E b \in BOOLEAN : EndCompaction(p, b)
    BY <1>1, <1>2, <2>3 DEF Continue, Settled, EndCompaction, control
  <2>4. CASE Settle(p)
    <3>1. Nums
      BY <1>2, <2>4 DEF Settle, control
    <3>2. Bash
      BY <1>0, <2>4 DEF Settle, Bash
    <3> QED
      BY <3>1, <3>2
  <2> QED
    BY <1>3, <2>1, <2>2, <2>3, <2>4 DEF PromptStep
<1>4. CASE RunStep
  <2>1. CASE BeginRun \/ BeginTurn \/ Poll
    BY <1>1, <1>2, <2>1 DEF BeginRun, BeginTurn, Poll, control
  <2>2. ASSUME NEW kind, Answer(kind) PROVE Bash /\ Nums
    BY <1>1, <1>2, <2>2 DEF Answer, control
  <2>3. ASSUME NEW next, Execute(next) PROVE Bash /\ Nums
    BY <1>1, <1>2, <2>3 DEF Execute, control
  <2> QED
    BY <1>4, <2>1, <2>2, <2>3 DEF RunStep
<1>5. CASE ManualStep
  BY <1>1, <1>2, <1>5 DEF ManualStep, PrepareManual, EndManual, control
<1>6. CASE Host
  <2>1. hostCalls < MaxHost /\ hostCalls' = hostCalls + 1
    BY <1>6 DEF Host
  <2>2. Nums
    BY <1>2, <1>6 DEF Host, Steer, FollowUp, Custom, Abort, ClearQueue, Compact, AbortCompaction,
                      RecordBashResult, control
  <2>3. active' = active /\ (pendingBash' = pendingBash \/ (active /\ pendingBash' = pendingBash + 1))
    BY <1>6 DEF Host, Steer, FollowUp, Custom, Abort, ClearQueue, Compact, AbortCompaction,
                RecordBashResult
  <2>4. Bash
    BY <1>0, <2>1, <2>3 DEF Bash
  <2> QED
    BY <2>2, <2>4
<1>7. CASE UNCHANGED vars
  BY <1>1, <1>2, <1>7 DEF vars, control
<1> QED
  BY <1>3, <1>4, <1>5, <1>6, <1>7 DEF Next

\* Only an answer of the provider leads to a batch of calls.
LEMMA EntersBatch ==
  ASSUME DInv, [Next]_vars, run.at # "batch", run'.at = "batch"
  PROVE  \E kind \in Answers \cup {"aborted"} : Answer(kind)
<1>0. run \in [at : RunStages, aborted : BOOLEAN]
  BY DEF DInv, TypeOK, ControlTypes
<1>1. ASSUME NEW p \in Prompts, Prompt(p) \/ Trigger(p) \/ PromptStep(p) PROVE FALSE
  <2>1. run' \in {run, NoRun, [at |-> "prompting", aborted |-> FALSE],
                  [at |-> "turn", aborted |-> FALSE]}
    <3>1. CASE Prompt(p) \/ Trigger(p) \/ StartRun(p) \/ Finish(p)
      BY <3>1 DEF Prompt, Trigger, StartRun, RunAgentPrompt, Finish
    <3>2. CASE PostRun(p) \/ RetryWake(p) \/ Settled(p) \/ \E b \in BOOLEAN : EndCompaction(p, b)
      BY <3>2 DEF PostRun, RetryWake, Settled, EndCompaction
    <3>3. CASE Continue(p) \/ Settle(p)
      BY <3>3 DEF Continue, Settle
    <3> QED
      BY <1>1, <3>1, <3>2, <3>3 DEF PromptStep
  <2> QED
    BY <2>1 DEF NoRun
<1>2. CASE ManualStep \/ Host
  <2>1. run' = run \/ run' = [run EXCEPT !.aborted = TRUE]
    BY <1>2 DEF ManualStep, PrepareManual, EndManual, Host, Steer, FollowUp, Custom, Abort, StopWork,
                ClearQueue, Compact, AbortCompaction, RecordBashResult
  <2> QED
    BY <1>0, <2>1
<1>3. CASE BeginRun \/ BeginTurn \/ Poll
  BY <1>0, <1>3 DEF BeginRun, BeginTurn, Poll, RunAt
<1>4. ASSUME NEW next \in {"called", "answered"}, Execute(next) PROVE FALSE
  BY <1>0, <1>4 DEF Execute, RunAt
<1>5. CASE UNCHANGED vars
  BY <1>5 DEF vars
<1> QED
  BY <1>1, <1>2, <1>3, <1>4, <1>5 DEF Next, RunStep

LEMMA BatchKept ==
  ASSUME DInv, [Next]_vars
  PROVE  BatchHasCalls'
<1>0. /\ Len(said') \in Nat /\ Len(said) \in Nat /\ Len(said) <= Len(said') /\ MsgInv /\ MsgInv'
      /\ Ids = 1 .. Len(said) /\ \A i \in Ids : said'[i] = said[i]
  BY DInvIs, Growing, StepMessages
<1>1. DOMAIN said = 1 .. Len(said) /\ DOMAIN said' = 1 .. Len(said')
  BY <1>0 DEF MsgInv, Logs
<1>2. CASE run.at = "batch"
  <2>1. PICK i \in DOMAIN said : Kind(i) = "calls"
    BY <1>2 DEF DInv, BatchHasCalls
  <2>2. i \in DOMAIN said' /\ said'[i].kind = "calls"
    BY <1>0, <1>1, <2>1 DEF Kind
  <2> QED
    BY <2>2 DEF BatchHasCalls, Kind
<1>3. ASSUME run.at # "batch", run'.at = "batch"
      PROVE  \E kind \in Answers \cup {"aborted"} : Answer(kind)
  BY <1>3, EntersBatch
<1>4. ASSUME NEW kind \in Answers \cup {"aborted"}, Answer(kind), run'.at = "batch"
      PROVE  BatchHasCalls'
  <2>0. run \in [at : RunStages, aborted : BOOLEAN]
    BY DEF DInv, TypeOK, ControlTypes
  <2>1. kind = "calls"
    BY <1>4, <2>0 DEF Answer, RunAt
  <2>2. said' = Append(said, Message("calls", 0))
    BY <1>4, <2>1 DEF Answer, Say
  <2>3. Len(said) + 1 \in DOMAIN said' /\ said'[Len(said) + 1].kind = "calls"
    <3>1. said \in Seq([kind : MessageKinds, ref : Nat])
          /\ Message("calls", 0) \in [kind : MessageKinds, ref : Nat]
      BY <1>0 DEF MsgInv, Logs, Message, MessageKinds, Assistant, AllAnswers
    <3>2. Len(said') = Len(said) + 1 /\ said'[Len(said) + 1] = Message("calls", 0)
      BY <2>2, <3>1, AppendProperties
    <3> QED
      BY <1>0, <1>1, <3>2 DEF Message
  <2> QED
    BY <2>3 DEF BatchHasCalls, Kind
<1> QED
  BY <1>2, <1>3, <1>4 DEF BatchHasCalls

LEMMA InitDInv == Init => DInv
<1> SUFFICES ASSUME Init PROVE DInv
  OBVIOUS
<1>1. /\ said = <<>> /\ saved = <<>> /\ context = <<>> /\ Len(said) = 0 /\ DOMAIN saved = {}
      /\ DOMAIN said = {}
  BY DEF Init
<1>2. Branch(said, saved)
  BY <1>1 DEF Branch, Logs, Grows, SummariesKeep
<1>3. DataTypes
  BY <1>1, SessionAssumption DEF Init, DataTypes, Ids, NoWork
<1>4. ControlTypes
  <2>1. /\ \A p \in Prompts : pc[p] = "ready"
        /\ pc = [p \in Prompts |-> "ready"] /\ aborting = [a \in Aborts |-> "ready"]
        /\ manual = [at |-> "ready", kept |-> 0, aborted |-> FALSE] /\ run = NoRun
        /\ active = FALSE /\ connected = TRUE /\ overflowTried = FALSE
        /\ sleeper = {} /\ compactor = {} /\ cancelled = {}
    BY DEF Init
  <2>2. manual \in [at : {"ready", "waiting", "preparing", "summarizing", "done"},
                    kept : 0 .. Len(said), aborted : BOOLEAN]
    BY <1>1, <2>1
  <2> QED
    BY <2>1, <2>2 DEF ControlTypes, NoRun, RunStages, PromptStages
<1>5. KeptKnown /\ BatchHasCalls /\ BashCounted /\ (~active => pendingBash = 0)
  BY DEF Init, KeptKnown, BatchHasCalls, BashCounted, NoWork, NoRun
<1> QED
  BY <1>2, <1>3, <1>4, <1>5 DEF DInv, TypeOK

LEMMA StepDInv == DInv /\ [Next]_vars => DInv'
<1> SUFFICES ASSUME DInv, [Next]_vars PROVE DInv'
  OBVIOUS
<1>1. /\ MsgInv' /\ QueueTypes' /\ FlagsOK' /\ BatchHasCalls'
  BY StepMessages, QueueTypesKept, FlagsKept, BatchKept
<1>2. /\ lastAssistant' \in 0 .. Len(said') /\ retries' \in 0 .. MaxRetries
      /\ pendingBash' \in 0 .. MaxHost /\ hostCalls' \in 0 .. MaxHost
      /\ pendingBash' <= hostCalls' /\ (~active' => pendingBash' = 0)
  BY CountsKept
<1>3. /\ work' \in [Prompts -> Works'] /\ manual' \in Manuals' /\ KeptKnown'
  BY WorkKept, ManualKept DEF KeptKnown
<1>4. DataTypes'
  BY <1>1, <1>2, <1>3 DEF DataTypes, MsgInv, QueueTypes, Works, Logs, Branch, Ids
<1>5. ControlTypes'
  BY <1>1, <1>3 DEF ControlTypes, FlagsOK, Manuals
<1> QED
  BY <1>1, <1>2, <1>3, <1>4, <1>5 DEF DInv, TypeOK, MsgInv, BashCounted

\* Every variable keeps its type, however the calls overlap: among others every
\* message in the context and on the branch exists, and so does what every
\* compaction under way keeps first; bash results wait only during a run.
THEOREM TypeCorrect == Spec => []TypeOK
<1>1. DInv => TypeOK
  BY DEF DInv
<1> QED
  BY InitDInv, StepDInv, <1>1, PTL DEF Spec

-----------------------------------------------------------------------------
(* What the runs, the prompts and a manual compaction leave to each other.   *)

\* A manual compaction waits for the prompt that is active, and then no prompt
\* is under way.
ManualAlone ==
    /\ manual.at = "waiting" => \A p \in Prompts : pc[p] \notin {"preCompact", "checked"}
    /\ manual.at \in {"preparing", "summarizing"} => \A p \in Prompts : pc[p] \in Resting

AInv == IInv /\ DInv /\ ManualAlone

\* A step of a prompt that is under way.
UnderWay(p) ==
    \/ StartRun(p) \/ Finish(p) \/ PostRun(p) \/ RetryWake(p) \/ Continue(p) \/ Settle(p)
    \/ \E b \in BOOLEAN : EndCompaction(p, b)

LEMMA UnderWayIs ==
  ASSUME NEW p \in Prompts, UnderWay(p)
  PROVE  pc[p] \notin Resting /\ manual' = manual
<1>1. CASE StartRun(p) \/ Finish(p) \/ PostRun(p) \/ RetryWake(p)
  BY <1>1 DEF StartRun, RunAgentPrompt, Finish, PostRun, RetryWake, At, Resting, calls
<1>2. CASE Continue(p) \/ Settle(p) \/ \E b \in BOOLEAN : EndCompaction(p, b)
  BY <1>2 DEF Continue, Settle, EndCompaction, At, Resting, calls
<1> QED
  BY <1>1, <1>2 DEF UnderWay

\* The stage a prompt under way goes to.
LEMMA UnderWayGoes ==
  ASSUME DInv, NEW p \in Prompts, UnderWay(p)
  PROVE  /\ \A q \in Prompts \ {p} : pc'[q] = pc[q]
         /\ pc'[p] \in {"preCompact", "checked"} => pc[p] = "preCompact"
         /\ pc'[p] \in PromptStages
<1>0. pc \in [Prompts -> PromptStages]
  BY DInvIs
<1>1. PICK stage \in PromptStages : pc' = [pc EXCEPT ![p] = stage]
  BY StagesKept DEF UnderWay, PromptStep, StageMoved
<1>2. pc'[p] = stage /\ \A q \in Prompts \ {p} : pc'[q] = pc[q]
  BY <1>0, <1>1
<1>3. AfterRun \notin {"preCompact", "checked"}
  BY DEF AfterRun
<1>4. CASE StartRun(p) \/ Finish(p) \/ Settle(p) \/ Continue(p)
  <2>1. Go(p, "running") \/ Go(p, "ending") \/ Go(p, "post") \/ Go(p, "settling")
    BY <1>4 DEF StartRun, RunAgentPrompt, Finish, Settle, Continue
  <2> QED
    BY <1>0, <1>2, <2>1 DEF Go
<1>5. CASE PostRun(p)
  <2>1. CASE WillRetry(lastAssistant)
    BY <1>0, <1>2, <1>5, <2>1 DEF PostRun, Go
  <2>2. CASE ~ WillRetry(lastAssistant)
    <3> DEFINE next == IF lastAssistant = 0 THEN "ending" ELSE AfterRun
    <3>1. CheckCompaction(p, lastAssistant, TRUE, "postCompact", next)
      BY <1>5, <2>2 DEF PostRun
    <3>2. next \notin {"preCompact", "checked"}
      BY <1>3
    <3> HIDE DEF next
    <3>3. Go(p, "postCompact") \/ Go(p, next)
      BY <3>1, CheckEffect
    <3> QED
      BY <1>0, <1>2, <3>2, <3>3 DEF Go
  <2> QED
    BY <2>1, <2>2
<1>6. CASE RetryWake(p)
  <2>1. CASE p \in cancelled
    <3>1. CheckCompaction(p, work[p].msg, TRUE, "postCompact", AfterRun)
      BY <1>6, <2>1 DEF RetryWake
    <3>2. Go(p, "postCompact") \/ Go(p, AfterRun)
      BY <3>1, CheckEffect
    <3> QED
      BY <1>0, <1>2, <1>3, <3>2 DEF Go
  <2>2. CASE p \notin cancelled
    BY <1>0, <1>2, <1>6, <2>2 DEF RetryWake, Go
  <2> QED
    BY <2>1, <2>2
<1>7. ASSUME NEW b \in BOOLEAN, EndCompaction(p, b)
      PROVE  pc'[p] \in {"preCompact", "checked"} => pc[p] = "preCompact"
  BY <1>0, <1>2, <1>3, <1>7 DEF EndCompaction, Go, At
<1> QED
  BY <1>2, <1>4, <1>5, <1>6, <1>7 DEF UnderWay

LEMMA ManualAloneKept ==
  ASSUME AInv, ~Overlap, [Next]_vars
  PROVE  ManualAlone'
<1>0. /\ pc \in [Prompts -> PromptStages] /\ manual \in Manuals /\ ManualAlone
      /\ PromptStages \subseteq Resting \cup Working \cup {"preCompact", "checked"}
      /\ (~active => \A p \in Prompts : pc[p] \notin Working)
  <2>1. PromptStages \subseteq Resting \cup Working \cup {"preCompact", "checked"}
    BY DEF PromptStages, Resting, Working
  <2> QED
    BY <2>1, DInvIs DEF AInv, IInv, ActiveIsWorking
<1>1. CASE UNCHANGED pc /\ manual' = manual
  BY <1>0, <1>1 DEF ManualAlone
<1>2. ASSUME NEW p \in Prompts, Prompt(p) \/ Trigger(p) PROVE ManualAlone'
  <2>1. manual.at \in {"ready", "done"} /\ manual' = manual
    BY <1>2 DEF Prompt, Trigger, RunAgentPrompt, MayStart, calls
  <2> QED
    BY <2>1 DEF ManualAlone
<1>3. ASSUME NEW p \in Prompts, UnderWay(p) PROVE ManualAlone'
  <2>1. pc[p] \notin Resting /\ manual' = manual
    BY <1>3, UnderWayIs
  <2>2. manual'.at \notin {"preparing", "summarizing"}
    BY <1>0, <2>1 DEF ManualAlone
  <2>3. ASSUME manual'.at = "waiting", NEW q \in Prompts
        PROVE  pc'[q] \notin {"preCompact", "checked"}
    <3>1. pc[q] \notin {"preCompact", "checked"} /\ pc[p] \notin {"preCompact", "checked"}
      BY <1>0, <2>1, <2>3 DEF ManualAlone
    <3> QED
      BY <1>3, <3>1, UnderWayGoes DEF AInv
  <2> QED
    BY <2>2, <2>3 DEF ManualAlone
<1>4. ASSUME NEW p \in Prompts, Settled(p) PROVE ManualAlone'
  <2>1. pc[p] = "settling" /\ pc' = [pc EXCEPT ![p] = "done"]
    BY <1>4 DEF Settled, At, Go
  <2>2. \A q \in Prompts : pc'[q] = pc[q] \/ (pc[q] \in Resting /\ pc'[q] = "done")
    BY <1>0, <2>1 DEF Resting
  <2>3. "done" \in Resting /\ "done" \notin {"preCompact", "checked"}
    BY DEF Resting
  <2>4. CASE manual' = manual
    BY <1>0, <2>2, <2>3, <2>4 DEF ManualAlone
  <2>5. CASE manual' # manual
    <3>1. ~active /\ manual.at = "waiting" /\ manual' = [manual EXCEPT !.at = "preparing"]
      BY <1>4, <2>5 DEF Settled, calls
    <3>2. \A q \in Prompts : pc[q] \in Resting
      BY <1>0, <3>1 DEF ManualAlone
    <3>3. manual'.at = "preparing"
      BY <1>0, <3>1 DEF Manuals
    <3> QED
      BY <2>2, <2>3, <3>2, <3>3 DEF ManualAlone
  <2> QED
    BY <2>4, <2>5
<1>5. RunStep => UNCHANGED pc /\ manual' = manual
  BY DEF RunStep, BeginRun, BeginTurn, Poll, Answer, Execute, stages, calls
<1>6. CASE ManualStep
  <2>1. UNCHANGED pc
    BY <1>6 DEF ManualStep, PrepareManual, EndManual, stages
  <2>2. CASE PrepareManual
    <3>1. PICK kept \in FirstKept :
              manual' = [manual EXCEPT !.at = "summarizing", !.kept = kept]
      BY <2>2 DEF PrepareManual
    <3>2. manual'.at = "summarizing"
      BY <1>0, <3>1 DEF Manuals
    <3>3. \A p \in Prompts : pc[p] \in Resting
      BY <1>0, <2>2 DEF PrepareManual, ManualAlone
    <3> QED
      BY <2>1, <3>2, <3>3 DEF ManualAlone
  <2>3. ASSUME NEW b \in BOOLEAN, EndManual(b) PROVE ManualAlone'
    <3>1. manual'.at = "done"
      BY <2>3 DEF EndManual
    <3> QED
      BY <2>1, <3>1 DEF ManualAlone
  <2> QED
    BY <1>6, <2>2, <2>3 DEF ManualStep
<1>7. CASE Compact
  <2>1. /\ UNCHANGED pc /\ \A p \in Prompts : pc[p] \notin {"preCompact", "checked"}
        /\ manual' = [manual EXCEPT !.at = IF active THEN "waiting" ELSE "preparing"]
    BY <1>7 DEF Compact, UntilIdle
  <2>2. /\ manual'.at \in {"waiting", "preparing"}
        /\ manual'.at = "preparing" => \A p \in Prompts : pc[p] \in Resting
    BY <1>0, <2>1 DEF Manuals
  <2> QED
    BY <2>1, <2>2 DEF ManualAlone
<1>8. ASSUME Host, ~ Compact PROVE ManualAlone'
  <2>1. UNCHANGED pc /\ manual'.at = manual.at
    BY <1>0, <1>8 DEF Host, Steer, FollowUp, Custom, Abort, ClearQueue, AbortCompaction,
                      RecordBashResult, stages, calls, Manuals
  <2> QED
    BY <1>0, <2>1 DEF ManualAlone
<1>9. UNCHANGED vars => UNCHANGED pc /\ manual' = manual
  BY DEF vars, stages, calls
<1> QED
  BY <1>1, <1>2, <1>3, <1>4, <1>5, <1>6, <1>7, <1>8, <1>9 DEF Next, PromptStep, UnderWay

LEMMA InitAInv == Init => AInv
<1> SUFFICES ASSUME Init PROVE ManualAlone
  BY InitIInv, InitDInv DEF AInv
<1> QED
  BY DEF Init, ManualAlone

LEMMA StepAInv == ~Overlap /\ AInv /\ [Next]_vars => AInv'
BY StepIInv, StepDInv, ManualAloneKept DEF AInv

\* Nobody else touches the messages during a run and right after it.
Aside ==
    /\ UNCHANGED <<messages, lastAssistant, injecting>> /\ active' = active
    /\ run'.at = run.at /\ (connected' => connected)
    /\ \A p \in Prompts : pc'[p] = pc[p] \/ (pc[p] \in Resting /\ pc'[p] \in Resting)

LEMMA DuringRound ==
  ASSUME AInv, [Next]_vars, NEW r \in Prompts, pc[r] \in {"running", "post"}
  PROVE  RunStep \/ Finish(r) \/ PostRun(r) \/ Aside
<1>0. /\ run \in [at : RunStages, aborted : BOOLEAN] /\ pc \in [Prompts -> PromptStages]
      /\ IInv /\ DInv /\ ManualAlone
  BY DEF AInv, IInv, FlagTypes
<1>2. active /\ pc[r] \notin Resting /\ pc[r] \in Working
  BY <1>0 DEF Resting, Working, IInv, ActiveIsWorking
<1>3. ASSUME NEW p \in Prompts, Prompt(p) \/ Trigger(p) PROVE FALSE
  BY <1>2, <1>3 DEF Prompt, Trigger
<1>4. ASSUME NEW p \in Prompts, UnderWay(p) PROVE Finish(r) \/ PostRun(r)
  <2>1. pc[p] \notin Resting
    BY <1>4, UnderWayIs
  <2>2. p = r
    BY <1>0, <1>2, <2>1 DEF IInv, OneAtWork
  <2> QED
    BY <1>4, <2>2 DEF UnderWay, StartRun, RetryWake, Continue, Settle, EndCompaction, At
<1>5. ASSUME NEW p \in Prompts, Settled(p) PROVE Aside
  <2>1. pc[p] = "settling" /\ pc' = [pc EXCEPT ![p] = "done"]
    BY <1>5 DEF Settled, At, Go
  <2>2. \A q \in Prompts : pc'[q] = pc[q] \/ (pc[q] \in Resting /\ pc'[q] \in Resting)
    BY <1>0, <2>1 DEF Resting
  <2>3. UNCHANGED <<messages, connected, lastAssistant, injecting, active, run>>
    BY <1>5 DEF Settled, control
  <2> QED
    BY <2>2, <2>3 DEF Aside
<1>6. ManualStep => Aside
  <2>1. manual.at \notin {"preparing", "summarizing"}
    BY <1>0, <1>2 DEF ManualAlone
  <2> QED
    BY <2>1 DEF ManualStep, PrepareManual, EndManual
<1>7. CASE Host
  <2>1. /\ UNCHANGED <<lastAssistant, injecting, active, pc>> /\ (connected' => connected)
        /\ run' \in {run, [run EXCEPT !.aborted = TRUE]}
    BY <1>7 DEF Host, Steer, FollowUp, Custom, Abort, StopWork, ClearQueue, Compact,
                AbortCompaction, RecordBashResult, control, stages
  <2>2. UNCHANGED messages
    BY <1>2, <1>7 DEF Host, Steer, FollowUp, Custom, Abort, ClearQueue, Compact,
                      AbortCompaction, RecordBashResult
  <2>3. run'.at = run.at
    BY <1>0, <2>1
  <2> QED
    BY <2>1, <2>2, <2>3 DEF Aside
<1>8. UNCHANGED vars => Aside
  BY DEF vars, Aside, control, stages
<1> QED
  BY <1>3, <1>4, <1>5, <1>6, <1>7, <1>8 DEF Next, PromptStep, UnderWay

LEMMA DuringRun ==
  ASSUME AInv, [Next]_vars, run.at # "idle"
  PROVE  RunStep \/ (\E p \in Prompts : Finish(p)) \/ Aside
<1>1. PICK r \in Prompts : pc[r] = "running"
  BY DEF AInv, IInv, RunHasOwner
<1>2. ~ PostRun(r)
  BY <1>1 DEF PostRun, At
<1> QED
  BY <1>1, <1>2, DuringRound

-----------------------------------------------------------------------------
(* Results stand directly behind their calls.                               *)

\* ResultsStayWithCalls for one list.
Chained(log, list) ==
    \A i \in DOMAIN list : log[list[i]].kind = "result" =>
        i > 1 /\ list[i - 1] = log[list[i]].ref /\ log[list[i - 1]].kind = "calls"

LEMMA ChainedFront ==
  ASSUME NEW log, NEW S, NEW s \in Seq(S), NEW e \in S
  PROVE  Chained(log, Append(s, e)) <=>
            /\ Chained(log, s)
            /\ log[e].kind = "result" =>
                    s # <<>> /\ Last(s) = log[e].ref /\ log[Last(s)].kind = "calls"
<1> DEFINE t == Append(s, e)
           n == Len(s) + 1
<1>1. /\ Len(s) \in Nat /\ DOMAIN t = 1 .. n /\ DOMAIN s = 1 .. Len(s) /\ t[n] = e
      /\ \A i \in 1 .. Len(s) : t[i] = s[i] /\ i - 1 \in 0 .. Len(s) - 1
      /\ \A i \in 1 .. n : i \in 1 .. Len(s) \/ i = n
      /\ 1 .. Len(s) \subseteq 1 .. n /\ n \in 1 .. n
  OBVIOUS
<1>2. Last(s) = s[Len(s)] /\ (s # <<>> <=> Len(s) \in 1 .. Len(s)) /\ n - 1 = Len(s)
      /\ (n > 1 <=> s # <<>>)
  BY DEF Last
<1> HIDE DEF t, n
<1>3. ASSUME NEW i \in 1 .. Len(s), i > 1 PROVE t[i - 1] = s[i - 1]
  BY <1>1, <1>3
<1>4. s # <<>> => t[n - 1] = Last(s)
  BY <1>1, <1>2
<1>5. ASSUME Chained(log, t)
      PROVE  /\ Chained(log, s)
             /\ log[e].kind = "result" =>
                    s # <<>> /\ Last(s) = log[e].ref /\ log[Last(s)].kind = "calls"
  <2>1. Chained(log, s)
    BY <1>1, <1>3, <1>5 DEF Chained
  <2>2. log[t[n]].kind = "result" =>
            n > 1 /\ t[n - 1] = log[t[n]].ref /\ log[t[n - 1]].kind = "calls"
    BY <1>1, <1>5 DEF Chained
  <2> QED
    BY <1>1, <1>2, <1>4, <2>1, <2>2
<1>6. ASSUME Chained(log, s),
             log[e].kind = "result" =>
                    s # <<>> /\ Last(s) = log[e].ref /\ log[Last(s)].kind = "calls"
      PROVE  Chained(log, t)
  <2>1. ASSUME NEW i \in 1 .. Len(s), log[t[i]].kind = "result"
        PROVE  i > 1 /\ t[i - 1] = log[t[i]].ref /\ log[t[i - 1]].kind = "calls"
    <3>1. i > 1 /\ s[i - 1] = log[s[i]].ref /\ log[s[i - 1]].kind = "calls"
      BY <1>1, <1>6, <2>1 DEF Chained
    <3> QED
      BY <1>1, <1>3, <3>1
  <2>2. ASSUME log[t[n]].kind = "result"
        PROVE  n > 1 /\ t[n - 1] = log[t[n]].ref /\ log[t[n - 1]].kind = "calls"
    BY <1>1, <1>2, <1>4, <1>6, <2>2
  <2> QED
    BY <1>1, <2>1, <2>2 DEF Chained
<1> QED
  BY <1>5, <1>6 DEF t

LEMMA ChainedConcat ==
  ASSUME NEW log, NEW S, NEW s \in Seq(S), NEW t \in Seq(S), Chained(log, s), Chained(log, t)
  PROVE  Chained(log, s \o t)
<1> DEFINE w == s \o t
           n == Len(s)
<1>1. n \in Nat /\ Len(t) \in Nat /\ DOMAIN s = 1 .. n /\ DOMAIN t = 1 .. Len(t)
  OBVIOUS
<1>2. /\ DOMAIN w = 1 .. n + Len(t) /\ \A i \in 1 .. n : w[i] = s[i]
      /\ \A i \in n + 1 .. n + Len(t) : w[i] = t[i - n]
  OBVIOUS
<1> HIDE DEF w, n
<1>3. ASSUME NEW i \in 1 .. n, log[w[i]].kind = "result"
      PROVE  i > 1 /\ w[i - 1] = log[w[i]].ref /\ log[w[i - 1]].kind = "calls"
  <2>1. i > 1 /\ s[i - 1] = log[s[i]].ref /\ log[s[i - 1]].kind = "calls"
    BY <1>1, <1>2, <1>3 DEF Chained
  <2>2. i - 1 \in 1 .. n
    BY <1>1, <2>1
  <2> QED
    BY <1>2, <2>1, <2>2
<1>4. ASSUME NEW i \in n + 1 .. n + Len(t), log[w[i]].kind = "result"
      PROVE  i > 1 /\ w[i - 1] = log[w[i]].ref /\ log[w[i - 1]].kind = "calls"
  <2>1. i - n \in 1 .. Len(t) /\ (i - n) - 1 = (i - 1) - n
    BY <1>1
  <2>2. i - n > 1 /\ t[(i - n) - 1] = log[t[i - n]].ref /\ log[t[(i - n) - 1]].kind = "calls"
    BY <1>1, <1>2, <1>4, <2>1 DEF Chained
  <2>3. i - 1 \in n + 1 .. n + Len(t) /\ i > 1
    BY <1>1, <2>2
  <2>4. w[i - 1] = t[(i - n) - 1] /\ w[i] = t[i - n]
    BY <1>2, <2>1, <2>3
  <2> QED
    BY <2>2, <2>3, <2>4
<1>5. \A i \in 1 .. n + Len(t) : i \in 1 .. n \/ i \in n + 1 .. n + Len(t)
  BY <1>1
<1> QED
  BY <1>2, <1>3, <1>4, <1>5 DEF Chained, w

LEMMA ChainedLonger ==
  ASSUME NEW log, NEW longer, NEW n \in Nat, Longer(log, longer, n), Len(log) \in Nat,
         NEW list \in Seq(1 .. Len(log)), Chained(log, list)
  PROVE  Chained(longer, list)
<1>1. DOMAIN list = 1 .. Len(list) /\ \A i \in DOMAIN list : list[i] \in 1 .. Len(log)
  OBVIOUS
<1>2. \A i \in 1 .. Len(list) : i > 1 => i - 1 \in 1 .. Len(list)
  OBVIOUS
<1>3. \A id \in 1 .. Len(log) : longer[id] = log[id]
  BY DEF Longer
<1> QED
  BY <1>1, <1>2, <1>3 DEF Chained

LEMMA ChainedSubSeq ==
  ASSUME NEW log, NEW S, NEW s \in Seq(S), NEW k \in 1 .. Len(s),
         Chained(log, s), log[s[k]].kind # "result"
  PROVE  Chained(log, SubSeq(s, k, Len(s)))
<1> DEFINE t == SubSeq(s, k, Len(s))
<1>0. Len(s) \in Nat /\ DOMAIN s = 1 .. Len(s)
  OBVIOUS
<1>1. /\ Len(t) = Len(s) - k + 1 /\ DOMAIN t = 1 .. Len(s) - k + 1
      /\ \A i \in 1 .. Len(s) - k + 1 : t[i] = s[k + i - 1]
  BY <1>0, SubSeqProperties
<1> HIDE DEF t
<1>2. ASSUME NEW i \in 1 .. Len(s) - k + 1, log[t[i]].kind = "result"
      PROVE  i > 1 /\ t[i - 1] = log[t[i]].ref /\ log[t[i - 1]].kind = "calls"
  <2>1. i > 1
    <3>1. i = 1 => t[i] = s[k]
      BY <1>0, <1>1
    <3> QED
      BY <1>2, <3>1
  <2>2. k + i - 1 \in 1 .. Len(s) /\ (k + i - 1) - 1 = k + (i - 1) - 1
        /\ i - 1 \in 1 .. Len(s) - k + 1
    BY <1>0, <2>1
  <2>3. t[i] = s[k + i - 1] /\ t[i - 1] = s[k + (i - 1) - 1]
    BY <1>1, <2>2
  <2>4. s[(k + i - 1) - 1] = log[s[k + i - 1]].ref /\ log[s[(k + i - 1) - 1]].kind = "calls"
    BY <1>0, <1>2, <2>2, <2>3 DEF Chained
  <2> QED
    BY <2>1, <2>2, <2>3, <2>4
<1> QED
  BY <1>1, <1>2 DEF Chained, t

BothChained == Chained(said, saved) /\ Chained(said, context)

\* While a batch of calls is executed, its message is the last one.
BatchIsLast ==
    run.at = "batch" =>
        /\ said # <<>> /\ Kind(Len(said)) = "calls"
        /\ context # <<>> /\ Last(context) = Len(said)
        /\ connected => saved # <<>> /\ Last(saved) = Len(said)

LEMMA ChainedAdds ==
  ASSUME MsgInv, NEW n \in Nat, Adds(n), BothChained,
         \A i \in Len(said) + 1 .. Len(said') : said'[i].kind # "result"
  PROVE  BothChained'
<1> DEFINE new == NumbersAfter(Len(said), n)
<1>0. Longer(said, said', n)
  BY DEF Adds
<1>1. /\ Len(said) \in Nat /\ Len(said') = Len(said) + n /\ Ids' = 1 .. Len(said')
      /\ context \in Seq(1 .. Len(said)) /\ saved \in Seq(1 .. Len(said))
      /\ context \in Seq(Ids') /\ saved \in Seq(Ids')
  <2>1. /\ Len(said') = Len(said) + n /\ Ids = 1 .. Len(said) /\ Ids' = 1 .. Len(said')
        /\ Len(said) \in Nat /\ context \in Seq(Ids) /\ saved \in Seq(Ids)
        /\ context \in Seq(Ids') /\ saved \in Seq(Ids')
    BY <1>0, LongerIs
  <2> QED
    BY <2>1
<1>2. Chained(said', saved) /\ Chained(said', context)
  BY <1>0, <1>1, ChainedLonger DEF BothChained
<1>3. new \in Seq(Ids') /\ Len(new) = n /\ \A i \in 1 .. n : new[i] = Len(said) + i
  BY <1>1, NumbersAre
<1>4. Chained(said', new)
  <2>1. \A i \in 1 .. n : Len(said) + i \in Len(said) + 1 .. Len(said')
    BY <1>1
  <2>2. DOMAIN new = 1 .. n
    BY <1>3
  <2> QED
    BY <1>3, <2>1, <2>2 DEF Chained
<1>5. context' = context \o new /\ saved' \in {saved, saved \o new}
  BY DEF Adds
<1> HIDE DEF new
<1>6. Chained(said', context \o new) /\ Chained(said', saved \o new)
  BY <1>1, <1>2, <1>3, <1>4, ChainedConcat
<1> QED
  BY <1>2, <1>5, <1>6 DEF BothChained

LEMMA ChainedCompacts ==
  ASSUME MsgInv, Compacts, BothChained
  PROVE  BothChained'
<1>1. PICK kept \in Ids, retry \in BOOLEAN :
        Keepable(said, saved, kept) /\ AppendCompaction(kept, retry)
  BY DEF Compacts
<1> DEFINE id == Len(said) + 1
           rebuilt == Rebuilt(said', saved')
<1>2. /\ Longer(said, said', 1) /\ said'[id] = Message("summary", kept)
      /\ saved' = Append(saved, id) /\ rebuilt \in Seq(Ids') /\ rebuilt # <<>>
      /\ context' \in {rebuilt, Front(rebuilt)}
  BY <1>1, CompactsKeeps
<1>3. PICK k \in 1 .. Len(saved) :
            /\ said[saved[k]].kind \notin {"summary", "result"}
            /\ rebuilt = <<id>> \o SubSeq(saved, k, Len(saved))
  BY <1>1, CompactsKeeps
<1>4. /\ Len(said) \in Nat /\ Len(said') = Len(said) + 1 /\ Ids = 1 .. Len(said) /\ id \in Ids'
      /\ saved \in Seq(Ids) /\ saved \in Seq(Ids') /\ said \in Logs /\ Ids \subseteq Ids'
  <2>1. /\ Len(said) \in Nat /\ Len(said') = Len(said) + 1
        /\ Ids = 1 .. Len(said) /\ Ids' = 1 .. Len(said') /\ Ids \subseteq Ids'
        /\ saved \in Seq(Ids) /\ saved \in Seq(Ids')
    BY <1>2, LongerIs
  <2>2. said \in Logs
    BY DEF MsgInv
  <2>3. id \in Ids'
    BY <2>1
  <2> QED
    BY <2>1, <2>2, <2>3
<1>5. Chained(said', saved')
  <2>1. Chained(said', saved)
    BY <1>2, <1>4, ChainedLonger DEF BothChained
  <2>2. said'[id].kind # "result"
    BY <1>2 DEF Message
  <2> QED
    BY <1>2, <1>4, <2>1, <2>2, ChainedFront
<1>6. Chained(said', rebuilt)
  <2> DEFINE part == SubSeq(saved, k, Len(saved))
  <2>1. part \in Seq(Ids) /\ Chained(said, part)
    <3>1. part \in Seq(Ids)
      BY <1>4, SubSeqIs
    <3>2. said[saved[k]].kind # "result"
      BY <1>3
    <3>3. Chained(said, part)
      BY <1>4, <3>2, ChainedSubSeq DEF BothChained
    <3> QED
      BY <3>1, <3>3
  <2> HIDE DEF part
  <2>4. part \in Seq(Ids') /\ Chained(said', part)
    BY <1>2, <1>4, <2>1, ChainedLonger, SeqMonotonic
  <2>5. <<id>> \in Seq(Ids') /\ Chained(said', <<id>>)
    <3>1. said'[id].kind # "result"
      BY <1>2 DEF Message
    <3>2. <<id>> \in Seq(Ids')
      BY <1>4
    <3>3. DOMAIN <<id>> = {1} /\ <<id>>[1] = id
      OBVIOUS
    <3> QED
      BY <3>1, <3>2, <3>3 DEF Chained
  <2>6. Chained(said', <<id>> \o part)
    BY <2>4, <2>5, ChainedConcat
  <2> QED
    BY <1>3, <2>6 DEF part
<1> HIDE DEF rebuilt, id
<1>7. Chained(said', Front(rebuilt))
  <2>1. /\ Front(rebuilt) \in Seq(Ids') /\ Last(rebuilt) \in Ids'
        /\ rebuilt = Append(Front(rebuilt), Last(rebuilt))
    BY <1>2, FrontIs
  <2> QED
    BY <1>6, <2>1, ChainedFront
<1> QED
  BY <1>2, <1>5, <1>6, <1>7 DEF BothChained

LEMMA ChainedTrims ==
  ASSUME MsgInv, Trims, BothChained
  PROVE  BothChained'
<1>1. said' = said /\ saved' = saved /\ context' \in {context, WithoutReply}
  BY DEF Trims
<1>2. Chained(said, WithoutReply)
  <2>1. context \in Seq(Ids)
    BY DEF MsgInv
  <2>2. CASE WithoutReply = context
    BY <2>2 DEF BothChained
  <2>3. CASE WithoutReply # context
    <3>1. WithoutReply = Front(context) /\ context # <<>>
      BY <2>3 DEF WithoutReply, EndsWith
    <3>2. /\ Front(context) \in Seq(Ids) /\ Last(context) \in Ids
          /\ context = Append(Front(context), Last(context))
      BY <2>1, <3>1, FrontIs
    <3>3. Chained(said, context)
      BY DEF BothChained
    <3>4. Chained(said, Front(context))
      BY <3>2, <3>3, ChainedFront
    <3> QED
      BY <3>1, <3>4
  <2> QED
    BY <2>2, <2>3
<1> QED
  BY <1>1, <1>2 DEF BothChained

\* What the provider and the tools say.
LEMMA ChainedSpeaks ==
  ASSUME DInv, BothChained, BatchIsLast, NEW kind, NEW ref, Speaks(kind, ref)
  PROVE  BothChained'
<1> DEFINE id == Len(said) + 1
<1>0. MsgInv
  BY DInvIs
<1>1. kind \in MessageKinds \ {"summary"} /\ ref \in Nat /\ Say(kind, ref)
  BY DEF Speaks
<1>2. Adds(1) /\ said'[id] = Message(kind, ref) /\ context' = Append(context, id)
  BY <1>0, <1>1, SayAdds
<1>3. Longer(said, said', 1)
  BY <1>2 DEF Adds
<1>4. /\ Len(said) \in Nat /\ Len(said') = Len(said) + 1 /\ Ids' = 1 .. Len(said') /\ id \in Ids'
      /\ context \in Seq(Ids) /\ saved \in Seq(Ids) /\ context \in Seq(Ids') /\ saved \in Seq(Ids')
      /\ \A i \in Ids : said'[i] = said[i]
  <2>1. /\ Len(said) \in Nat /\ Len(said') = Len(said) + 1 /\ Ids' = 1 .. Len(said')
        /\ context \in Seq(Ids) /\ saved \in Seq(Ids) /\ context \in Seq(Ids') /\ saved \in Seq(Ids')
        /\ \A i \in Ids : said'[i] = said[i]
    BY <1>0, <1>3, LongerIs
  <2>2. id \in Ids'
    BY <2>1
  <2> QED
    BY <2>1, <2>2
<1>5. Chained(said', saved) /\ Chained(said', context)
  BY <1>3, <1>4, ChainedLonger DEF BothChained, Ids
<1>6. said'[id].kind = kind /\ said'[id].ref = ref
  BY <1>2 DEF Message
<1>7. ASSUME kind = "result"
      PROVE  /\ ref = Len(said) /\ said'[ref].kind = "calls"
             /\ context # <<>> /\ Last(context) = ref
             /\ connected => saved # <<>> /\ Last(saved) = ref
  <2>1. run.at = "batch" /\ ref = Max({i \in DOMAIN said : Kind(i) = "calls"})
    BY <1>7 DEF Speaks
  <2>2. said # <<>> /\ Kind(Len(said)) = "calls"
    BY <2>1 DEF BatchIsLast
  <2>3. said \in Logs /\ DOMAIN said = 1 .. Len(said)
    BY <1>0 DEF MsgInv, Logs
  <2>4. Len(said) \in 1 .. Len(said)
    BY <1>4, <2>2, <2>3 DEF Logs
  <2>5. ref = Len(said)
    <3> DEFINE C == {i \in DOMAIN said : Kind(i) = "calls"}
    <3>1. C \in SUBSET Nat /\ Len(said) \in C /\ \A x \in C : x <= Len(said)
      BY <1>4, <2>2, <2>3, <2>4
    <3> QED
      BY <2>1, <3>1, MaxOf
  <2>6. said'[ref].kind = "calls"
    BY <1>4, <2>2, <2>4, <2>5 DEF Kind, Ids
  <2> QED
    BY <2>1, <2>5, <2>6 DEF BatchIsLast
<1>8. Chained(said', context')
  BY <1>2, <1>4, <1>5, <1>6, <1>7, ChainedFront
<1>9. Chained(said', saved')
  <2>1. CASE connected
    <3>1. saved' = Append(saved, id)
      BY <1>1, <2>1 DEF Say
    <3> QED
      BY <1>4, <1>5, <1>6, <1>7, <2>1, <3>1, ChainedFront
  <2>2. CASE ~connected
    BY <1>1, <1>5, <2>2 DEF Say
  <2> QED
    BY <2>1, <2>2
<1> QED
  BY <1>8, <1>9 DEF BothChained

LEMMA ChainedKept ==
  ASSUME DInv, BothChained, BatchIsLast, [Next]_vars
  PROVE  BothChained'
<1>0. MsgInv
  BY DInvIs
<1>1. CASE UNCHANGED messages
  BY <1>1 DEF messages, BothChained, Chained
<1>2. CASE Compacts
  BY <1>0, <1>2, ChainedCompacts
<1>3. CASE RunStep
  BY <1>1, <1>3, RunMessages, ChainedSpeaks
<1>4. CASE Host \/ \E p \in Prompts : Settle(p)
  BY <1>0, <1>1, <1>4, RecordMessages, RecordAdds, ChainedAdds
<1>5. ASSUME NEW b \in BOOLEAN, EndManual(b) \/ \E p \in Prompts : EndCompaction(p, b)
      PROVE  BothChained'
  BY <1>1, <1>2, <1>5, CompactionMessages
<1>6. ASSUME NEW p \in Prompts, CheckSteps(p) PROVE BothChained'
  BY <1>0, <1>6, CheckTrims, ChainedTrims
<1>7. CASE \/ PrepareManual
           \/ \E p \in Prompts : Trigger(p) \/ StartRun(p) \/ Finish(p) \/ Continue(p) \/ Settled(p)
  BY <1>1, <1>7, OtherMessages
<1>8. CASE UNCHANGED vars
  BY <1>1, <1>8 DEF vars
<1> QED
  BY <1>3, <1>4, <1>5, <1>6, <1>7, <1>8 DEF Next, PromptStep, ManualStep, CheckSteps

LEMMA BatchIsLastKept ==
  ASSUME AInv, BatchIsLast, [Next]_vars
  PROVE  BatchIsLast'
<1>0. DInv /\ MsgInv /\ run \in [at : RunStages, aborted : BOOLEAN]
  BY DInvIs DEF AInv, IInv, FlagTypes
<1>1. CASE run'.at # "batch"
  BY <1>1 DEF BatchIsLast
<1>2. CASE run'.at = "batch" /\ run.at # "batch"
  <2>1. PICK kind \in Answers \cup {"aborted"} : Answer(kind)
    BY <1>0, <1>2, EntersBatch
  <2>2. kind = "calls" /\ Say("calls", 0) /\ connected' = connected
    BY <1>0, <1>2, <2>1 DEF Answer, RunAt
  <2>3. "calls" \in MessageKinds \ {"summary"} /\ 0 \in Nat
    BY DEF MessageKinds, Assistant, AllAnswers
  <2> DEFINE id == Len(said) + 1
  <2>4. Adds(1) /\ said'[id] = Message("calls", 0) /\ context' = Append(context, id)
    BY <1>0, <2>2, <2>3, SayAdds
  <2>5. Len(said') = id /\ Len(said) \in Nat /\ context \in Seq(Ids') /\ saved \in Seq(Ids')
        /\ Ids' = 1 .. Len(said')
    BY <1>0, <2>4, LongerIs DEF Adds
  <2>6. id \in Ids'
    BY <2>5
  <2>7. ASSUME NEW s \in Seq(Ids') PROVE Append(s, id) # <<>> /\ Last(Append(s, id)) = id
    <3>1. Len(Append(s, id)) = Len(s) + 1 /\ Append(s, id)[Len(s) + 1] = id /\ Len(s) \in Nat
      BY <2>6, AppendProperties
    <3>2. Append(s, id) \in Seq(Ids')
      BY <2>6, AppendProperties
    <3> HIDE DEF id
    <3> QED
      BY <3>1, <3>2 DEF Last
  <2>8. connected => saved' = Append(saved, id)
    BY <2>2 DEF Say
  <2>9. said' # <<>> /\ said'[Len(said')].kind = "calls"
    BY <2>4, <2>5 DEF Message
  <2> QED
    BY <2>2, <2>4, <2>5, <2>7, <2>8, <2>9 DEF BatchIsLast, Kind
<1>3. CASE run'.at = "batch" /\ run.at = "batch"
  <2>1. RunStep \/ (\E p \in Prompts : Finish(p)) \/ Aside
    BY <1>3, DuringRun
  <2>2. ~ RunStep
    BY <1>0, <1>3 DEF RunStep, BeginRun, BeginTurn, Poll, Answer, Execute, RunAt
  <2>3. ASSUME NEW p \in Prompts, Finish(p) PROVE FALSE
    BY <1>3, <2>3 DEF Finish
  <2>4. Aside
    BY <2>1, <2>2, <2>3
  <2> QED
    BY <1>3, <2>4 DEF Aside, BatchIsLast, messages, Kind
<1> QED
  BY <1>1, <1>2, <1>3

RInv == AInv /\ BothChained /\ BatchIsLast

LEMMA InitRInv == Init => RInv
BY InitAInv DEF RInv, Init, NoRun, BothChained, Chained, BatchIsLast

LEMMA StepRInv == ~Overlap /\ RInv /\ [Next]_vars => RInv'
BY StepAInv, ChainedKept, BatchIsLastKept DEF RInv, AInv

\* In the file and in the context results stand directly behind their calls: no
\* bash result, message of an extension or summary comes between them, and no
\* compaction separates them, if no prompt starts before the one before it has
\* settled.
THEOREM ResultsStay == ASSUME ~Overlap PROVE Spec => []ResultsStayWithCalls
<1>1. RInv => ResultsStayWithCalls
  BY DEF RInv, BothChained, Chained, ResultsStayWithCalls, Kind
<1>2. ~Overlap
  OBVIOUS
<1> QED
  BY InitRInv, StepRInv, <1>1, <1>2, PTL DEF Spec

-----------------------------------------------------------------------------
(* The context is what a reload would build.                                *)

\* The reply that the session remembers is the one at the end of the context,
\* if a reply is there that it heard.
ReplyIsLast ==
    lastAssistant # 0 /\ EndsWith(context, Assistant) => Last(context) \in missed \cup {lastAssistant}

ReplyInRun == lastAssistant # 0 => \E p \in Prompts : pc[p] \in {"running", "post"}
RetriesFailed == \A p \in Prompts : work[p].msg # 0 => Kind(work[p].msg) = "failed"

LEMMA RepliesHappen ==
  ASSUME [Next]_vars
  PROVE  \/ lastAssistant' \in {0, lastAssistant}
         \/ \E kind \in Answers \cup {"aborted"} : Answer(kind)
<1>1. ASSUME NEW p \in Prompts, Prompt(p) \/ Trigger(p) \/ PromptStep(p)
      PROVE  lastAssistant' \in {0, lastAssistant}
  <2>1. CASE Prompt(p) \/ Trigger(p) \/ StartRun(p) \/ Finish(p) \/ PostRun(p) \/ RetryWake(p)
    BY <2>1 DEF Prompt, Trigger, StartRun, RunAgentPrompt, Finish, PostRun, RetryWake, control
  <2>2. CASE Continue(p) \/ Settle(p) \/ Settled(p) \/ \E b \in BOOLEAN : EndCompaction(p, b)
    BY <2>2 DEF Continue, Settle, Settled, EndCompaction, control
  <2> QED
    BY <1>1, <2>1, <2>2 DEF PromptStep
<1>2. ManualStep \/ Host => lastAssistant' = lastAssistant
  BY DEF ManualStep, PrepareManual, EndManual, Host, Steer, FollowUp, Custom, Abort,
         ClearQueue, Compact, AbortCompaction, RecordBashResult, control
<1>3. BeginRun \/ BeginTurn \/ Poll => lastAssistant' = lastAssistant
  BY DEF BeginRun, BeginTurn, Poll, control
<1>4. ASSUME NEW next, Execute(next) PROVE lastAssistant' = lastAssistant
  BY <1>4 DEF Execute, control
<1>5. UNCHANGED vars => lastAssistant' = lastAssistant
  BY DEF vars, control
<1> QED
  BY <1>1, <1>2, <1>3, <1>4, <1>5 DEF Next, RunStep

LEMMA ReplyInRunKept ==
  ASSUME AInv, ReplyInRun, [Next]_vars
  PROVE  ReplyInRun'
<1>0. IInv /\ pc \in [Prompts -> PromptStages] /\ run \in [at : RunStages, aborted : BOOLEAN]
  BY DEF AInv, IInv, FlagTypes
<1>1. CASE \E kind \in Answers \cup {"aborted"} : Answer(kind)
  <2>1. run.at = "turn" /\ pc' = pc
    BY <1>1 DEF Answer, stages
  <2> QED
    BY <1>0, <2>1 DEF IInv, RunHasOwner, ReplyInRun
<1>2. CASE lastAssistant' = 0
  BY <1>2 DEF ReplyInRun
<1>3. CASE lastAssistant' = lastAssistant /\ lastAssistant # 0
  <2>1. PICK r \in Prompts : pc[r] \in {"running", "post"}
    BY <1>3 DEF ReplyInRun
  <2>2. CASE RunStep
    <3>1. pc' = pc
      BY <2>2 DEF RunStep, BeginRun, BeginTurn, Poll, Answer, Execute, stages
    <3> QED
      BY <2>1, <3>1 DEF ReplyInRun
  <2>3. CASE Finish(r)
    BY <1>0, <2>3 DEF Finish, Go, ReplyInRun
  <2>4. CASE PostRun(r)
    BY <2>4 DEF PostRun, ReplyInRun
  <2>5. CASE Aside
    <3>1. pc[r] \notin Resting
      BY <2>1 DEF Resting
    <3> QED
      BY <2>1, <2>5, <3>1 DEF Aside, ReplyInRun
  <2> QED
    BY <2>1, <2>2, <2>3, <2>4, <2>5, DuringRound
<1> QED
  BY <1>1, <1>2, <1>3, RepliesHappen

LEMMA RetriesFailedKept ==
  ASSUME DInv, RetriesFailed, [Next]_vars
  PROVE  RetriesFailed'
<1>0. /\ work \in [Prompts -> Works] /\ Ids = 1 .. Len(said) /\ Len(said) \in Nat
      /\ \A i \in Ids : said'[i] = said[i]
  BY DInvIs, Growing
<1>1. ASSUME NEW w \in Works, w.msg # 0 PROVE said'[w.msg] = said[w.msg]
  <2>1. w.msg \in Ids
    BY <1>0, <1>1 DEF Works
  <2> QED
    BY <1>0, <2>1
<1>2. CASE work' = work
  BY <1>0, <1>1, <1>2 DEF RetriesFailed, Kind
<1>3. ASSUME NEW p \in Prompts, WorkMoved(p) PROVE RetriesFailed'
  <2>1. PICK w \in Works : work' = [work EXCEPT ![p] = w] /\ (w.msg # 0 => Kind(w.msg) = "failed")
    BY <1>3 DEF WorkMoved
  <2>2. \A q \in Prompts : work'[q] \in Works /\ (work'[q] = w \/ work'[q] = work[q])
    BY <1>0, <2>1
  <2>3. \A q \in Prompts : work'[q].msg # 0 => Kind(work'[q].msg) = "failed"
    BY <2>1, <2>2 DEF RetriesFailed
  <2> QED
    BY <1>1, <2>2, <2>3 DEF RetriesFailed, Kind
<1> QED
  BY <1>2, <1>3, WorkHolds

LEMMA ReplyIsLastKept ==
  ASSUME AInv, ReplyIsLast, ReplyInRun, [Next]_vars
  PROVE  ReplyIsLast'
<1>0. DInv /\ MsgInv
  BY DInvIs DEF AInv
<1>1. CASE lastAssistant' = 0
  BY <1>1 DEF ReplyIsLast
<1>2. CASE \E kind \in Answers \cup {"aborted"} : Answer(kind)
  <2>1. PICK kind \in Answers \cup {"aborted"} : Answer(kind)
    BY <1>2
  <2>2. Say(kind, 0) /\ (connected => lastAssistant' = Len(said'))
    BY <2>1 DEF Answer
  <2>3. kind \in MessageKinds \ {"summary"} /\ 0 \in Nat
    BY SessionAssumption DEF MessageKinds, Assistant, AllAnswers
  <2>4. SpokenLast
    BY <1>0, <2>2, <2>3, SayIsLast
  <2> QED
    BY <2>2, <2>4 DEF SpokenLast, ReplyIsLast, Say
<1>3. CASE lastAssistant' = lastAssistant /\ lastAssistant # 0
           /\ ~ \E kind \in Answers \cup {"aborted"} : Answer(kind)
  <2>1. PICK r \in Prompts : pc[r] \in {"running", "post"}
    BY <1>3 DEF ReplyInRun
  <2>2. ASSUME UNCHANGED messages PROVE ReplyIsLast'
    BY <1>3, <2>2 DEF messages, ReplyIsLast, EndsWith, Kind
  <2>3. CASE RunStep
    <3>1. UNCHANGED messages \/ \E kind \in {"user", "custom", "result"}, ref \in Nat : Say(kind, ref)
      <4>1. CASE BeginRun \/ BeginTurn
        <5>1. Inject
          BY <4>1 DEF BeginRun, BeginTurn
        <5> QED
          BY <1>0, <5>1, InjectAdds
      <4>2. CASE Poll
        BY <4>2 DEF Poll
      <4>3. ASSUME NEW next, Execute(next) PROVE \E ref \in Nat : Say("result", ref)
        BY <1>0, <4>3, CallsKnown DEF Execute
      <4> QED
        BY <1>3, <2>3, <4>1, <4>2, <4>3 DEF RunStep
    <3>2. ASSUME NEW kind \in {"user", "custom", "result"}, NEW ref \in Nat, Say(kind, ref)
          PROVE  ReplyIsLast'
      <4>1. kind \in MessageKinds \ {"summary"} /\ kind \notin Assistant
        BY DEF MessageKinds, Assistant, AllAnswers
      <4>2. SpokenLast /\ said'[Len(said')].kind = kind
        BY <1>0, <3>2, <4>1, SayIsLast
      <4> QED
        BY <4>1, <4>2 DEF SpokenLast, ReplyIsLast, EndsWith, Kind
    <3> QED
      BY <2>2, <3>1, <3>2
  <2>4. CASE Finish(r) \/ Aside
    BY <2>2, <2>4 DEF Finish, Aside
  <2>5. CASE PostRun(r)
    BY <1>1, <2>5 DEF PostRun
  <2> QED
    BY <2>1, <2>3, <2>4, <2>5, DuringRound
<1> QED
  BY <1>1, <1>2, <1>3, RepliesHappen

LEMMA SelectedFront ==
  ASSUME NEW S, NEW s \in Seq(S), s # <<>>, NEW T, Last(s) \notin T
  PROVE  Selected(Front(s), T) = Selected(s, T)
<1>1. Front(s) \in Seq(S) /\ Last(s) \in S /\ s = Append(Front(s), Last(s))
  BY FrontIs
<1>2. Selected(Append(Front(s), Last(s)), T) = Selected(Front(s), T)
  BY <1>1, SelectedAppend
<1> QED
  BY <1>1, <1>2

\* Only what may not stay is dropped.
Drops == /\ UNCHANGED <<said, saved, missed>>
         /\ \/ context' = context
            \/ context # <<>> /\ Last(context) \notin Staying /\ context' = Front(context)

LEMMA CheckDrops ==
  ASSUME DInv, NEW p \in Prompts, NEW m, NEW skip, NEW compacting, NEW otherwise,
         CheckCompaction(p, m, skip, compacting, otherwise)
  PROVE  context' = context \/ (m # 0 /\ Kind(m) \in {"overflow", "length"} /\ context' = WithoutReply)
<1>1. PICK plan \in CompactionPlans(m, skip) :
        context' = IF plan = "retry" THEN WithoutReply ELSE context
  BY DEF CheckCompaction
<1>2. plan = "retry" => m # 0 /\ Kind(m) \in {"overflow", "length"}
  BY DEF CompactionPlans
<1> QED
  BY <1>1, <1>2

LEMMA LastReplyIs ==
  ASSUME MsgInv, EndsWith(context, Assistant)
  PROVE  LastReply = Last(context)
<1> DEFINE replies == {i \in DOMAIN context : Kind(context[i]) \in Assistant}
<1>1. DOMAIN context = 1 .. Len(context) /\ Len(context) \in Nat /\ context # <<>>
  BY DEF MsgInv, EndsWith
<1>2. Len(context) \in 1 .. Len(context) /\ Last(context) = context[Len(context)]
  BY <1>1 DEF MsgInv, Last
<1>3. replies \in SUBSET Nat /\ Len(context) \in replies /\ \A x \in replies : x <= Len(context)
  BY <1>1, <1>2 DEF EndsWith
<1>4. replies # {} /\ Max(replies) = Len(context)
  BY <1>3, MaxOf
<1> QED
  BY <1>2, <1>4 DEF LastReply

LEMMA CheckStepsDrop ==
  ASSUME AInv, ReplyIsLast, RetriesFailed, NEW p \in Prompts, CheckSteps(p)
  PROVE  Drops
<1>0. DInv /\ MsgInv
  BY DInvIs DEF AInv
<1>1. UNCHANGED <<said, saved, missed>>
  BY DEF CheckSteps, Prompt, PostRun, RetryWake
<1>2. WithoutReply = context \/ (EndsWith(context, Assistant) /\ WithoutReply = Front(context))
  BY DEF WithoutReply
<1>3. \A m : Kind(m) \in {"overflow", "length", "failed"} \/ m \in missed => m \notin Staying
  BY DEF Staying, Errors
<1>4. CASE Prompt(p)
  <2>1. CheckCompaction(p, LastReply, FALSE, "preCompact", "checked")
    BY <1>4 DEF Prompt
  <2>2. \/ context' = context
        \/ Kind(LastReply) \in {"overflow", "length"} /\ context' = WithoutReply
    BY <1>0, <2>1, CheckDrops
  <2>3. EndsWith(context, Assistant) => LastReply = Last(context)
    BY <1>0, LastReplyIs
  <2> QED
    BY <1>1, <1>2, <1>3, <2>2, <2>3 DEF Drops, EndsWith
<1>5. CASE PostRun(p)
  <2>1. \/ context' = context
        \/ /\ lastAssistant # 0 /\ Kind(lastAssistant) \in {"overflow", "length", "failed"}
           /\ context' = WithoutReply
    <3>1. CASE WillRetry(lastAssistant)
      BY <1>5, <3>1 DEF PostRun, WillRetry
    <3>2. CASE ~ WillRetry(lastAssistant)
      <4> DEFINE next == IF lastAssistant = 0 THEN "ending" ELSE AfterRun
      <4>1. CheckCompaction(p, lastAssistant, TRUE, "postCompact", next)
        BY <1>5, <3>2 DEF PostRun
      <4> HIDE DEF next
      <4> QED
        BY <1>0, <4>1, CheckDrops
    <3> QED
      BY <3>1, <3>2
  <2>2. lastAssistant # 0 /\ EndsWith(context, Assistant)
            => Last(context) \in missed \cup {lastAssistant} /\ context # <<>>
    BY DEF ReplyIsLast, EndsWith
  <2> QED
    BY <1>1, <1>2, <1>3, <2>1, <2>2 DEF Drops
<1>6. CASE RetryWake(p)
  <2>1. context' = context
    <3>1. CASE p \in cancelled
      <4>1. CheckCompaction(p, work[p].msg, TRUE, "postCompact", AfterRun)
        BY <1>6, <3>1 DEF RetryWake
      <4>2. work[p].msg # 0 => Kind(work[p].msg) = "failed"
        BY DEF RetriesFailed
      <4> QED
        BY <1>0, <4>1, <4>2, CheckDrops
    <3>2. CASE p \notin cancelled
      BY <1>6, <3>2 DEF RetryWake
    <3> QED
      BY <3>1, <3>2
  <2> QED
    BY <1>1, <2>1 DEF Drops
<1> QED
  BY <1>4, <1>5, <1>6 DEF CheckSteps

LEMMA RebuiltDrops ==
  ASSUME MsgInv, Drops, ContextIsRebuilt
  PROVE  ContextIsRebuilt'
<1>1. Staying' = Staying /\ Rebuilt(said', saved') = Rebuilt(said, saved)
  BY DEF Drops, Staying, Ids, Kind
<1>2. Selected(context', Staying) = Selected(context, Staying)
  BY SelectedFront DEF Drops, MsgInv
<1> QED
  BY <1>1, <1>2 DEF ContextIsRebuilt

LEMMA RebuiltAdds ==
  ASSUME MsgInv, NEW n \in Nat, Adds(n), ContextIsRebuilt
  PROVE  ContextIsRebuilt'
<1> DEFINE new == NumbersAfter(Len(said), n)
           rebuilt == Rebuilt(said, saved)
<1>0. Longer(said, said', n) /\ MsgInv'
  BY AddsKeeps DEF Adds
<1>1. /\ Len(said) \in Nat /\ Len(said') = Len(said) + n /\ Ids' = 1 .. Len(said')
      /\ Ids = 1 .. Len(said) /\ Ids \subseteq Ids' /\ \A i \in Ids : said'[i] = said[i]
      /\ context \in Seq(Ids') /\ saved \in Seq(Ids') /\ context \in Seq(Ids)
  BY <1>0, LongerIs
<1>2. new \in Seq(Ids') /\ Len(new) = n /\ \A i \in 1 .. n : new[i] = Len(said) + i
  <2>1. Len(said') \in Nat /\ Len(said) + n <= Len(said')
    BY <1>1
  <2> HIDE DEF new
  <2>2. /\ new \in Seq(1 .. Len(said')) /\ Len(new) = n
        /\ \A i \in 1 .. n : new[i] = Len(said) + i
    BY <1>1, <2>1, NumbersAre DEF new
  <2> QED
    BY <1>1, <2>2
<1>3. \A i \in 1 .. n : new[i] \in Len(said) + 1 .. Len(said')
  BY <1>1, <1>2
<1>4. rebuilt \in Seq(Ids) /\ rebuilt \in Seq(Ids')
  <2>1. rebuilt \in Seq(Ids)
    BY <1>1, RebuiltTypes DEF MsgInv
  <2> QED
    BY <1>1, <2>1, SeqMonotonic
<1>5. context' = context \o new
  BY DEF Adds
<1> HIDE DEF new, rebuilt
<1>6. ASSUME NEW s \in Seq(Ids) PROVE Selected(s, Staying') = Selected(s, Staying)
  <2>1. \A id \in Ids : id \in Staying' <=> id \in Staying
    <3>1. \A id \in Ids : id \notin Len(said) + 1 .. Len(said')
      BY <1>1
    <3>2. \A id \in Ids : id \in missed' <=> id \in missed
      BY <3>1 DEF Adds
    <3> QED
      BY <1>1, <3>2 DEF Staying, Kind
  <2>2. \A e \in ToSet(s) : e \in Ids
    BY ToSetIs
  <2> QED
    BY <2>1, <2>2, SelectedSame
<1>7. Selected(context', Staying') = Selected(context, Staying) \o Selected(new, Staying')
  <2>1. Selected(context \o new, Staying') = Selected(context, Staying') \o Selected(new, Staying')
    <3>1. context \in Seq(Ids') /\ new \in Seq(Ids')
      BY <1>1, <1>2
    <3> HIDE DEF new
    <3> QED
      BY <3>1, SelectedConcat
  <2> QED
    BY <1>1, <1>5, <1>6, <2>1
<1>8. \A i \in Len(said) + 1 .. Len(said') : said'[i].kind # "summary"
  BY DEF Adds
<1>9. CASE saved' = saved \o new
  <2>1. Branch(said', saved \o new) /\ Branch(said, saved)
    BY <1>0, <1>9 DEF MsgInv
  <2>2. new \in Seq(1 .. Len(said')) /\ \A i \in 1 .. Len(new) : said'[new[i]].kind # "summary"
    BY <1>1, <1>2, <1>3, <1>8
  <2>3. Rebuilt(said', saved') = rebuilt \o new
    BY <1>0, <1>9, <2>1, <2>2, RebuiltLonger DEF rebuilt
  <2>4. Selected(rebuilt \o new, Staying') = Selected(rebuilt, Staying') \o Selected(new, Staying')
    BY <1>2, <1>4, SelectedConcat
  <2> QED
    BY <1>4, <1>6, <1>7, <2>3, <2>4 DEF ContextIsRebuilt, rebuilt
<1>10. CASE saved' = saved /\ missed' = missed \cup (Len(said) + 1 .. Len(said'))
  <2> DEFINE none == <<>>
  <2>0. saved \o none = saved
    BY <1>1, ConcatEmptySeq
  <2>1. Branch(said', saved \o none) /\ Branch(said, saved)
    BY <1>0, <1>10, <2>0 DEF MsgInv
  <2>2. none \in Seq(1 .. Len(said')) /\ \A i \in 1 .. Len(none) : said'[none[i]].kind # "summary"
    OBVIOUS
  <2> HIDE DEF none
  <2>3. Rebuilt(said', saved \o none) = rebuilt \o none
    <3>1. Longer(said, said', n)
      BY <1>0
    <3> QED
      BY <2>1, <2>2, <3>1, RebuiltLonger DEF rebuilt
  <2>4. Rebuilt(said', saved') = rebuilt
    BY <1>4, <1>10, <2>0, <2>3, ConcatEmptySeq DEF none
  <2>5. Selected(new, Staying') = <<>>
    <3>1. ToSet(new) \subseteq missed'
      BY <1>2, <1>3, <1>10, ToSetIs
    <3>2. ToSet(new) \cap Staying' = {}
      BY <3>1 DEF Staying
    <3> QED
      BY <1>2, <3>2, SelectedNone
  <2>6. Selected(context, Staying) \in Seq(Ids)
    BY <1>1, SelectedTypes
  <2>7. Selected(context', Staying') = Selected(context, Staying)
    BY <1>7, <2>5, <2>6, ConcatEmptySeq
  <2> QED
    BY <1>4, <1>6, <2>4, <2>7 DEF ContextIsRebuilt, rebuilt
<1> QED
  BY <1>9, <1>10 DEF Adds, new

LEMMA RebuiltCompacts ==
  ASSUME MsgInv, Compacts
  PROVE  ContextIsRebuilt'
<1>1. PICK kept \in Ids, retry \in BOOLEAN :
        Keepable(said, saved, kept) /\ AppendCompaction(kept, retry)
  BY DEF Compacts
<1> DEFINE rebuilt == Rebuilt(said', saved')
<1>2. /\ rebuilt \in Seq(Ids') /\ rebuilt # <<>>
      /\ context' = IF retry /\ said'[Last(rebuilt)].kind \in Errors THEN Front(rebuilt) ELSE rebuilt
  BY <1>1, CompactsKeeps
<1> HIDE DEF rebuilt
<1>3. CASE context' = rebuilt
  BY <1>3 DEF ContextIsRebuilt, rebuilt
<1>4. CASE said'[Last(rebuilt)].kind \in Errors /\ context' = Front(rebuilt)
  <2>1. Last(rebuilt) \notin Staying'
    BY <1>4 DEF Staying, Kind
  <2>2. Selected(Front(rebuilt), Staying') = Selected(rebuilt, Staying')
    BY <1>2, <2>1, SelectedFront
  <2> QED
    BY <1>4, <2>2 DEF ContextIsRebuilt, rebuilt
<1> QED
  BY <1>2, <1>3, <1>4

LEMMA RebuiltKept ==
  ASSUME AInv, ReplyIsLast, RetriesFailed, ContextIsRebuilt, [Next]_vars
  PROVE  ContextIsRebuilt'
<1>0. DInv /\ MsgInv
  BY DInvIs DEF AInv
<1>1. CASE UNCHANGED messages
  BY <1>1 DEF messages, ContextIsRebuilt, Staying, Ids, Kind
<1>2. CASE Compacts
  BY <1>0, <1>2, RebuiltCompacts
<1>3. CASE RunStep
  BY <1>0, <1>1, <1>3, RunMessages, SayAdds, RebuiltAdds DEF Speaks
<1>4. CASE Host \/ \E p \in Prompts : Settle(p)
  BY <1>0, <1>1, <1>4, RecordMessages, RecordAdds, RebuiltAdds
<1>5. ASSUME NEW b \in BOOLEAN, EndManual(b) \/ \E p \in Prompts : EndCompaction(p, b)
      PROVE  ContextIsRebuilt'
  BY <1>0, <1>1, <1>2, <1>5, CompactionMessages
<1>6. ASSUME NEW p \in Prompts, CheckSteps(p) PROVE ContextIsRebuilt'
  BY <1>0, <1>6, CheckStepsDrop, RebuiltDrops
<1>7. CASE \/ PrepareManual
           \/ \E p \in Prompts : Trigger(p) \/ StartRun(p) \/ Finish(p) \/ Continue(p) \/ Settled(p)
  BY <1>1, <1>7, OtherMessages
<1>8. CASE UNCHANGED vars
  BY <1>1, <1>8 DEF vars
<1> QED
  BY <1>3, <1>4, <1>5, <1>6, <1>7, <1>8 DEF Next, PromptStep, ManualStep, CheckSteps

CInv == AInv /\ ReplyIsLast /\ ReplyInRun /\ RetriesFailed /\ ContextIsRebuilt

LEMMA InitCInv == Init => CInv
<1> SUFFICES ASSUME Init PROVE CInv
  OBVIOUS
<1>1. said = <<>> /\ saved = <<>> /\ context = <<>> /\ lastAssistant = 0
      /\ \A p \in Prompts : work[p].msg = 0
  BY DEF Init, NoWork
<1>2. Rebuilt(said, saved) = <<>>
  BY <1>1 DEF Rebuilt, Summaries
<1> QED
  BY <1>1, <1>2, InitAInv DEF CInv, ReplyIsLast, ReplyInRun, RetriesFailed, ContextIsRebuilt

LEMMA StepCInv == ~Overlap /\ CInv /\ [Next]_vars => CInv'
BY StepAInv, ReplyIsLastKept, ReplyInRunKept, RetriesFailedKept, RebuiltKept DEF CInv, AInv

\* The context is what a reload would build from the file, up to failed and
\* truncated answers and what went unsaved: through runs, retries, compactions,
\* bash results and messages of extensions, if no prompt starts before the one
\* before it has settled.
THEOREM ContextRebuilt == ASSUME ~Overlap PROVE Spec => []ContextIsRebuilt
<1>1. CInv => ContextIsRebuilt
  BY DEF CInv
<1>2. ~Overlap
  OBVIOUS
<1> QED
  BY InitCInv, StepCInv, <1>1, <1>2, PTL DEF Spec

-----------------------------------------------------------------------------
(* Nothing is left behind.                                                  *)

AfterPrompt == {"post", "sleeping", "postCompact", "continuing"}

\* A reply does not begin the context; during a run and after it the context is
\* not empty.
ContextBegins == context # <<>> => Kind(context[1]) \notin Assistant
Spoken ==
    /\ run.at \notin {"idle", "prompting"} => context # <<>>
    /\ run.at = "prompting" => context # <<>> \/ injecting # <<>>
    /\ \A p \in Prompts : pc[p] \in AfterPrompt => context # <<>>

\* The session heard the reply of a run, if it hears everything.
Replied ==
    /\ missed = {}
    /\ run.at \in {"batch", "called", "answered", "ended"} \/ \E p \in Prompts : pc[p] = "post"
    => lastAssistant # 0

\* What is queued when nobody looks any more is late.
LateOnly ==
    missed = {} /\ (~active \/ \E p \in Prompts : pc[p] = "ending")
        => ToSet(steering) \cup ToSet(followUp) \subseteq late

LEMMA BeginsAdds ==
  ASSUME MsgInv, NEW n \in Nat, Adds(n), ContextBegins,
         context # <<>> \/ \A i \in Len(said) + 1 .. Len(said') : said'[i].kind \notin Assistant
  PROVE  ContextBegins' /\ (context # <<>> => context' # <<>>)
<1> DEFINE new == NumbersAfter(Len(said), n)
<1>0. Longer(said, said', n)
  BY DEF Adds
<1>1. /\ Len(said) \in Nat /\ Len(said') = Len(said) + n /\ Ids = 1 .. Len(said)
      /\ \A i \in Ids : said'[i] = said[i]
      /\ context \in Seq(Ids) /\ context \in Seq(Ids') /\ Ids' = 1 .. Len(said')
  BY <1>0, LongerIs
<1>2. /\ new \in Seq(Ids') /\ Len(new) = n
      /\ \A i \in 1 .. n : new[i] = Len(said) + i
  <2>1. Len(said') \in Nat /\ Len(said) + n <= Len(said')
    BY <1>1
  <2> HIDE DEF new
  <2> QED
    BY <1>1, <2>1, NumbersAre DEF new
<1>3. context' = context \o new
  BY DEF Adds
<1> HIDE DEF new
<1>4. /\ context' \in Seq(Ids') /\ Len(context') = Len(context) + n /\ Len(context) \in Nat
      /\ \A i \in 1 .. Len(context) : context'[i] = context[i]
  <2>1. /\ context' \in Seq(Ids') /\ Len(context') = Len(context) + n
        /\ \A i \in 1 .. Len(context) + n :
                context'[i] = IF i <= Len(context) THEN context[i] ELSE new[i - Len(context)]
    <3>1. /\ context \o new \in Seq(Ids') /\ Len(context \o new) = Len(context) + Len(new)
          /\ \A i \in 1 .. Len(context) + Len(new) :
                (context \o new)[i] = IF i <= Len(context) THEN context[i] ELSE new[i - Len(context)]
      BY <1>1, <1>2, ConcatProperties
    <3> QED
      BY <1>2, <1>3, <3>1
  <2>2. Len(context) \in Nat /\ \A i \in 1 .. Len(context) : i <= Len(context) /\ i \in 1 .. Len(context) + n
    BY <1>1
  <2> QED
    BY <2>1, <2>2
<1>5. CASE context # <<>>
  <2>1. 1 \in 1 .. Len(context) /\ context[1] \in Ids /\ context' # <<>>
    BY <1>1, <1>4, <1>5
  <2>2. said'[context'[1]] = said[context[1]]
    BY <1>1, <1>4, <2>1
  <2> QED
    BY <1>5, <2>1, <2>2 DEF ContextBegins, Kind
<1>6. CASE context = <<>>
  <2>1. CASE n = 0
    BY <1>4, <1>6, <2>1 DEF ContextBegins
  <2>2. CASE n # 0
    <3>0. context' = new
      BY <1>2, <1>3, <1>6, ConcatEmptySeq
    <3>1. context'[1] = Len(said) + 1 /\ Len(said) + 1 \in Len(said) + 1 .. Len(said')
      BY <1>1, <1>2, <2>2, <3>0
    <3> QED
      BY <1>6, <3>1 DEF ContextBegins, Kind
  <2> QED
    BY <2>1, <2>2
<1> QED
  BY <1>5, <1>6

\* A list whose first element is not in T keeps it when it loses a last element
\* that is.
LEMMA FrontBegins ==
  ASSUME NEW S, NEW s \in Seq(S), s # <<>>, Last(s) # s[1]
  PROVE  Front(s) # <<>> /\ Front(s)[1] = s[1]
<1>1. /\ Front(s) \in Seq(S) /\ Len(Front(s)) = Len(s) - 1 /\ Len(s) \in Nat \ {0}
      /\ \A i \in 1 .. Len(s) - 1 : Front(s)[i] = s[i]
  BY FrontIs
<1>2. Last(s) = s[Len(s)]
  BY DEF Last
<1>3. Len(s) # 1
  BY <1>2
<1>4. 1 \in 1 .. Len(s) - 1
  BY <1>1, <1>3
<1> QED
  BY <1>1, <1>4

LEMMA BeginsTrims ==
  ASSUME MsgInv, Trims, ContextBegins
  PROVE  ContextBegins' /\ (context # <<>> => context' # <<>>)
<1>1. said' = said /\ context' \in {context, WithoutReply}
  BY DEF Trims
<1>2. CASE context' = context
  BY <1>1, <1>2 DEF ContextBegins, Kind
<1>3. CASE context' # context
  <2>1. EndsWith(context, Assistant) /\ context' = Front(context)
    BY <1>1, <1>3 DEF WithoutReply
  <2>2. context # <<>> /\ Last(context) # context[1]
    BY <2>1 DEF EndsWith, ContextBegins
  <2>3. Front(context) # <<>> /\ Front(context)[1] = context[1]
    BY <2>2, FrontBegins DEF MsgInv
  <2> QED
    BY <1>1, <2>1, <2>2, <2>3 DEF ContextBegins, Kind
<1> QED
  BY <1>2, <1>3

LEMMA BeginsCompacts ==
  ASSUME MsgInv, Compacts
  PROVE  ContextBegins' /\ context' # <<>>
<1>1. PICK kept \in Ids, retry \in BOOLEAN :
        Keepable(said, saved, kept) /\ AppendCompaction(kept, retry)
  BY DEF Compacts
<1> DEFINE rebuilt == Rebuilt(said', saved')
           id == Len(said) + 1
<1>2. /\ rebuilt \in Seq(Ids') /\ rebuilt # <<>> /\ Longer(said, said', 1)
      /\ context' = IF retry /\ said'[Last(rebuilt)].kind \in Errors THEN Front(rebuilt) ELSE rebuilt
      /\ said'[id] = Message("summary", kept)
      /\ \E k \in 1 .. Len(saved) :
            rebuilt = <<id>> \o SubSeq(saved, k, Len(saved))
  BY <1>1, CompactsKeeps
<1>3. rebuilt[1] = id
  <2>1. PICK k \in 1 .. Len(saved) :
            rebuilt = <<id>> \o SubSeq(saved, k, Len(saved))
    BY <1>2
  <2>2. SubSeq(saved, k, Len(saved)) \in Seq(Ids)
    BY SubSeqIs DEF MsgInv, Branch, Ids
  <2> DEFINE part == SubSeq(saved, k, Len(saved))
  <2> HIDE DEF part, id
  <2>4. (<<id>> \o part)[1] = id
    BY <2>2 DEF part
  <2> QED
    BY <2>1, <2>4 DEF part
<1>4. said'[id].kind = "summary" /\ "summary" \notin Assistant /\ "summary" \notin Errors
  BY <1>2 DEF Message, Assistant, AllAnswers, Errors
<1> HIDE DEF rebuilt, id
<1>5. CASE context' = rebuilt
  BY <1>2, <1>3, <1>4, <1>5 DEF ContextBegins, Kind
<1>6. CASE said'[Last(rebuilt)].kind \in Errors /\ context' = Front(rebuilt)
  <2>1. Last(rebuilt) # rebuilt[1]
    BY <1>3, <1>4, <1>6
  <2>2. Front(rebuilt) # <<>> /\ Front(rebuilt)[1] = rebuilt[1]
    BY <1>2, <2>1, FrontBegins
  <2> QED
    BY <1>3, <1>4, <1>6, <2>2 DEF ContextBegins, Kind
<1> QED
  BY <1>2, <1>5, <1>6

LEMMA ContextBeginsKept ==
  ASSUME DInv, ContextBegins, run.at = "turn" => context # <<>>, [Next]_vars
  PROVE  ContextBegins' /\ (context # <<>> => context' # <<>>)
<1> DEFINE Fine == ContextBegins' /\ (context # <<>> => context' # <<>>)
<1> SUFFICES Fine
  OBVIOUS
<1>0. MsgInv /\ "bash" \notin Assistant /\ "custom" \notin Assistant
  BY DInvIs DEF Assistant, AllAnswers
<1>1. CASE UNCHANGED messages
  BY <1>1 DEF messages, ContextBegins, Kind
<1>2. CASE Compacts
  BY <1>0, <1>2, BeginsCompacts
<1>3. CASE RunStep
  <2>1. ASSUME NEW kind, NEW ref, Speaks(kind, ref) PROVE Fine
    <3>1. /\ kind \in MessageKinds \ {"summary"} /\ ref \in Nat /\ Say(kind, ref)
          /\ kind \in Assistant => context # <<>>
      BY <2>1 DEF Speaks
    <3>2. Adds(1) /\ said'[Len(said) + 1] = Message(kind, ref)
      BY <1>0, <3>1, SayAdds
    <3>3. Len(said) \in Nat /\ Len(said') = Len(said) + 1
      BY <1>0, <3>2, LongerIs DEF Adds
    <3>4. \A i \in Len(said) + 1 .. Len(said') : said'[i].kind = kind
      BY <3>2, <3>3 DEF Message
    <3> QED
      BY <1>0, <3>1, <3>2, <3>4, BeginsAdds
  <2> HIDE DEF Fine
  <2> QED
    BY <1>1, <1>3, <2>1, RunMessages
<1>4. CASE Host \/ \E p \in Prompts : Settle(p)
  <2>1. ASSUME NEW n \in Nat, NEW kind \in {"bash", "custom"}, Record(kind, n) PROVE Fine
    <3>1. Adds(n) /\ \A i \in Len(said) + 1 .. Len(said') : said'[i].kind = kind
      BY <1>0, <2>1, RecordAdds
    <3> QED
      BY <1>0, <3>1, BeginsAdds
  <2> HIDE DEF Fine
  <2> QED
    BY <1>1, <1>4, <2>1, RecordMessages
<1>5. ASSUME NEW b \in BOOLEAN, EndManual(b) \/ \E p \in Prompts : EndCompaction(p, b)
      PROVE  Fine
  BY <1>1, <1>2, <1>5, CompactionMessages
<1>6. ASSUME NEW p \in Prompts, CheckSteps(p) PROVE Fine
  BY <1>0, <1>6, CheckTrims, BeginsTrims
<1>7. CASE \/ PrepareManual
           \/ \E p \in Prompts : Trigger(p) \/ StartRun(p) \/ Finish(p) \/ Continue(p) \/ Settled(p)
  BY <1>1, <1>7, OtherMessages
<1>8. CASE UNCHANGED vars
  BY <1>1, <1>8 DEF vars
<1> QED
  BY <1>3, <1>4, <1>5, <1>6, <1>7, <1>8 DEF Next, PromptStep, ManualStep, CheckSteps

\* How a prompt comes to its end.
Leaves(p) ==
    \/ ~HasQueued
    \/ run.at # "idle" /\ pc[p] # "running"
    \/ pc[p] = "post" /\ lastAssistant = 0
    \/ pc[p] = "continuing" /\ context = <<>>

Enters(p) ==
    /\ pc'[p] \in AfterPrompt => pc[p] \in AfterPrompt \/ Finish(p)
    /\ pc'[p] = "post" => Finish(p)
    /\ pc'[p] = "ending" => pc[p] = "ending" \/ Leaves(p)

LEMMA StagesEnter ==
  ASSUME DInv, NEW p \in Prompts, Prompt(p) \/ Trigger(p) \/ PromptStep(p)
  PROVE  Enters(p) /\ \A q \in Prompts \ {p} : pc'[q] = pc[q]
<1>0. pc \in [Prompts -> PromptStages]
  BY DInvIs
<1>1. \A q \in Prompts \ {p} : pc'[q] = pc[q]
  <2>1. PICK stage \in PromptStages : pc' = [pc EXCEPT ![p] = stage]
    BY StagesKept DEF StageMoved
  <2> QED
    BY <1>0, <2>1
<1>2. \A stage : Go(p, stage) => pc'[p] = stage
  BY <1>0 DEF Go
<1>3. AfterRun \in {"continuing", "ending"} /\ (AfterRun = "ending" => ~HasQueued)
  BY DEF AfterRun
<1>4. CASE Prompt(p)
  <2>1. CheckCompaction(p, LastReply, FALSE, "preCompact", "checked")
    BY <1>4 DEF Prompt
  <2>2. Go(p, "preCompact") \/ Go(p, "checked")
    BY <2>1, CheckEffect
  <2>3. pc'[p] \in {"preCompact", "checked"}
    BY <1>2, <2>2
  <2> QED
    BY <1>1, <2>3 DEF Enters, AfterPrompt
<1>5. CASE Trigger(p) \/ StartRun(p)
  <2>1. pc[p] # "running"
    BY <1>5 DEF Trigger, StartRun, At
  <2>2. Go(p, "running") \/ (run.at # "idle" /\ Go(p, "ending"))
    BY <1>5 DEF Trigger, StartRun, RunAgentPrompt
  <2>3. pc'[p] = "running" \/ (run.at # "idle" /\ pc'[p] = "ending")
    BY <1>2, <2>2
  <2> QED
    BY <1>1, <2>1, <2>3 DEF Enters, Leaves, AfterPrompt
<1>6. CASE Finish(p)
  <2>1. pc'[p] = "post"
    BY <1>2, <1>6 DEF Finish
  <2> QED
    BY <1>1, <1>6, <2>1 DEF Enters
<1>7. CASE Settle(p) \/ Settled(p)
  <2>1. pc'[p] \in {"settling", "done"}
    BY <1>2, <1>7 DEF Settle, Settled
  <2> QED
    BY <1>1, <2>1 DEF Enters, AfterPrompt
<1>8. CASE PostRun(p)
  <2>1. pc[p] = "post"
    BY <1>8 DEF PostRun, At
  <2>2. CASE WillRetry(lastAssistant)
    <3>1. pc'[p] = "sleeping"
      BY <1>2, <1>8, <2>2 DEF PostRun
    <3> QED
      BY <1>1, <2>1, <3>1 DEF Enters, AfterPrompt
  <2>3. CASE ~ WillRetry(lastAssistant)
    <3> DEFINE next == IF lastAssistant = 0 THEN "ending" ELSE AfterRun
    <3>1. CheckCompaction(p, lastAssistant, TRUE, "postCompact", next)
      BY <1>8, <2>3 DEF PostRun
    <3>2. next # "post" /\ (next = "ending" => lastAssistant = 0 \/ ~HasQueued)
      BY <1>3
    <3> HIDE DEF next
    <3>3. Go(p, "postCompact") \/ Go(p, next)
      BY <3>1, CheckEffect
    <3>4. pc'[p] # "post" /\ (pc'[p] = "ending" => lastAssistant = 0 \/ ~HasQueued)
      BY <1>2, <3>2, <3>3
    <3> QED
      BY <1>1, <2>1, <3>4 DEF Enters, Leaves, AfterPrompt
  <2> QED
    BY <2>2, <2>3
<1>9. CASE RetryWake(p)
  <2>1. pc[p] = "sleeping"
    BY <1>9 DEF RetryWake, At
  <2>2. Go(p, "postCompact") \/ Go(p, AfterRun) \/ Go(p, "continuing")
    <3>1. CASE p \in cancelled
      <4>1. CheckCompaction(p, work[p].msg, TRUE, "postCompact", AfterRun)
        BY <1>9, <3>1 DEF RetryWake
      <4> QED
        BY <4>1, CheckEffect
    <3>2. CASE p \notin cancelled
      BY <1>9, <3>2 DEF RetryWake
    <3> QED
      BY <3>1, <3>2
  <2>3. pc'[p] = "postCompact" \/ pc'[p] = AfterRun \/ pc'[p] = "continuing"
    BY <1>2, <2>2
  <2> QED
    BY <1>1, <1>3, <2>1, <2>3 DEF Enters, Leaves, AfterPrompt
<1>10. ASSUME NEW b \in BOOLEAN, EndCompaction(p, b)
       PROVE  Enters(p) /\ \A q \in Prompts \ {p} : pc'[q] = pc[q]
  <2>1. pc[p] \in {"preCompact", "postCompact"}
    BY <1>10 DEF EndCompaction
  <2>2. \/ pc[p] = "preCompact" /\ Go(p, "checked")
        \/ pc[p] = "postCompact" /\ (Go(p, "continuing") \/ Go(p, AfterRun))
    BY <1>10, <2>1 DEF EndCompaction, At
  <2>3. \/ pc[p] = "preCompact" /\ pc'[p] = "checked"
        \/ pc[p] = "postCompact" /\ (pc'[p] = "continuing" \/ pc'[p] = AfterRun)
    BY <1>2, <2>2
  <2> QED
    BY <1>1, <1>3, <2>3 DEF Enters, Leaves, AfterPrompt
<1>11. CASE Continue(p)
  <2>1. pc[p] = "continuing"
    BY <1>11 DEF Continue, At
  <2>2. \/ Go(p, "ending") /\ (run.at # "idle" \/ context = <<>> \/ ~HasQueued)
        \/ Go(p, "running")
    BY <1>11 DEF Continue
  <2>3. \/ pc'[p] = "ending" /\ (run.at # "idle" \/ context = <<>> \/ ~HasQueued)
        \/ pc'[p] = "running"
    BY <1>2, <2>2
  <2> QED
    BY <1>1, <2>1, <2>3 DEF Enters, Leaves, AfterPrompt
<1> QED
  BY <1>4, <1>5, <1>6, <1>7, <1>8, <1>9, <1>10, <1>11 DEF PromptStep

\* How a run begins.
Begins == /\ UNCHANGED messages
          /\ \/ run'.at = "prompting" /\ (context # <<>> \/ injecting' # <<>>)
             \/ run'.at = "turn" /\ context # <<>>

LEMMA RunEnters ==
  ASSUME DInv, [Next]_vars
  PROVE  \/ RunStep
         \/ run'.at = run.at /\ injecting' = injecting
         \/ \E p \in Prompts : Finish(p) /\ run'.at = "idle"
         \/ Begins
<1>0. run \in [at : RunStages, aborted : BOOLEAN]
  BY DEF DInv, TypeOK, ControlTypes
<1>1. ASSUME NEW p \in Prompts, Trigger(p) \/ StartRun(p)
      PROVE  (run'.at = run.at /\ injecting' = injecting) \/ Begins
  <2>1. RunAgentPrompt(p)
    BY <1>1 DEF Trigger, StartRun
  <2>2. UNCHANGED messages
    BY <2>1 DEF RunAgentPrompt
  <2>3. \/ run'.at = run.at /\ injecting' = injecting
        \/ run'.at = "prompting" /\ injecting' = <<p>>
    BY <2>1 DEF RunAgentPrompt
  <2> QED
    BY <2>2, <2>3 DEF Begins
<1>2. ASSUME NEW p \in Prompts, Finish(p) PROVE run'.at = "idle"
  BY <1>2 DEF Finish, NoRun
<1>3. ASSUME NEW p \in Prompts, Continue(p)
      PROVE  (run'.at = run.at /\ injecting' = injecting) \/ Begins
  <2>1. UNCHANGED messages
    BY <1>3 DEF Continue
  <2>2. \/ run'.at = run.at /\ injecting' = injecting
        \/ context # <<>> /\ run'.at \in {"prompting", "turn"}
    BY <1>3 DEF Continue
  <2> QED
    BY <2>1, <2>2 DEF Begins
<1>4. ASSUME NEW p \in Prompts, \/ Prompt(p) \/ PostRun(p) \/ RetryWake(p) \/ Settle(p) \/ Settled(p)
                                \/ \E b \in BOOLEAN : EndCompaction(p, b)
      PROVE  run'.at = run.at /\ injecting' = injecting
  BY <1>4 DEF Prompt, PostRun, RetryWake, Settle, Settled, EndCompaction
<1>5. ManualStep \/ Host => run'.at = run.at /\ injecting' = injecting
  <2>1. ManualStep \/ Host => /\ run' = run \/ run' = [run EXCEPT !.aborted = TRUE]
                              /\ injecting' = injecting
    BY DEF ManualStep, PrepareManual, EndManual, Host, Steer, FollowUp, Custom, Abort, StopWork,
           ClearQueue, Compact, AbortCompaction, RecordBashResult
  <2> QED
    BY <1>0, <2>1
<1>6. UNCHANGED vars => run'.at = run.at /\ injecting' = injecting
  BY DEF vars
<1> QED
  BY <1>1, <1>2, <1>3, <1>4, <1>5, <1>6 DEF Next, PromptStep

LEMMA SpokenKept ==
  ASSUME AInv, ContextBegins, Spoken, [Next]_vars
  PROVE  ContextBegins' /\ Spoken'
<1>0. /\ DInv /\ run \in [at : RunStages, aborted : BOOLEAN]
      /\ run.at = "turn" => context # <<>>
  BY DEF AInv, IInv, FlagTypes, Spoken
<1>1. ContextBegins' /\ (context # <<>> => context' # <<>>)
  BY <1>0, ContextBeginsKept
<1>2. ASSUME NEW p \in Prompts, pc'[p] \in AfterPrompt PROVE context' # <<>>
  <2>1. pc[p] \in AfterPrompt \/ \E q \in Prompts : Finish(q)
    <3>1. ASSUME NEW q \in Prompts, Prompt(q) \/ Trigger(q) \/ PromptStep(q)
          PROVE  pc[p] \in AfterPrompt \/ \E r \in Prompts : Finish(r)
      BY <1>0, <1>2, <3>1, StagesEnter DEF Enters
    <3>2. RunStep \/ ManualStep \/ Host \/ UNCHANGED vars => pc' = pc
      BY DEF RunStep, BeginRun, BeginTurn, Poll, Answer, Execute, ManualStep, PrepareManual,
             EndManual, Host, Steer, FollowUp, Custom, Abort, ClearQueue, Compact,
             AbortCompaction, RecordBashResult, stages, vars
    <3> QED
      BY <1>2, <3>1, <3>2 DEF Next
  <2>2. ASSUME NEW q \in Prompts, Finish(q) PROVE context # <<>>
    BY <2>2 DEF Finish, Spoken
  <2> QED
    BY <1>1, <2>1, <2>2 DEF Spoken
<1>3. /\ run'.at \notin {"idle", "prompting"} => context' # <<>>
      /\ run'.at = "prompting" => context' # <<>> \/ injecting' # <<>>
  <2>1. CASE RunStep
    <3>1. run'.at # "prompting"
      <4>1. BeginRun \/ BeginTurn \/ Poll => run'.at # "prompting"
        BY <1>0 DEF BeginRun, BeginTurn, Poll, RunAt
      <4>2. ASSUME NEW kind, Answer(kind) PROVE run'.at # "prompting"
        BY <1>0, <4>2 DEF Answer, RunAt
      <4>3. ASSUME NEW next \in {"called", "answered"}, Execute(next) PROVE run'.at # "prompting"
        BY <1>0, <4>3 DEF Execute, RunAt
      <4> QED
        BY <2>1, <4>1, <4>2, <4>3 DEF RunStep
    <3>2. CASE run.at = "prompting"
      <4>1. BeginRun /\ Inject
        BY <2>1, <3>2 DEF RunStep, BeginRun, BeginTurn, Poll, Answer, Execute
      <4>2. CASE injecting = <<>>
        BY <1>1, <3>1, <3>2, <4>2 DEF Spoken
      <4>3. CASE injecting # <<>>
        <5>1. PICK kind \in {"user", "custom"} : Say(kind, 0)
          BY <1>0, <4>1, <4>3, InjectAdds
        <5>2. kind \in MessageKinds \ {"summary"} /\ 0 \in Nat
          BY DEF MessageKinds
        <5>3. SpokenLast
          BY <1>0, <5>1, <5>2, SayIsLast, DInvIs
        <5> QED
          BY <3>1, <5>3 DEF SpokenLast
      <4> QED
        BY <4>2, <4>3
    <3>3. CASE run.at # "prompting"
      <4>1. run.at # "idle"
        BY <2>1 DEF RunStep, BeginRun, BeginTurn, Poll, Answer, Execute
      <4> QED
        BY <1>1, <3>1, <3>3, <4>1 DEF Spoken
    <3> QED
      BY <3>2, <3>3
  <2>2. CASE run'.at = run.at /\ injecting' = injecting
    BY <1>1, <2>2 DEF Spoken
  <2>3. CASE run'.at = "idle"
    BY <2>3
  <2>4. CASE Begins
    BY <1>1, <2>4 DEF Begins
  <2> QED
    BY <1>0, <2>1, <2>2, <2>3, <2>4, RunEnters
<1> QED
  BY <1>1, <1>2, <1>3 DEF Spoken

\* What was missed stays missed.
LEMMA MissedGrows ==
  ASSUME DInv, [Next]_vars
  PROVE  missed \subseteq missed'
<1>0. MsgInv
  BY DInvIs
<1>1. CASE UNCHANGED messages
  BY <1>1 DEF messages
<1>2. CASE Compacts
  BY <1>2 DEF Compacts, AppendCompaction
<1>3. CASE RunStep
  BY <1>1, <1>3, RunMessages DEF Speaks, Say
<1>4. CASE Host \/ \E p \in Prompts : Settle(p)
  BY <1>1, <1>4, RecordMessages DEF Record
<1>5. ASSUME NEW b \in BOOLEAN, EndManual(b) \/ \E p \in Prompts : EndCompaction(p, b)
      PROVE  missed \subseteq missed'
  BY <1>1, <1>2, <1>5, CompactionMessages
<1>6. ASSUME NEW p \in Prompts, CheckSteps(p) PROVE missed \subseteq missed'
  BY <1>6, CheckTrims DEF Trims
<1>7. CASE \/ PrepareManual
           \/ \E p \in Prompts : Trigger(p) \/ StartRun(p) \/ Finish(p) \/ Continue(p) \/ Settled(p)
  BY <1>1, <1>7, OtherMessages
<1>8. CASE UNCHANGED vars
  BY <1>1, <1>8 DEF vars
<1> QED
  BY <1>3, <1>4, <1>5, <1>6, <1>7, <1>8 DEF Next, PromptStep, ManualStep, CheckSteps

LEMMA RepliedKept ==
  ASSUME AInv, Replied, [Next]_vars
  PROVE  Replied'
<1> DEFINE Busy == {"batch", "called", "answered", "ended"}
<1>0. /\ DInv /\ IInv /\ MsgInv /\ run \in [at : RunStages, aborted : BOOLEAN]
      /\ pc \in [Prompts -> PromptStages]
  BY DInvIs DEF AInv, IInv, FlagTypes
<1> SUFFICES ASSUME missed' = {}, run'.at \in Busy \/ \E p \in Prompts : pc'[p] = "post"
             PROVE  lastAssistant' # 0
  BY DEF Replied
<1>1. missed = {}
  BY <1>0, MissedGrows
<1>2. run.at \in Busy \/ (\E p \in Prompts : pc[p] = "post") => lastAssistant # 0
  BY <1>1 DEF Replied
<1>3. CASE RunStep
  <2>1. pc' = pc
    BY <1>3 DEF RunStep, BeginRun, BeginTurn, Poll, Answer, Execute, stages
  <2>2. ASSUME NEW kind \in Answers \cup {"aborted"}, Answer(kind) PROVE lastAssistant' # 0
    <3>1. Say(kind, 0) /\ (connected => lastAssistant' = Len(said'))
      BY <2>2 DEF Answer
    <3>2. connected
      BY <3>1 DEF Say
    <3>3. kind \in MessageKinds \ {"summary"} /\ 0 \in Nat
      BY SessionAssumption DEF MessageKinds, Assistant, AllAnswers
    <3>4. Len(said') = Len(said) + 1 /\ Len(said) \in Nat
      BY <1>0, <3>1, <3>3, SayIsLast, DInvIs DEF SpokenLast
    <3> QED
      BY <3>1, <3>2, <3>4
  <2>3. CASE BeginRun \/ BeginTurn
    <3>1. run'.at = "turn" /\ lastAssistant' = lastAssistant
      BY <1>0, <2>3 DEF BeginRun, BeginTurn, RunAt
    <3> QED
      BY <1>2, <2>1, <3>1
  <2>4. ASSUME Poll \/ \E next : Execute(next) PROVE lastAssistant' # 0
    BY <1>2, <2>4 DEF Poll, Execute, control
  <2> QED
    BY <1>3, <2>2, <2>3, <2>4 DEF RunStep
<1>4. ASSUME NEW r \in Prompts, pc[r] \in {"running", "post"}, ~ RunStep
      PROVE  lastAssistant' # 0
  <2>1. CASE Finish(r)
    BY <1>2, <2>1 DEF Finish, control
  <2>2. CASE PostRun(r)
    <3>1. pc[r] = "post" /\ run' = run
      BY <2>2 DEF PostRun, At
    <3>2. run.at = "idle"
      BY <1>0, <3>1, OwnRun DEF Resting
    <3>3. Enters(r) /\ \A q \in Prompts \ {r} : pc'[q] = pc[q]
      BY <1>0, <2>2, StagesEnter DEF PromptStep
    <3>4. pc'[r] # "post"
      BY <3>1, <3>3 DEF Enters, Finish, At
    <3>5. \A q \in Prompts \ {r} : pc[q] # "post"
      BY <1>0, <3>1 DEF IInv, OneAtWork, Resting
    <3> QED
      BY <3>1, <3>2, <3>3, <3>4, <3>5
  <2>3. CASE Aside
    <3>1. \A q \in Prompts : pc'[q] = "post" => pc[q] = "post"
      BY <2>3 DEF Aside, Resting
    <3> QED
      BY <1>2, <2>3, <3>1 DEF Aside
  <2> QED
    BY <1>4, <2>1, <2>2, <2>3, DuringRound
<1>5. ASSUME \A r \in Prompts : pc[r] \notin {"running", "post"} PROVE FALSE
  <2>1. run.at = "idle"
    BY <1>0, <1>5 DEF IInv, RunHasOwner
  <2>2. ~ RunStep
    BY <2>1 DEF RunStep, BeginRun, BeginTurn, Poll, Answer, Execute
  <2>3. run'.at \notin Busy
    BY <1>0, <2>1, <2>2, RunEnters DEF Begins
  <2>4. ASSUME NEW q \in Prompts, Prompt(q) \/ Trigger(q) \/ PromptStep(q)
        PROVE  \A p \in Prompts : pc'[p] # "post"
    <3>1. ~ Finish(q)
      BY <1>5 DEF Finish, At
    <3> QED
      BY <1>0, <1>5, <2>4, <3>1, StagesEnter DEF Enters
  <2>5. ManualStep \/ Host \/ UNCHANGED vars => pc' = pc
    BY DEF ManualStep, PrepareManual, EndManual, Host, Steer, FollowUp, Custom, Abort, ClearQueue,
           Compact, AbortCompaction, RecordBashResult, stages, vars
  <2> QED
    BY <1>5, <2>2, <2>3, <2>4, <2>5 DEF Next
<1> QED
  BY <1>3, <1>4, <1>5

LEMMA RemainingIs ==
  ASSUME NEW S, NEW queue \in Seq(S)
  PROVE  ToSet(Remaining(queue)) \subseteq ToSet(queue)
<1>1. CASE queue = <<>>
  BY <1>1 DEF Remaining
<1>2. CASE queue # <<>>
  <2>1. /\ Tail(queue) \in Seq(S) /\ Len(Tail(queue)) = Len(queue) - 1
        /\ \A i \in 1 .. Len(queue) - 1 : Tail(queue)[i] = queue[i + 1] /\ i + 1 \in 1 .. Len(queue)
    BY <1>2
  <2>2. /\ ToSet(Tail(queue)) = {Tail(queue)[i] : i \in 1 .. Len(queue) - 1}
        /\ ToSet(queue) = {queue[i] : i \in 1 .. Len(queue)}
    BY <2>1, ToSetIs
  <2> QED
    BY <1>2, <2>1, <2>2 DEF Remaining
<1> QED
  BY <1>1, <1>2

\* Only the host fills the queues.
LEMMA QueuesShrink ==
  ASSUME DInv, [Next]_vars, ~ Host
  PROVE  /\ ToSet(steering') \subseteq ToSet(steering) /\ ToSet(followUp') \subseteq ToSet(followUp)
         /\ late' = late
<1>1. /\ ToSet(Remaining(steering)) \subseteq ToSet(steering)
      /\ ToSet(Remaining(followUp)) \subseteq ToSet(followUp)
  BY DInvIs, RemainingIs
<1> DEFINE Shrink == /\ steering' \in {steering, Remaining(steering)}
                     /\ followUp' \in {followUp, Remaining(followUp)} /\ late' = late
<1>2. Shrink
  <2>1. ASSUME NEW p \in Prompts, Prompt(p) \/ Trigger(p) \/ PromptStep(p) PROVE Shrink
    <3>1. CASE Continue(p)
      BY <3>1 DEF Continue
    <3>2. CASE Prompt(p) \/ Trigger(p) \/ StartRun(p) \/ Finish(p) \/ PostRun(p) \/ RetryWake(p)
      BY <3>2 DEF Prompt, Trigger, StartRun, RunAgentPrompt, Finish, PostRun, RetryWake, queues
    <3>3. CASE Settle(p) \/ Settled(p) \/ \E b \in BOOLEAN : EndCompaction(p, b)
      BY <3>3 DEF Settle, Settled, EndCompaction, queues
    <3> QED
      BY <2>1, <3>1, <3>2, <3>3 DEF PromptStep
  <2>2. CASE BeginRun \/ BeginTurn \/ Poll
    BY <2>2 DEF BeginRun, BeginTurn, Poll
  <2>3. ASSUME NEW kind, Answer(kind) PROVE Shrink
    BY <2>3 DEF Answer, queues
  <2>4. ASSUME NEW next, Execute(next) PROVE Shrink
    BY <2>4 DEF Execute, queues
  <2>5. CASE ManualStep \/ UNCHANGED vars
    BY <2>5 DEF ManualStep, PrepareManual, EndManual, vars, queues
  <2> QED
    BY <2>1, <2>2, <2>3, <2>4, <2>5 DEF Next, RunStep
<1> QED
  BY <1>1, <1>2

LEMMA LateOnlyKept ==
  ASSUME AInv, ~Overlap, Spoken, Replied, LateOnly, [Next]_vars
  PROVE  LateOnly'
<1> DEFINE Over == ~active \/ \E p \in Prompts : pc[p] = "ending"
           Queued == ToSet(steering) \cup ToSet(followUp)
<1>0. /\ DInv /\ IInv /\ active \in BOOLEAN /\ pc \in [Prompts -> PromptStages]
      /\ steering \in Seq(Queueable) /\ followUp \in Seq(Queueable)
  BY DInvIs DEF AInv, IInv, FlagTypes
<1> SUFFICES ASSUME missed' = {}, Over' PROVE Queued' \subseteq late'
  BY DEF LateOnly
<1>1. missed = {}
  BY <1>0, MissedGrows
<1>2. Over => Queued \subseteq late
  BY <1>1 DEF LateOnly
<1> HIDE DEF Over, Queued
<1>3. ASSUME Over, ~ Host PROVE Queued' \subseteq late'
  BY <1>0, <1>2, <1>3, QueuesShrink DEF Queued
<1>4. CASE Host
  <2>1. UNCHANGED <<pc, active>>
    BY <1>4 DEF Host, Steer, FollowUp, Custom, Abort, ClearQueue, Compact, AbortCompaction,
                RecordBashResult, stages
  <2>2. Over /\ Queued \subseteq late
    BY <1>2, <2>1 DEF Over
  <2>3. ASSUME NEW m, Sent(m) PROVE late' = late \cup {m}
    BY <2>2, <2>3 DEF Sent, Over, At
  <2>4. ASSUME NEW m \in Texts \cup Customs
        PROVE  /\ ToSet(Append(steering, m)) = ToSet(steering) \cup {m}
               /\ ToSet(Append(followUp, m)) = ToSet(followUp) \cup {m}
    <3>1. m \in Queueable
      BY DEF Queueable
    <3> QED
      BY <1>0, <3>1, ToSetAppend
  <2>5. ASSUME NEW m \in Texts, Steer(m) \/ FollowUp(m) PROVE Queued' \subseteq late'
    <3>1. late' = late \cup {m}
      BY <2>3, <2>5 DEF Steer, FollowUp
    <3>2. Queued' = Queued \cup {m}
      BY <2>4, <2>5 DEF Steer, FollowUp, Queued
    <3> QED
      BY <2>2, <3>1, <3>2
  <2>6. ASSUME NEW m \in Customs, Custom(m) PROVE Queued' \subseteq late'
    <3>1. late' = late \cup {m}
      BY <2>3, <2>6 DEF Custom
    <3>2. Queued' \subseteq Queued \cup {m}
      BY <2>4, <2>6 DEF Custom, Queued
    <3> QED
      BY <2>2, <3>1, <3>2
  <2>7. CASE ClearQueue
    <3>1. ToSet(<<>>) = {}
      BY DEF ToSet
    <3> QED
      BY <2>7, <3>1 DEF ClearQueue, Queued
  <2>8. CASE (\E a \in Aborts : Abort(a)) \/ Compact \/ AbortCompaction \/ RecordBashResult
    BY <2>2, <2>8 DEF Abort, Compact, AbortCompaction, RecordBashResult, Queued, queues
  <2> QED
    BY <1>4, <2>5, <2>6, <2>7, <2>8 DEF Host
<1>5. RunStep \/ ManualStep \/ UNCHANGED vars => UNCHANGED <<pc, active>>
  BY DEF RunStep, BeginRun, BeginTurn, Poll, Answer, Execute, ManualStep, PrepareManual,
         EndManual, stages, vars
<1>6. ASSUME NEW p \in Prompts, Prompt(p) \/ Trigger(p) \/ PromptStep(p), ~ Over
      PROVE  Queued' \subseteq late'
  <2>1. Enters(p) /\ \A q \in Prompts \ {p} : pc'[q] = pc[q]
    BY <1>0, <1>6, StagesEnter
  <2>2. active'
    <3>1. ~ Settle(p)
      BY <1>6 DEF Settle, At, Over
    <3>2. active' = active \/ active' = TRUE
      <4>1. CASE Prompt(p) \/ Trigger(p) \/ StartRun(p) \/ Finish(p)
        BY <4>1 DEF Prompt, Trigger, StartRun, RunAgentPrompt, Finish
      <4>2. CASE PostRun(p) \/ RetryWake(p) \/ Settled(p) \/ \E b \in BOOLEAN : EndCompaction(p, b)
        BY <4>2 DEF PostRun, RetryWake, Settled, EndCompaction
      <4>3. CASE Continue(p)
        BY <4>3 DEF Continue
      <4> QED
        BY <1>6, <3>1, <4>1, <4>2, <4>3 DEF PromptStep
    <3> QED
      BY <1>6, <3>2 DEF Over
  <2>3. pc'[p] = "ending" /\ pc[p] # "ending"
    BY <1>6, <2>1, <2>2 DEF Over
  <2>4. Leaves(p)
    BY <2>1, <2>3 DEF Enters
  <2>5. ~ HasQueued
    <3>1. ~ (pc[p] = "continuing" /\ context = <<>>)
      BY DEF Spoken, AfterPrompt
    <3>2. ~ (pc[p] = "post" /\ lastAssistant = 0)
      BY <1>1 DEF Replied
    <3>3. pc[p] # "running" => run.at = "idle"
      <4>1. pc[p] \notin Resting \/ \A q \in Prompts \ {p} : pc[q] \in Resting
        <5>1. CASE Prompt(p) \/ Trigger(p)
          BY <5>1 DEF Prompt, Trigger, MayStart
        <5>2. CASE UnderWay(p)
          BY <5>2, UnderWayIs
        <5>3. CASE Settled(p)
          <6>1. pc' = [pc EXCEPT ![p] = "done"]
            BY <5>3 DEF Settled, Go
          <6> QED
            BY <1>0, <2>3, <6>1
        <5> QED
          BY <1>6, <5>1, <5>2, <5>3 DEF PromptStep, UnderWay
      <4> QED
        BY <1>0, <4>1, OwnRun
    <3> QED
      BY <2>4, <3>1, <3>2, <3>3 DEF Leaves
  <2>6. Queued = {}
    <3>1. ToSet(<<>>) = {}
      BY DEF ToSet
    <3> QED
      BY <2>5, <3>1 DEF HasQueued, Queued
  <2>7. ~ Host => Queued' \subseteq Queued
    BY <1>0, QueuesShrink DEF Queued
  <2> QED
    BY <1>4, <2>6, <2>7
<1>7. ~ Over /\ ~ Host => \E p \in Prompts : Prompt(p) \/ Trigger(p) \/ PromptStep(p)
  BY <1>5 DEF Over, Next
<1> QED
  BY <1>3, <1>4, <1>6, <1>7

LInv == AInv /\ ContextBegins /\ Spoken /\ Replied /\ LateOnly

LEMMA InitLInv == Init => LInv
<1> SUFFICES ASSUME Init PROVE LInv
  OBVIOUS
<1>1. /\ context = <<>> /\ run.at = "idle" /\ \A p \in Prompts : pc[p] = "ready"
      /\ steering = <<>> /\ followUp = <<>>
  BY DEF Init, NoRun
<1>2. ToSet(<<>>) = {}
  BY DEF ToSet
<1> QED
  BY <1>1, <1>2, InitAInv DEF LInv, ContextBegins, Spoken, Replied, LateOnly, AfterPrompt

LEMMA StepLInv == ~Overlap /\ LInv /\ [Next]_vars => LInv'
BY StepAInv, SpokenKept, RepliedKept, LateOnlyKept DEF LInv

\* A message that was queued while a prompt was active and still going to look
\* is delivered before the session settles, whatever fails, is retried,
\* compacted or aborted, if no prompt starts before the one before it has
\* settled and the session heard every message.
THEOREM NothingLeft == ASSUME ~Overlap PROVE Spec => []NothingLeftBehind
<1>1. LInv => NothingLeftBehind
  BY DEF LInv, LateOnly, NothingLeftBehind
<1>2. ~Overlap
  OBVIOUS
<1> QED
  BY InitLInv, StepLInv, <1>1, <1>2, PTL DEF Spec

-----------------------------------------------------------------------------
(* The host sees what waits.                                                *)

\* The loop injects one message at a time.
InHand ==
    /\ Len(injecting) <= 1
    /\ injecting # <<>> => run.at \in {"prompting", "turn"}

\* No message waits twice.
Distinct(s) == \A i, j \in DOMAIN s : s[i] = s[j] => i = j
Apart ==
    /\ Distinct(steering) /\ Distinct(followUp)
    /\ ToSet(steering) \cap ToSet(followUp) = {}
    /\ ToSet(injecting) \cap (ToSet(steering) \cup ToSet(followUp)) = {}
    /\ ToSet(steering) \cup ToSet(followUp) \subseteq sent
    /\ ToSet(injecting) \subseteq sent \cup Prompts

\* The session shows what waits, and perhaps the message about to be injected.
Exact == shown.steer = Selected(steering, Texts) /\ shown.follow = Selected(followUp, Texts)
Ahead ==
    /\ injecting # <<>> /\ injecting[1] \in Texts
    /\ \/ /\ shown.steer = <<injecting[1]>> \o Selected(steering, Texts)
          /\ shown.follow = Selected(followUp, Texts)
       \/ /\ shown.steer = Selected(steering, Texts)
          /\ shown.follow = <<injecting[1]>> \o Selected(followUp, Texts)
ShowsQueues == missed = {} => Exact \/ Ahead

LEMMA DrainApart ==
  ASSUME NEW S, NEW queue \in Seq(S)
  PROVE  /\ ToSet(Drained(queue)) \cup ToSet(Remaining(queue)) = ToSet(queue)
         /\ Distinct(queue) => /\ Distinct(Remaining(queue))
                               /\ ToSet(Drained(queue)) \cap ToSet(Remaining(queue)) = {}
<1>1. CASE queue = <<>>
  <2>1. ToSet(<<>>) = {} /\ Distinct(<<>>)
    BY DEF ToSet, Distinct
  <2> QED
    BY <1>1, <2>1 DEF Drained, Remaining
<1>2. CASE queue # <<>>
  <2> DEFINE t == Tail(queue)
             n == Len(queue)
  <2>1. /\ n \in Nat \ {0} /\ t \in Seq(S) /\ Len(t) = n - 1 /\ queue[1] \in S
        /\ \A i \in 1 .. n - 1 : t[i] = queue[i + 1]
        /\ DOMAIN t = 1 .. n - 1 /\ DOMAIN queue = 1 .. n
    BY <1>2
  <2> HIDE DEF t, n
  <2>2. \A i \in 1 .. n - 1 : i + 1 \in 1 .. n /\ i + 1 # 1
    BY <2>1
  <2>3. \A i \in 1 .. n : i = 1 \/ i - 1 \in 1 .. n - 1
    BY <2>1
  <2>4. ToSet(t) = {t[i] : i \in 1 .. n - 1} /\ ToSet(queue) = {queue[i] : i \in 1 .. n}
    BY <2>1 DEF ToSet
  <2>5. ToSet(<<queue[1]>>) = {queue[1]}
    BY DEF ToSet
  <2>6. Drained(queue) = <<queue[1]>> /\ Remaining(queue) = t
    BY <1>2 DEF Drained, Remaining, t
  <2>7. ToSet(queue) = {queue[1]} \cup ToSet(t)
    <3>1. 1 \in 1 .. n
      BY <2>1
    <3>2. ToSet(queue) \subseteq {queue[1]} \cup ToSet(t)
      <4>1. ASSUME NEW i \in 1 .. n PROVE queue[i] \in {queue[1]} \cup ToSet(t)
        <5>1. CASE i = 1
          BY <5>1
        <5>2. CASE i - 1 \in 1 .. n - 1
          <6>1. t[i - 1] = queue[i]
            BY <2>1, <5>2
          <6> QED
            BY <2>4, <5>2, <6>1
        <5> QED
          BY <2>3, <5>1, <5>2
      <4> QED
        BY <2>4, <4>1
    <3>3. ToSet(t) \subseteq ToSet(queue)
      BY <2>1, <2>2, <2>4
    <3> QED
      BY <2>4, <3>1, <3>2, <3>3
  <2>8. ASSUME Distinct(queue)
        PROVE  Distinct(t) /\ queue[1] \notin ToSet(t)
    <3>1. \A i, j \in 1 .. n : queue[i] = queue[j] => i = j
      BY <2>1, <2>8 DEF Distinct
    <3>2. ASSUME NEW i \in 1 .. n - 1, NEW j \in 1 .. n - 1, t[i] = t[j] PROVE i = j
      <4>1. i + 1 = j + 1
        BY <2>1, <2>2, <3>1, <3>2
      <4> QED
        BY <2>1, <4>1
    <3>3. \A i \in 1 .. n - 1 : t[i] # queue[1]
      <4>1. 1 \in 1 .. n
        BY <2>1
      <4> QED
        BY <2>1, <2>2, <3>1, <4>1
    <3> QED
      BY <2>1, <2>4, <3>2, <3>3 DEF Distinct
  <2> QED
    BY <2>5, <2>6, <2>7, <2>8
<1> QED
  BY <1>1, <1>2

LEMMA DistinctAppend ==
  ASSUME NEW S, NEW s \in Seq(S), NEW e \in S, Distinct(s), e \notin ToSet(s)
  PROVE  Distinct(Append(s, e))
<1> DEFINE t == Append(s, e)
           n == Len(s)
<1>1. /\ n \in Nat /\ DOMAIN t = 1 .. n + 1 /\ DOMAIN s = 1 .. n /\ t[n + 1] = e
      /\ \A i \in 1 .. n : t[i] = s[i]
  OBVIOUS
<1> HIDE DEF t, n
<1>2. \A i \in 1 .. n : s[i] # e
  BY <1>1 DEF ToSet
<1>3. \A i \in 1 .. n + 1 : i \in 1 .. n \/ i = n + 1
  BY <1>1
<1>4. \A i, j \in 1 .. n : s[i] = s[j] => i = j
  BY <1>1 DEF Distinct
<1> QED
  BY <1>1, <1>2, <1>3, <1>4 DEF Distinct, t

LEMMA DrainSelected ==
  ASSUME NEW S, NEW queue \in Seq(S), NEW T
  PROVE  IF Drained(queue) # <<>> /\ Drained(queue)[1] \in T
         THEN Selected(queue, T) = <<Drained(queue)[1]>> \o Selected(Remaining(queue), T)
         ELSE Selected(queue, T) = Selected(Remaining(queue), T)
<1>1. CASE queue = <<>>
  BY <1>1 DEF Drained, Remaining
<1>2. CASE queue # <<>>
  <2> DEFINE e == queue[1]
             t == Tail(queue)
  <2>1. e \in S /\ t \in Seq(S) /\ <<e>> \in Seq(S) /\ queue = <<e>> \o t
    <3>1. Len(queue) \in Nat \ {0}
      BY <1>2
    <3>2. t \in Seq(S) /\ Len(t) = Len(queue) - 1 /\ e \in S
          /\ \A i \in 1 .. Len(queue) - 1 : t[i] = queue[i + 1]
      BY <1>2
    <3> HIDE DEF t, e
    <3>3. /\ <<e>> \o t \in Seq(S) /\ Len(<<e>> \o t) = Len(queue)
          /\ \A i \in 1 .. Len(queue) : (<<e>> \o t)[i] = IF i = 1 THEN e ELSE t[i - 1]
      BY <3>1, <3>2
    <3>4. \A i \in 1 .. Len(queue) : i # 1 => i - 1 \in 1 .. Len(queue) - 1 /\ (i - 1) + 1 = i
      BY <3>1
    <3>5. \A i \in 1 .. Len(queue) : (<<e>> \o t)[i] = queue[i]
      BY <3>2, <3>3, <3>4 DEF e
    <3> QED
      BY <3>2, <3>3, <3>5
  <2>2. Drained(queue) = <<e>> /\ Remaining(queue) = t
    BY <1>2 DEF Drained, Remaining
  <2> HIDE DEF e, t
  <2>3. Selected(queue, T) = Selected(<<e>>, T) \o Selected(t, T)
    <3>1. Selected(<<e>> \o t, T) = Selected(<<e>>, T) \o Selected(t, T)
      <4> DEFINE u == <<e>>
      <4>1. t \in Seq(S) /\ u \in Seq(S)
        BY <2>1
      <4> HIDE DEF u
      <4>2. Selected(u \o t, T) = Selected(u, T) \o Selected(t, T)
        BY <4>1, SelectedConcat
      <4> QED
        BY <4>2 DEF u
    <3> QED
      BY <2>1, <3>1
  <2>4. Selected(<<e>>, T) = IF e \in T THEN <<e>> ELSE <<>>
    BY <2>1, SelectedOne
  <2>5. <<>> \o Selected(t, T) = Selected(t, T)
    BY <2>1, SelectedTypes, ConcatEmptySeq
  <2>6. <<e>> # <<>> /\ <<e>>[1] = e
    OBVIOUS
  <2> QED
    BY <2>2, <2>3, <2>4, <2>5, <2>6
<1> QED
  BY <1>1, <1>2

\* What is selected was there.
LEMMA SelectedFrom ==
  ASSUME NEW S, NEW s \in Seq(S), NEW T
  PROVE  ToSet(Selected(s, T)) \subseteq ToSet(s)
<1>1. s \in Seq(ToSet(s))
  BY DEF ToSet
<1>2. Selected(s, T) \in Seq(ToSet(s))
  BY <1>1, SelectedTypes
<1> QED
  BY <1>2, ToSetIs

LEMMA SelectedIn ==
  ASSUME NEW S, NEW s \in Seq(S), NEW T
  PROVE  Selected(s, T) \in Seq(T)
<1> DEFINE Q == {u \in Seq(S) : Selected(u, T) \in Seq(T)}
<1>1. <<>> \in Q
  <2>1. <<>> \in Seq(S) /\ <<>> \in Seq(T)
    OBVIOUS
  <2>2. Selected(<<>>, T) = <<>>
    BY SelectedEmpty
  <2>3. Selected(<<>>, T) \in Seq(T)
    BY ONLY <2>1, <2>2
  <2> QED
    BY <2>1, <2>3
<1>2. ASSUME NEW u \in Q, NEW e \in S PROVE Append(u, e) \in Q
  <2>1. u \in Seq(S) /\ Selected(u, T) \in Seq(T)
    BY <1>2
  <2>2. Selected(Append(u, e), T) = IF e \in T THEN Append(Selected(u, T), e) ELSE Selected(u, T)
    BY <2>1, SelectedAppend
  <2>3. e \in T => Append(Selected(u, T), e) \in Seq(T)
    BY <2>1, AppendProperties
  <2>4. Append(u, e) \in Seq(S)
    BY <2>1, AppendProperties
  <2>5. Selected(Append(u, e), T) \in Seq(T)
    BY <2>1, <2>2, <2>3
  <2> QED
    BY <2>4, <2>5
<1>3. Q \subseteq Seq(S)
  OBVIOUS
<1> HIDE DEF Q
<1>4. s \in Q
  BY <1>1, <1>2, <1>3, SequencesBelow
<1> QED
  BY <1>4 DEF Q

LEMMA InHandKept ==
  ASSUME DInv, RunHasOwner, InHand, [Next]_vars
  PROVE  InHand'
<1>0. /\ run \in [at : RunStages, aborted : BOOLEAN]
      /\ injecting \in Seq(Queueable \cup Prompts)
      /\ steering \in Seq(Queueable) /\ followUp \in Seq(Queueable)
  BY DInvIs DEF DInv, TypeOK, ControlTypes
<1>1. /\ Len(Drained(steering)) <= 1 /\ Len(Drained(followUp)) <= 1 /\ Len(<<>>) <= 1
      /\ Drained(<<>>) = <<>>
  BY DEF Drained
<1>2. CASE run'.at = run.at /\ injecting' = injecting
  BY <1>2 DEF InHand
<1>3. ASSUME NEW p \in Prompts, Prompt(p) \/ Trigger(p) \/ PromptStep(p) PROVE InHand'
  <2>1. CASE Trigger(p) \/ StartRun(p)
    <3>1. \/ run' = run /\ injecting' = injecting
          \/ run'.at = "prompting" /\ injecting' = <<p>>
      BY <2>1 DEF Trigger, StartRun, RunAgentPrompt
    <3>2. Len(<<p>>) <= 1
      OBVIOUS
    <3> QED
      BY <1>2, <3>1, <3>2 DEF InHand
  <2>2. CASE Continue(p)
    <3>1. \/ run' = run /\ injecting' = injecting
          \/ /\ run'.at \in {"prompting", "turn"}
             /\ injecting' \in {<<>>, Drained(steering), Drained(followUp)}
      BY <2>2 DEF Continue
    <3> QED
      BY <1>1, <1>2, <3>1 DEF InHand
  <2>3. CASE Finish(p)
    BY <2>3 DEF Finish, InHand
  <2>4. CASE \/ Prompt(p) \/ PostRun(p) \/ RetryWake(p) \/ Settle(p) \/ Settled(p)
             \/ \E b \in BOOLEAN : EndCompaction(p, b)
    <3>1. run' = run /\ injecting' = injecting
      BY <2>4 DEF Prompt, PostRun, RetryWake, Settle, Settled, EndCompaction
    <3> QED
      BY <1>2, <3>1
  <2> QED
    BY <1>3, <2>1, <2>2, <2>3, <2>4 DEF PromptStep
<1>4. CASE RunStep
  <2>1. CASE BeginRun \/ BeginTurn
    <3>1. run'.at = "turn" /\ injecting' \in {<<>>, Drained(steering)}
      BY <1>0, <2>1 DEF BeginRun, BeginTurn, RunAt
    <3> QED
      BY <1>1, <3>1 DEF InHand
  <2>2. CASE Poll
    <3>1. \/ run'.at = "turn" /\ injecting' \in {Drained(steering), Drained(followUp)}
          \/ injecting' = Drained(<<>>)
      BY <1>0, <2>2 DEF Poll, RunAt
    <3> QED
      BY <1>1, <3>1 DEF InHand
  <2>3. ASSUME NEW kind, Answer(kind) PROVE injecting' = <<>>
    BY <2>3 DEF Answer
  <2>4. ASSUME NEW next, Execute(next) PROVE injecting' = <<>>
    BY <2>4 DEF Execute, InHand
  <2> QED
    BY <1>1, <1>4, <2>1, <2>2, <2>3, <2>4 DEF RunStep, InHand
<1>5. ManualStep \/ Host => run'.at = run.at /\ injecting' = injecting
  <2>1. ManualStep \/ Host => /\ run' = run \/ run' = [run EXCEPT !.aborted = TRUE]
                              /\ injecting' = injecting
    BY DEF ManualStep, PrepareManual, EndManual, Host, Steer, FollowUp, Custom, Abort, StopWork,
           ClearQueue, Compact, AbortCompaction, RecordBashResult
  <2> QED
    BY <1>0, <2>1
<1>6. UNCHANGED vars => run'.at = run.at /\ injecting' = injecting
  BY DEF vars
<1> QED
  BY <1>2, <1>3, <1>4, <1>5, <1>6 DEF Next

\* How the queues change: nothing, one of them is drained, the loop takes what
\* it injects, one more message waits, or all are dropped.
Takes == UNCHANGED <<steering, followUp, sent>> /\ injecting' = <<>>
Prompted(p) == UNCHANGED <<steering, followUp, sent>> /\ injecting' = <<p>>
Steers == /\ injecting' = Drained(steering) /\ steering' = Remaining(steering)
          /\ UNCHANGED <<followUp, sent>>
Follows == /\ injecting' = Drained(followUp) /\ followUp' = Remaining(followUp)
           /\ UNCHANGED <<steering, sent>>

LEMMA QueueSteps ==
  ASSUME DInv, [Next]_vars, ~ Host
  PROVE  \/ UNCHANGED <<steering, followUp, sent, injecting>>
         \/ Takes \/ Steers \/ Follows \/ \E p \in Prompts : Prompted(p)
<1> DEFINE Same == UNCHANGED <<steering, followUp, sent, injecting>>
<1>1. ASSUME NEW p \in Prompts, Prompt(p) \/ Trigger(p) \/ PromptStep(p)
      PROVE  Same \/ Takes \/ Steers \/ Follows \/ Prompted(p)
  <2>1. CASE Trigger(p) \/ StartRun(p)
    BY <2>1 DEF Trigger, StartRun, RunAgentPrompt, Prompted, queues
  <2>2. CASE Continue(p)
    BY <2>2 DEF Continue, Takes, Steers, Follows
  <2>3. CASE \/ Prompt(p) \/ Finish(p) \/ PostRun(p) \/ RetryWake(p) \/ Settle(p) \/ Settled(p)
             \/ \E b \in BOOLEAN : EndCompaction(p, b)
    BY <2>3 DEF Prompt, Finish, PostRun, RetryWake, Settle, Settled, EndCompaction, queues
  <2> QED
    BY <1>1, <2>1, <2>2, <2>3 DEF PromptStep
<1>2. CASE BeginRun
  BY <1>2 DEF BeginRun, Steers
<1>3. CASE BeginTurn
  BY <1>3 DEF BeginTurn, Takes
<1>4. CASE Poll
  BY <1>4 DEF Poll, Steers, Follows
<1>5. ASSUME NEW kind, Answer(kind) PROVE Same
  BY <1>5 DEF Answer, queues
<1>6. ASSUME NEW next, Execute(next) PROVE Same
  BY <1>6 DEF Execute, queues
<1>7. CASE ManualStep \/ UNCHANGED vars
  BY <1>7 DEF ManualStep, PrepareManual, EndManual, vars, queues
<1> HIDE DEF Same
<1> QED
  BY <1>1, <1>2, <1>3, <1>4, <1>5, <1>6, <1>7 DEF Next, RunStep, Same

LEMMA ApartKept ==
  ASSUME DInv, Apart, [Next]_vars
  PROVE  Apart'
<1>0. /\ injecting \in Seq(Queueable \cup Prompts)
      /\ steering \in Seq(Queueable) /\ followUp \in Seq(Queueable)
      /\ sent \subseteq Queueable /\ ToSet(<<>>) = {} /\ Prompts \cap Queueable = {}
      /\ ToSet(steering) \subseteq Queueable /\ ToSet(followUp) \subseteq Queueable
  <2>1. ToSet(<<>>) = {} /\ Prompts \cap Queueable = {}
    BY SessionAssumption DEF ToSet, Queueable
  <2> QED
    BY <2>1, DInvIs, ToSetIs
<1> USE DEF Apart
<1>1. CASE UNCHANGED <<steering, followUp, sent, injecting>>
  BY <1>1
<1>2. CASE Takes
  BY <1>0, <1>2 DEF Takes
<1>3. CASE Steers
  <2>1. /\ ToSet(Drained(steering)) \cup ToSet(Remaining(steering)) = ToSet(steering)
        /\ Distinct(Remaining(steering))
        /\ ToSet(Drained(steering)) \cap ToSet(Remaining(steering)) = {}
    BY <1>0, DrainApart
  <2> QED
    BY <1>3, <2>1 DEF Steers
<1>4. CASE Follows
  <2>1. /\ ToSet(Drained(followUp)) \cup ToSet(Remaining(followUp)) = ToSet(followUp)
        /\ Distinct(Remaining(followUp))
        /\ ToSet(Drained(followUp)) \cap ToSet(Remaining(followUp)) = {}
    BY <1>0, DrainApart
  <2> QED
    BY <1>4, <2>1 DEF Follows
<1>5. ASSUME NEW p \in Prompts, Prompted(p) PROVE Apart'
  <2>1. ToSet(<<p>>) = {p}
    BY DEF ToSet
  <2> QED
    BY <1>0, <1>5, <2>1 DEF Prompted
<1>6. CASE Host
  <2>1. ASSUME NEW m \in Queueable, Sent(m), injecting' = injecting,
               \/ steering' = Append(steering, m) /\ followUp' = followUp
               \/ steering' = steering /\ followUp' = Append(followUp, m)
               \/ steering' = steering /\ followUp' = followUp
        PROVE  Apart'
    <3>1. /\ m \notin sent /\ sent' = sent \cup {m} /\ m \notin Prompts
          /\ m \notin ToSet(steering) /\ m \notin ToSet(followUp) /\ m \notin ToSet(injecting)
      BY <1>0, <2>1 DEF Sent
    <3>2. /\ ToSet(Append(steering, m)) = ToSet(steering) \cup {m} /\ Distinct(Append(steering, m))
          /\ ToSet(Append(followUp, m)) = ToSet(followUp) \cup {m} /\ Distinct(Append(followUp, m))
      BY <1>0, <3>1, ToSetAppend, DistinctAppend
    <3> QED
      BY <2>1, <3>1, <3>2
  <2>2. ASSUME NEW m \in Texts, Steer(m) \/ FollowUp(m) PROVE Apart'
    BY <2>1, <2>2 DEF Steer, FollowUp, Queueable
  <2>3. ASSUME NEW m \in Customs, Custom(m) PROVE Apart'
    BY <2>1, <2>3 DEF Custom, Queueable
  <2>4. CASE ClearQueue
    <3>1. Distinct(<<>>)
      BY DEF Distinct
    <3> QED
      BY <1>0, <2>4, <3>1 DEF ClearQueue
  <2>5. CASE (\E a \in Aborts : Abort(a)) \/ Compact \/ AbortCompaction \/ RecordBashResult
    BY <1>1, <2>5 DEF Abort, Compact, AbortCompaction, RecordBashResult, queues
  <2> QED
    BY <1>6, <2>2, <2>3, <2>4, <2>5 DEF Host
<1> QED
  BY <1>1, <1>2, <1>3, <1>4, <1>5, <1>6, QueueSteps

LEMMA ShownDrains ==
  ASSUME DInv, Takes \/ Steers \/ Follows \/ \E p \in Prompts : Prompted(p),
         shown'.steer = Selected(steering, Texts), shown'.follow = Selected(followUp, Texts)
  PROVE  Exact' \/ Ahead'
<1>0. steering \in Seq(Queueable) /\ followUp \in Seq(Queueable)
  BY DInvIs
<1>1. CASE Takes \/ \E p \in Prompts : Prompted(p)
  BY <1>1 DEF Takes, Prompted, Exact
<1>2. CASE Steers
  <2>1. IF Drained(steering) # <<>> /\ Drained(steering)[1] \in Texts
        THEN Selected(steering, Texts) =
                    <<Drained(steering)[1]>> \o Selected(Remaining(steering), Texts)
        ELSE Selected(steering, Texts) = Selected(Remaining(steering), Texts)
    BY <1>0, DrainSelected
  <2> QED
    BY <1>2, <2>1 DEF Steers, Exact, Ahead
<1>3. CASE Follows
  <2>1. IF Drained(followUp) # <<>> /\ Drained(followUp)[1] \in Texts
        THEN Selected(followUp, Texts) =
                    <<Drained(followUp)[1]>> \o Selected(Remaining(followUp), Texts)
        ELSE Selected(followUp, Texts) = Selected(Remaining(followUp), Texts)
    BY <1>0, DrainSelected
  <2> QED
    BY <1>3, <2>1 DEF Follows, Exact, Ahead
<1> QED
  BY <1>1, <1>2, <1>3

\* A message put into the context is no longer shown.
LEMMA InjectShows ==
  ASSUME DInv, InHand, Apart, Exact \/ Ahead, Inject, connected \/ injecting = <<>>
  PROVE  shown'.steer = Selected(steering, Texts) /\ shown'.follow = Selected(followUp, Texts)
<1> DEFINE s == Selected(steering, Texts)
           f == Selected(followUp, Texts)
<1>0. /\ steering \in Seq(Queueable) /\ followUp \in Seq(Queueable)
      /\ shown \in [steer : Seq(Texts), follow : Seq(Texts)]
      /\ injecting \in Seq(Queueable \cup Prompts)
      /\ s \in Seq(Queueable) /\ f \in Seq(Queueable)
      /\ ToSet(s) \subseteq ToSet(steering) /\ ToSet(f) \subseteq ToSet(followUp)
  BY DInvIs, SelectedTypes, SelectedFrom
<1> HIDE DEF s, f
<1>1. CASE injecting = <<>>
  BY <1>1 DEF Inject, Exact, Ahead, s, f
<1>2. CASE injecting # <<>>
  <2> DEFINE m == Head(injecting)
  <2>1. m = injecting[1] /\ m \in ToSet(injecting) /\ m \in Queueable \cup Prompts
    <3>1. 1 \in 1 .. Len(injecting) /\ m = injecting[1] /\ m \in Queueable \cup Prompts
      BY <1>0, <1>2
    <3> QED
      BY <1>0, <3>1, ToSetIs
  <2> HIDE DEF m
  <2>2. m \notin ToSet(s) /\ m \notin ToSet(f)
    BY <1>0, <2>1 DEF Apart
  <2>3. /\ shown' = IF m \in Customs \cup Triggers THEN shown
                    ELSE IF Contains(shown.steer, m)
                         THEN [shown EXCEPT !.steer = RemoveFirst(@, m)]
                         ELSE [shown EXCEPT !.follow = RemoveFirst(@, m)]
    BY <1>2 DEF Inject, m
  <2>4. \A S : \A q \in Seq(S) : Contains(q, m) <=> m \in ToSet(q)
    BY DEF Contains, ToSet
  <2>5. CASE Exact
    <3>1. shown.steer = s /\ shown.follow = f
      BY <2>5 DEF Exact, s, f
    <3>2. ~ Contains(shown.steer, m) /\ RemoveFirst(shown.follow, m) = f
      BY <1>0, <2>2, <2>4, <3>1, RemoveNone
    <3>3. shown'.steer = s /\ shown'.follow = f
      BY <1>0, <2>3, <3>1, <3>2
    <3> QED
      BY <3>3 DEF s, f
  <2>6. CASE Ahead
    <3>1. m \in Texts /\ m \notin Customs \cup Triggers /\ m \in Queueable
      BY <2>1, <2>6, SessionAssumption DEF Ahead, Queueable
    <3> DEFINE u == <<m>>
    <3>2. u \in Seq(Queueable) /\ ToSet(u \o s) = {m} \cup ToSet(s)
      <4>1. u \in Seq(Queueable) /\ Len(u) = 1 /\ u[1] = m
        BY <3>1
      <4> HIDE DEF u
      <4>2. /\ u \o s \in Seq(Queueable) /\ Len(u \o s) = 1 + Len(s) /\ Len(s) \in Nat
            /\ (u \o s)[1] = m /\ \A i \in 1 .. Len(s) : (u \o s)[i + 1] = s[i]
        <5>1. /\ u \o s \in Seq(Queueable) /\ Len(u \o s) = Len(u) + Len(s)
              /\ \A i \in 1 .. Len(u) + Len(s) :
                    (u \o s)[i] = IF i <= Len(u) THEN u[i] ELSE s[i - Len(u)]
          BY <1>0, <4>1, ConcatProperties
        <5>2. Len(s) \in Nat
          BY <1>0
        <5>3. (u \o s)[1] = m
          BY <4>1, <5>1, <5>2
        <5>4. ASSUME NEW i \in 1 .. Len(s) PROVE (u \o s)[i + 1] = s[i]
          <6>1. i + 1 \in 1 .. Len(u) + Len(s) /\ ~ (i + 1 <= Len(u)) /\ (i + 1) - Len(u) = i
            BY <4>1, <5>2
          <6> QED
            BY <5>1, <6>1
        <5> QED
          BY <4>1, <5>1, <5>2, <5>3, <5>4
      <4>3. /\ ToSet(u \o s) = {(u \o s)[i] : i \in 1 .. 1 + Len(s)}
            /\ ToSet(s) = {s[i] : i \in 1 .. Len(s)}
        <5>1. ToSet(s) = {s[i] : i \in 1 .. Len(s)}
          BY <1>0, ToSetIs
        <5> DEFINE w == u \o s
        <5>2. w \in Seq(Queueable) /\ Len(w) = 1 + Len(s)
          BY <4>2
        <5> HIDE DEF w
        <5>3. ToSet(w) = {w[i] : i \in 1 .. Len(w)}
          BY <5>2, ToSetIs
        <5>4. ToSet(w) = {w[i] : i \in 1 .. 1 + Len(s)}
          BY <5>2, <5>3
        <5> QED
          BY <5>1, <5>4 DEF w
      <4>4. \A i \in 1 .. 1 + Len(s) : i = 1 \/ (i - 1 \in 1 .. Len(s) /\ (i - 1) + 1 = i)
        BY <4>2
      <4>5. ToSet(u \o s) \subseteq {m} \cup ToSet(s)
        <5>1. \A i \in 1 .. 1 + Len(s) : (u \o s)[i] = m \/ (u \o s)[i] = s[i - 1]
          BY <4>2, <4>4
        <5> QED
          BY <4>2, <4>3, <4>4, <5>1
      <4>6. {m} \cup ToSet(s) \subseteq ToSet(u \o s)
        <5>1. 1 \in 1 .. 1 + Len(s) /\ \A i \in 1 .. Len(s) : i + 1 \in 1 .. 1 + Len(s)
          BY <4>2
        <5> QED
          BY <4>2, <4>3, <5>1
      <4> QED
        BY <4>1, <4>5, <4>6
    <3>3. RemoveFirst(<<m>> \o s, m) = s /\ RemoveFirst(<<m>> \o f, m) = f
      BY <1>0, <3>1, RemoveHead
    <3>4. CASE shown.steer = <<m>> \o s /\ shown.follow = f
      <4>1. Contains(shown.steer, m)
        BY <1>0, <2>4, <3>2, <3>4
      <4>2. shown'.steer = s /\ shown'.follow = f
        BY <1>0, <2>3, <3>1, <3>3, <3>4, <4>1
      <4> QED
        BY <4>2 DEF s, f
    <3>5. CASE shown.steer = s /\ shown.follow = <<m>> \o f
      <4>1. ~ Contains(shown.steer, m)
        BY <1>0, <2>2, <2>4, <3>5
      <4>2. shown'.steer = s /\ shown'.follow = f
        BY <1>0, <2>3, <3>1, <3>3, <3>5, <4>1
      <4> QED
        BY <4>2 DEF s, f
    <3> QED
      BY <2>1, <2>6, <3>4, <3>5 DEF Ahead, s, f
  <2> QED
    BY <2>5, <2>6
<1> QED
  BY <1>1, <1>2

\* What the host queues is shown behind what waits.
LEMMA ShownGrows ==
  ASSUME NEW S, NEW s \in Seq(S), NEW e \in S, NEW x \in S
  PROVE  Append(<<x>> \o s, e) = <<x>> \o Append(s, e)
<1> DEFINE u == <<x>>
           v == <<e>>
<1>1. u \in Seq(S) /\ v \in Seq(S) /\ Append(s, e) = s \o v
  BY AppendIsConcat
<1>2. Append(u \o s, e) = (u \o s) \o v
  <2> HIDE DEF u
  <2>1. u \o s \in Seq(S)
    BY <1>1, ConcatProperties
  <2> QED
    BY <2>1, AppendIsConcat
<1> HIDE DEF u, v
<1>3. (u \o s) \o v = u \o (s \o v)
  BY <1>1, ConcatAssociative
<1> QED
  BY <1>1, <1>2, <1>3 DEF u

LEMMA ShowsQueuesKept ==
  ASSUME DInv, RunHasOwner, InHand, Apart, ShowsQueues, [Next]_vars
  PROVE  ShowsQueues'
<1> SUFFICES ASSUME missed' = {} PROVE Exact' \/ Ahead'
  BY DEF ShowsQueues
<1>0. /\ steering \in Seq(Queueable) /\ followUp \in Seq(Queueable)
      /\ shown \in [steer : Seq(Texts), follow : Seq(Texts)]
      /\ injecting \in Seq(Queueable \cup Prompts)
      /\ Selected(steering, Texts) \in Seq(Queueable) /\ Selected(followUp, Texts) \in Seq(Queueable)
  BY DInvIs, SelectedTypes
<1>1. Exact \/ Ahead
  BY MissedGrows DEF ShowsQueues
<1>2. injecting = <<>> => Exact
  BY <1>1 DEF Ahead
<1>3. ASSUME UNCHANGED <<steering, followUp, shown, injecting>> PROVE Exact' \/ Ahead'
  BY <1>1, <1>3 DEF Exact, Ahead
<1>4. ASSUME injecting = <<>>, shown' = shown,
             Takes \/ Steers \/ Follows \/ \E p \in Prompts : Prompted(p)
      PROVE  Exact' \/ Ahead'
  BY <1>2, <1>4, ShownDrains DEF Exact
<1>5. ASSUME Inject, Takes \/ Steers PROVE Exact' \/ Ahead'
  <2>1. connected \/ injecting = <<>>
    BY <1>5 DEF Inject, Say
  <2>2. shown'.steer = Selected(steering, Texts) /\ shown'.follow = Selected(followUp, Texts)
    BY <1>1, <1>5, <2>1, InjectShows
  <2> QED
    BY <1>5, <2>2, ShownDrains
<1>6. ASSUME NEW p \in Prompts, Prompt(p) \/ Trigger(p) \/ PromptStep(p) PROVE Exact' \/ Ahead'
  <2>1. CASE Trigger(p) \/ StartRun(p)
    <3>1. shown' = shown
      BY <2>1 DEF Trigger, StartRun, RunAgentPrompt, queues
    <3>2. CASE run.at = "idle"
      <4>1. injecting = <<>>
        BY <3>2 DEF InHand
      <4>2. Prompted(p)
        BY <2>1, <3>2 DEF Trigger, StartRun, RunAgentPrompt, queues, Prompted
      <4> QED
        BY <1>4, <3>1, <4>1, <4>2
    <3>3. CASE run.at # "idle"
      BY <1>3, <2>1, <3>3 DEF Trigger, StartRun, RunAgentPrompt, queues
    <3> QED
      BY <3>2, <3>3
  <2>2. CASE Continue(p)
    <3>1. CASE UNCHANGED <<injecting, steering, followUp>>
      BY <1>3, <2>2, <3>1 DEF Continue
    <3>2. CASE ~ UNCHANGED <<injecting, steering, followUp>>
      <4>1. run.at = "idle" /\ shown' = shown /\ (Takes \/ Steers \/ Follows)
        BY <2>2, <3>2 DEF Continue, Takes, Steers, Follows
      <4>2. injecting = <<>>
        BY <4>1 DEF InHand
      <4> QED
        BY <1>4, <4>1, <4>2
    <3> QED
      BY <3>1, <3>2
  <2>3. CASE \/ Prompt(p) \/ Finish(p) \/ PostRun(p) \/ RetryWake(p) \/ Settle(p) \/ Settled(p)
             \/ \E b \in BOOLEAN : EndCompaction(p, b)
    BY <1>3, <2>3 DEF Prompt, Finish, PostRun, RetryWake, Settle, Settled, EndCompaction, queues
  <2> QED
    BY <1>6, <2>1, <2>2, <2>3 DEF PromptStep
<1>7. CASE RunStep
  <2>1. CASE BeginRun
    BY <1>5, <2>1 DEF BeginRun, Steers
  <2>2. CASE BeginTurn
    BY <1>5, <2>2 DEF BeginTurn, Takes
  <2>3. CASE Poll
    <3>1. injecting = <<>> /\ shown' = shown
      BY <2>3 DEF Poll, InHand
    <3>2. Steers \/ Follows
      BY <2>3 DEF Poll, Steers, Follows
    <3> QED
      BY <1>4, <3>1, <3>2
  <2>4. ASSUME NEW kind, Answer(kind) PROVE Exact' \/ Ahead'
    BY <1>3, <2>4 DEF Answer, queues
  <2>5. ASSUME NEW next, Execute(next) PROVE Exact' \/ Ahead'
    BY <1>3, <2>5 DEF Execute, queues
  <2> QED
    BY <1>7, <2>1, <2>2, <2>3, <2>4, <2>5 DEF RunStep
<1>8. CASE ManualStep \/ UNCHANGED vars
  BY <1>3, <1>8 DEF ManualStep, PrepareManual, EndManual, vars, queues
<1>9. CASE Host
  <2>0. ASSUME injecting # <<>> PROVE injecting[1] \in Queueable \cup Prompts
    BY <1>0, <2>0
  <2>1. ASSUME NEW m \in Texts, Steer(m) PROVE Exact' \/ Ahead'
    <3>1. /\ steering' = Append(steering, m) /\ UNCHANGED <<followUp, injecting>>
          /\ shown'.steer = Append(shown.steer, m) /\ shown'.follow = shown.follow
          /\ m \in Queueable
      BY <1>0, <2>1 DEF Steer, Queueable
    <3>2. Selected(Append(steering, m), Texts) = Append(Selected(steering, Texts), m)
      BY <1>0, <2>1, <3>1, SelectedAppend
    <3>3. \A x \in Queueable : Append(<<x>> \o Selected(steering, Texts), m)
                                    = <<x>> \o Append(Selected(steering, Texts), m)
      BY <1>0, <3>1, ShownGrows
    <3>4. injecting # <<>> /\ injecting[1] \in Texts => injecting[1] \in Queueable
      BY DEF Queueable
    <3> QED
      BY <1>1, <3>1, <3>2, <3>3, <3>4 DEF Exact, Ahead
  <2>2. ASSUME NEW m \in Texts, FollowUp(m) PROVE Exact' \/ Ahead'
    <3>1. /\ followUp' = Append(followUp, m) /\ UNCHANGED <<steering, injecting>>
          /\ shown'.follow = Append(shown.follow, m) /\ shown'.steer = shown.steer
          /\ m \in Queueable
      BY <1>0, <2>2 DEF FollowUp, Queueable
    <3>2. Selected(Append(followUp, m), Texts) = Append(Selected(followUp, Texts), m)
      BY <1>0, <2>2, <3>1, SelectedAppend
    <3>3. \A x \in Queueable : Append(<<x>> \o Selected(followUp, Texts), m)
                                    = <<x>> \o Append(Selected(followUp, Texts), m)
      BY <1>0, <3>1, ShownGrows
    <3>4. injecting # <<>> /\ injecting[1] \in Texts => injecting[1] \in Queueable
      BY DEF Queueable
    <3> QED
      BY <1>1, <3>1, <3>2, <3>3, <3>4 DEF Exact, Ahead
  <2>3. ASSUME NEW m \in Customs, Custom(m) PROVE Exact' \/ Ahead'
    <3>1. /\ steering' \in {steering, Append(steering, m)} /\ UNCHANGED <<followUp, injecting, shown>>
          /\ m \in Queueable /\ m \notin Texts
      BY <2>3, SessionAssumption DEF Custom, Queueable
    <3>2. Selected(Append(steering, m), Texts) = Selected(steering, Texts)
      BY <1>0, <3>1, SelectedAppend
    <3>3. Selected(steering', Texts) = Selected(steering, Texts)
      BY <3>1, <3>2
    <3> QED
      BY <1>1, <3>1, <3>3 DEF Exact, Ahead
  <2>4. CASE ClearQueue
    <3>1. shown'.steer = <<>> /\ shown'.follow = <<>> /\ steering' = <<>> /\ followUp' = <<>>
      BY <2>4 DEF ClearQueue
    <3> QED
      BY <3>1, SelectedEmpty DEF Exact
  <2>5. CASE (\E a \in Aborts : Abort(a)) \/ Compact \/ AbortCompaction \/ RecordBashResult
    BY <1>3, <2>5 DEF Abort, Compact, AbortCompaction, RecordBashResult, queues
  <2> QED
    BY <1>9, <2>1, <2>2, <2>3, <2>4, <2>5 DEF Host
<1> QED
  BY <1>6, <1>7, <1>8, <1>9 DEF Next

QInv == IInv /\ DInv /\ InHand /\ Apart /\ ShowsQueues

LEMMA InitQInv == Init => QInv
<1> SUFFICES ASSUME Init PROVE QInv
  OBVIOUS
<1>1. /\ steering = <<>> /\ followUp = <<>> /\ injecting = <<>> /\ run.at = "idle"
      /\ shown = [steer |-> <<>>, follow |-> <<>>]
  BY DEF Init, NoRun
<1>2. ToSet(<<>>) = {} /\ Distinct(<<>>) /\ Len(<<>>) = 0
  BY DEF ToSet, Distinct
<1>3. Exact
  BY <1>1, SelectedEmpty DEF Exact
<1> QED
  BY <1>1, <1>2, <1>3, InitIInv, InitDInv DEF QInv, InHand, Apart, ShowsQueues

LEMMA StepQInv == ~Overlap /\ QInv /\ [Next]_vars => QInv'
BY StepIInv, StepDInv, InHandKept, ApartKept, ShowsQueuesKept DEF QInv, IInv

LEMMA ShownIs ==
  ASSUME QInv
  PROVE  ShownIsQueued
<1>0. /\ shown \in [steer : Seq(Texts), follow : Seq(Texts)]
      /\ injecting \in Seq(Queueable \cup Prompts)
  BY DInvIs DEF QInv
<1> SUFFICES ASSUME missed = {}
             PROVE  Shows(shown.steer, steering) /\ Shows(shown.follow, followUp)
  BY DEF ShownIsQueued
<1>1. ASSUME NEW list \in Seq(Texts), NEW queue, list = Selected(queue, Texts)
      PROVE  Shows(list, queue)
  <2>1. Len(list) \in Nat /\ 0 \in 0 .. Len(list) /\ 1 .. 0 = {}
    OBVIOUS
  <2>2. SubSeq(list, 0 + 1, Len(list)) = list
    <3>1. SubSeq(list, 1, Len(list)) = list
      BY SubSeqFull
    <3> QED
      BY <3>1
  <2> QED
    BY <1>1, <2>1, <2>2 DEF Shows
<1>2. ASSUME NEW list \in Seq(Texts), NEW queue, injecting # <<>>, injecting[1] \in Texts,
             Selected(queue, Texts) \in Seq(Texts),
             list = <<injecting[1]>> \o Selected(queue, Texts)
      PROVE  Shows(list, queue)
  <2> DEFINE rest == Selected(queue, Texts)
  <2>1. /\ Len(list) = Len(rest) + 1 /\ Len(rest) \in Nat /\ list[1] = injecting[1]
        /\ \A i \in 1 .. Len(rest) : list[i + 1] = rest[i] /\ i + 1 \in 2 .. Len(list)
    BY <1>2
  <2>2. SubSeq(list, 1 + 1, Len(list)) = rest
    <3> HIDE DEF rest
    <3>1. /\ SubSeq(list, 2, Len(list)) \in Seq(Texts) /\ Len(SubSeq(list, 2, Len(list))) = Len(rest)
          /\ \A i \in 1 .. Len(rest) : SubSeq(list, 2, Len(list))[i] = list[i + 1]
      <4>1. 2 \in 1 .. Len(list) + 1 /\ Len(list) \in 0 .. Len(list)
            /\ \A i \in 2 .. Len(list) : list[i] \in Texts
        BY <2>1
      <4>2. SubSeq(list, 2, Len(list)) \in Seq(Texts)
        BY <4>1, SubSeqIs
      <4>3. /\ Len(SubSeq(list, 2, Len(list))) = IF 2 <= Len(list) THEN Len(list) - 2 + 1 ELSE 0
            /\ \A i \in 1 .. Len(list) - 2 + 1 : SubSeq(list, 2, Len(list))[i] = list[2 + i - 1]
        BY <4>1, SubSeqProperties
      <4>4. Len(rest) = (IF 2 <= Len(list) THEN Len(list) - 2 + 1 ELSE 0)
            /\ \A i \in 1 .. Len(rest) : i \in 1 .. Len(list) - 2 + 1 /\ 2 + i - 1 = i + 1
        BY <2>1
      <4> QED
        BY <4>2, <4>3, <4>4
    <3>2. rest \in Seq(Texts)
      BY <1>2 DEF rest
    <3> QED
      BY <2>1, <3>1, <3>2
  <2>3. \A i \in 1 .. 1 : Contains(injecting, list[i])
    <3>1. 1 \in 1 .. Len(injecting)
      BY <1>0, <1>2
    <3> QED
      BY <2>1, <3>1 DEF Contains
  <2>4. 1 \in 0 .. Len(list)
    BY <2>1
  <2> QED
    BY <2>2, <2>3, <2>4 DEF Shows
<1>3. CASE Exact
  BY <1>0, <1>1, <1>3 DEF Exact
<1>4. CASE Ahead
  <2>1. Selected(steering, Texts) \in Seq(Texts) /\ Selected(followUp, Texts) \in Seq(Texts)
    <3>1. \A S : \A s \in Seq(S) : Selected(s, Texts) \in Seq(Texts)
      BY SelectedIn
    <3> QED
      BY <3>1, DInvIs DEF QInv
  <2> QED
    BY <1>0, <1>1, <1>2, <1>4, <2>1 DEF Ahead
<1> QED
  BY <1>3, <1>4 DEF QInv, ShowsQueues

\* The host sees the texts that wait, in their order, and beyond them only what
\* is about to be put into the context: through steering, follow-ups, their
\* delivery and clearing the queues, if no prompt starts before the one before
\* it has settled and the session heard every message.
THEOREM Shown == ASSUME ~Overlap PROVE Spec => []ShownIsQueued
<1>1. QInv => ShownIsQueued
  BY ShownIs
<1>2. ~Overlap
  OBVIOUS
<1> QED
  BY InitQInv, StepQInv, <1>1, <1>2, PTL DEF Spec

=============================================================================
