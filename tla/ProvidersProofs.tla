--------------------------- MODULE ProvidersProofs ---------------------------
(***************************************************************************)
(* What goes over the wire, for every set of responses, tools and replies, *)
(* every iteration limit and every number of runs, on either provider.     *)
(*                                                                         *)
(* Gemini's codec filters and joins sequences, by recursion.  What comes   *)
(* out for every sequence is shown by induction on its length; the         *)
(* induction is over a set of numbers, which needs no operator.            *)
(***************************************************************************)
EXTENDS Providers, AgentProofs, FiniteSetTheorems, WellFoundedInduction, NaturalsInduction

LEMMA LeastNumber ==
  ASSUME NEW T, T \subseteq Nat, T # {}
  PROVE  \E x \in T : \A y \in T : x <= y
<1> DEFINE R == OpToRel(<, Nat)
<1>1. IsWellFoundedOn(R, Nat)
  BY NatLessThanWellFounded, Zenon
<1>2. \A x, y \in Nat : <<y, x>> \in R <=> y < x
  BY Zenon DEF OpToRel
<1> HIDE DEF R
<1>3. PICK x \in T : \A y \in T : ~(<<y, x>> \in R)
  BY <1>1, WFMin, Zenon
<1>4. \A y \in T : ~(y < x)
  BY <1>2, <1>3
<1>5. QED
  BY <1>4

\* Induction over the natural numbers, for a set of them.
LEMMA NatSetInduction ==
  ASSUME NEW S, 0 \in S, \A n \in Nat : n \in S => n + 1 \in S
  PROVE  Nat \subseteq S
<1> SUFFICES ASSUME Nat \ S # {}
             PROVE  FALSE
  OBVIOUS
<1>1. PICK x \in Nat \ S : \A y \in Nat \ S : x <= y
  BY LeastNumber
<1>2. x # 0 /\ x - 1 \in Nat /\ x - 1 \notin Nat \ S
  BY <1>1
<1>3. QED
  BY <1>1, <1>2

-----------------------------------------------------------------------------
(***************************************************************************)
(* Keep.                                                                   *)
(***************************************************************************)
KeepStep(f, s, indices, n) ==
  IF n = 0 THEN <<>>
  ELSE IF n \in indices THEN Append(f[n - 1], s[n])
  ELSE f[n - 1]

IsKeep(f, s, indices, m) == f = [n \in 0..m |-> KeepStep(f, s, indices, n)]

LEMMA KeepExists ==
  ASSUME NEW s, NEW indices
  PROVE  \A m \in Nat : \E f : IsKeep(f, s, indices, m)
<1> DEFINE Done == {m \in Nat : \E f : IsKeep(f, s, indices, m)}
<1>1. 0 \in Done
  <2>1. IsKeep([n \in 0..0 |-> <<>>], s, indices, 0)
    BY DEF IsKeep, KeepStep
  <2>2. QED
    BY <2>1
<1>2. ASSUME NEW m \in Nat, m \in Done
      PROVE  m + 1 \in Done
  <2>1. PICK f : IsKeep(f, s, indices, m)
    BY <1>2
  <2> DEFINE g == [n \in 0..(m + 1) |-> KeepStep(f, s, indices, n)]
  <2>2. \A n \in 0..m : g[n] = f[n]
    BY <2>1 DEF IsKeep
  <2>3. ASSUME NEW n \in 0..(m + 1)
        PROVE  g[n] = KeepStep(g, s, indices, n)
    <3>1. g[n] = KeepStep(f, s, indices, n)
      OBVIOUS
    <3>2. n # 0 => n - 1 \in 0..m
      OBVIOUS
    <3> HIDE DEF g
    <3>3. n # 0 => g[n - 1] = f[n - 1]
      BY <2>2, <3>2
    <3>4. QED
      BY <3>1, <3>3 DEF KeepStep
  <2>4. g = [n \in 0..(m + 1) |-> g[n]]
    OBVIOUS
  <2> HIDE DEF g
  <2>5. IsKeep(g, s, indices, m + 1)
    BY <2>3, <2>4 DEF IsKeep
  <2>6. QED
    BY <2>5
<1> HIDE DEF Done
<1>3. Nat \subseteq Done
  BY <1>1, <1>2, NatSetInduction
<1>4. QED
  BY <1>3 DEF Done

LEMMA KeepIsRecursive ==
  ASSUME NEW s, NEW indices, Len(s) \in Nat
  PROVE  \E f : /\ Keep(s, indices) = f[Len(s)]
               /\ f[0] = <<>>
               /\ \A n \in 0..Len(s) : n + 1 <= Len(s) =>
                    f[n + 1] = IF n + 1 \in indices THEN Append(f[n], s[n + 1]) ELSE f[n]
<1> DEFINE f == CHOOSE g : IsKeep(g, s, indices, Len(s))
<1>1. IsKeep(f, s, indices, Len(s))
  BY KeepExists
<1>2. Keep(s, indices) = f[Len(s)]
  BY DEF Keep, IsKeep, KeepStep
<1> HIDE DEF f
<1>3. f[0] = <<>>
  BY <1>1 DEF IsKeep, KeepStep
<1>4. ASSUME NEW n \in 0..Len(s), n + 1 <= Len(s)
      PROVE  f[n + 1] = IF n + 1 \in indices THEN Append(f[n], s[n + 1]) ELSE f[n]
  <2>1. n + 1 \in 0..Len(s) /\ n + 1 # 0 /\ (n + 1) - 1 = n
    BY <1>4
  <2>2. f[n + 1] = KeepStep(f, s, indices, n + 1)
    BY <1>1, <2>1 DEF IsKeep
  <2>3. QED
    BY <2>1, <2>2 DEF KeepStep
<1>5. QED
  BY <1>2, <1>3, <1>4

\* What is kept are elements at the indices.
LEMMA KeepElements ==
  ASSUME NEW s, Len(s) \in Nat, NEW indices,
         NEW E, \A i \in 1..Len(s) : i \in indices => s[i] \in E
  PROVE  Keep(s, indices) \in Seq(E)
<1>0. Len(s) \in Nat
  OBVIOUS
<1>1. PICK f : /\ Keep(s, indices) = f[Len(s)]
               /\ f[0] = <<>>
               /\ \A n \in 0..Len(s) : n + 1 <= Len(s) =>
                    f[n + 1] = IF n + 1 \in indices THEN Append(f[n], s[n + 1]) ELSE f[n]
  BY <1>0, KeepIsRecursive
<1> DEFINE Done == {n \in Nat : n <= Len(s) => f[n] \in Seq(E)}
<1>2. 0 \in Done
  <2>1. <<>> \in Seq(E)
    OBVIOUS
  <2>2. QED
    BY <1>1, <2>1
<1>3. ASSUME NEW n \in Nat, n \in Done
      PROVE  n + 1 \in Done
  <2> SUFFICES ASSUME n + 1 <= Len(s)
               PROVE  f[n + 1] \in Seq(E)
    OBVIOUS
  <2>1. n \in 0..Len(s) /\ n + 1 \in 1..Len(s) /\ f[n] \in Seq(E)
    BY <1>0, <1>3
  <2>2. f[n + 1] = IF n + 1 \in indices THEN Append(f[n], s[n + 1]) ELSE f[n]
    BY <1>1, <2>1
  <2>3. CASE n + 1 \in indices
    <3>1. s[n + 1] \in E
      BY <2>1, <2>3
    <3>2. Append(f[n], s[n + 1]) \in Seq(E)
      BY <2>1, <3>1
    <3>3. QED
      BY <2>2, <2>3, <3>2
  <2>4. CASE n + 1 \notin indices
    BY <2>1, <2>2, <2>4
  <2>5. QED
    BY <2>3, <2>4
<1> HIDE DEF Done
<1>4. Nat \subseteq Done
  BY <1>2, <1>3, NatSetInduction
<1>5. QED
  BY <1>0, <1>1, <1>4 DEF Done

\* The elements after the first a and up to b.
LEMMA KeepWindow ==
  ASSUME NEW s, Len(s) \in Nat, NEW indices, NEW a \in Nat, NEW b \in Nat,
         a <= b, b <= Len(s),
         \A i \in 1..Len(s) : i \in indices <=> a < i /\ i <= b
  PROVE  Keep(s, indices) = [k \in 1..(b - a) |-> s[a + k]]
<1>0. Len(s) \in Nat
  OBVIOUS
<1>1. PICK f : /\ Keep(s, indices) = f[Len(s)]
               /\ f[0] = <<>>
               /\ \A n \in 0..Len(s) : n + 1 <= Len(s) =>
                    f[n + 1] = IF n + 1 \in indices THEN Append(f[n], s[n + 1]) ELSE f[n]
  BY <1>0, KeepIsRecursive
<1> DEFINE T        == {s[i] : i \in 1..Len(s)}
           Count(n) == IF n <= a THEN 0 ELSE IF n <= b THEN n - a ELSE b - a
           Kept(n)  == /\ f[n] \in Seq(T)
                       /\ Len(f[n]) = Count(n)
                       /\ \A k \in 1..Count(n) : f[n][k] = s[a + k]
           Done     == {n \in Nat : n <= Len(s) => Kept(n)}
<1>2. 0 \in Done
  <2>1. <<>> \in Seq(T) /\ Len(<<>>) = 0
    OBVIOUS
  <2>2. Count(0) = 0
    OBVIOUS
  <2> HIDE DEF Count, T
  <2>3. \A k \in 1..Count(0) : f[0][k] = s[a + k]
    BY <2>2
  <2>4. Kept(0)
    BY <1>1, <2>1, <2>2, <2>3
  <2>5. QED
    BY <2>4
<1>3. ASSUME NEW n \in Nat, n \in Done
      PROVE  n + 1 \in Done
  <2> SUFFICES ASSUME n + 1 <= Len(s)
               PROVE  Kept(n + 1)
    OBVIOUS
  <2>1. n \in 0..Len(s) /\ n + 1 \in 1..Len(s) /\ Kept(n)
    BY <1>0, <1>3
  <2>2. f[n + 1] = IF n + 1 \in indices THEN Append(f[n], s[n + 1]) ELSE f[n]
    BY <1>1, <2>1
  <2>3. CASE n + 1 \in indices
    <3>1. a < n + 1 /\ n + 1 <= b
      BY <2>1, <2>3
    <3>2. Count(n) = n - a /\ Count(n + 1) = n + 1 - a /\ Count(n) \in Nat
      BY <3>1
    <3>3. s[n + 1] \in T
      BY <2>1
    <3> HIDE DEF Count, T
    <3>4. /\ f[n + 1] \in Seq(T)
          /\ Len(f[n + 1]) = Count(n) + 1
          /\ \A k \in 1..Count(n) : f[n + 1][k] = f[n][k]
          /\ f[n + 1][Count(n) + 1] = s[n + 1]
      BY <2>1, <2>2, <2>3, <3>3
    <3>5. ASSUME NEW k \in 1..Count(n + 1)
          PROVE  f[n + 1][k] = s[a + k]
      <4>1. CASE k \in 1..Count(n)
        BY <2>1, <3>4, <4>1
      <4>2. CASE k = Count(n) + 1
        BY <3>2, <3>4, <4>2
      <4>3. QED
        BY <3>2, <4>1, <4>2
    <3>6. Len(f[n + 1]) = Count(n + 1)
      BY <3>2, <3>4
    <3>7. QED
      BY <3>4, <3>5, <3>6
  <2>4. CASE n + 1 \notin indices
    <3>1. ~(a < n + 1 /\ n + 1 <= b)
      BY <2>1, <2>4
    <3>2. Count(n + 1) = Count(n)
      BY <3>1
    <3> HIDE DEF Count, T
    <3>3. QED
      BY <2>1, <2>2, <2>4, <3>2
  <2>5. QED
    BY <2>3, <2>4
<1>4. Count(Len(s)) = b - a /\ b - a \in Nat
  BY <1>0
<1> HIDE DEF Done, Count, T
<1>5. Nat \subseteq Done
  BY <1>2, <1>3, NatSetInduction
<1>6. Kept(Len(s))
  BY <1>0, <1>5 DEF Done
<1>7. f[Len(s)] = [k \in 1..Len(f[Len(s)]) |-> f[Len(s)][k]]
  BY <1>6
<1>8. QED
  BY <1>1, <1>4, <1>6, <1>7

-----------------------------------------------------------------------------
(***************************************************************************)
(* TextOf.                                                                 *)
(***************************************************************************)
JoinStep(f, parts, n) ==
  IF n = 0 THEN NoText
  ELSE IF parts[n].kind = "text" THEN f[n - 1] \o parts[n].text
  ELSE f[n - 1]

IsJoin(f, parts, m) == f = [n \in 0..m |-> JoinStep(f, parts, n)]

LEMMA JoinExists ==
  ASSUME NEW parts
  PROVE  \A m \in Nat : \E f : IsJoin(f, parts, m)
<1> DEFINE Done == {m \in Nat : \E f : IsJoin(f, parts, m)}
<1>1. 0 \in Done
  <2>1. IsJoin([n \in 0..0 |-> NoText], parts, 0)
    BY DEF IsJoin, JoinStep
  <2>2. QED
    BY <2>1
<1>2. ASSUME NEW m \in Nat, m \in Done
      PROVE  m + 1 \in Done
  <2>1. PICK f : IsJoin(f, parts, m)
    BY <1>2
  <2> DEFINE g == [n \in 0..(m + 1) |-> JoinStep(f, parts, n)]
  <2>2. \A n \in 0..m : g[n] = f[n]
    BY <2>1 DEF IsJoin
  <2>3. ASSUME NEW n \in 0..(m + 1)
        PROVE  g[n] = JoinStep(g, parts, n)
    <3>1. g[n] = JoinStep(f, parts, n)
      OBVIOUS
    <3>2. n # 0 => n - 1 \in 0..m
      OBVIOUS
    <3> HIDE DEF g
    <3>3. n # 0 => g[n - 1] = f[n - 1]
      BY <2>2, <3>2
    <3>4. QED
      BY <3>1, <3>3 DEF JoinStep
  <2>4. g = [n \in 0..(m + 1) |-> g[n]]
    OBVIOUS
  <2> HIDE DEF g
  <2>5. IsJoin(g, parts, m + 1)
    BY <2>3, <2>4 DEF IsJoin
  <2>6. QED
    BY <2>5
<1> HIDE DEF Done
<1>3. Nat \subseteq Done
  BY <1>1, <1>2, NatSetInduction
<1>4. QED
  BY <1>3 DEF Done

\* f is what TextOf has joined after each part.
Joins(f, parts) ==
  /\ TextOf(parts) = f[Len(parts)]
  /\ f[0] = NoText
  /\ \A n \in 0..Len(parts) : n + 1 <= Len(parts) =>
       f[n + 1] = IF parts[n + 1].kind = "text" THEN f[n] \o parts[n + 1].text
                  ELSE f[n]

LEMMA TextOfIsRecursive ==
  ASSUME NEW parts, Len(parts) \in Nat
  PROVE  \E f : Joins(f, parts)
<1> DEFINE f == CHOOSE g : IsJoin(g, parts, Len(parts))
<1>1. IsJoin(f, parts, Len(parts))
  BY JoinExists
<1>2. TextOf(parts) = f[Len(parts)]
  BY DEF TextOf, IsJoin, JoinStep
<1> HIDE DEF f
<1>3. f[0] = NoText
  BY <1>1 DEF IsJoin, JoinStep
<1>4. ASSUME NEW n \in 0..Len(parts), n + 1 <= Len(parts)
      PROVE  f[n + 1] = IF parts[n + 1].kind = "text" THEN f[n] \o parts[n + 1].text
                        ELSE f[n]
  <2>1. n + 1 \in 0..Len(parts) /\ n + 1 # 0 /\ (n + 1) - 1 = n
    BY <1>4
  <2>2. f[n + 1] = JoinStep(f, parts, n + 1)
    BY <1>1, <2>1 DEF IsJoin
  <2>3. QED
    BY <2>1, <2>2 DEF JoinStep
<1>5. Joins(f, parts)
  BY <1>2, <1>3, <1>4 DEF Joins
<1>6. QED
  BY <1>5

\* Where only the first part can be a text, that is the text of all.
LEMMA TextOfTurn ==
  ASSUME NEW parts, Len(parts) \in Nat, NEW text \in Texts,
         \A i \in 1..Len(parts) : i # 1 => parts[i].kind # "text",
         \/ text = NoText /\ (Len(parts) > 0 => parts[1].kind # "text")
         \/ Len(parts) > 0 /\ parts[1].kind = "text" /\ parts[1].text = text
  PROVE  TextOf(parts) = text
<1>0. PICK f : Joins(f, parts)
  BY TextOfIsRecursive
<1>1. /\ TextOf(parts) = f[Len(parts)]
      /\ f[0] = NoText
      /\ \A n \in 0..Len(parts) : n + 1 <= Len(parts) =>
           f[n + 1] = IF parts[n + 1].kind = "text" THEN f[n] \o parts[n + 1].text
                      ELSE f[n]
  BY <1>0 DEF Joins
<1>2. NoText \o text = text
  BY GeminiAssumption
<1> DEFINE Done == {n \in Nat : n <= Len(parts) => f[n] = IF n = 0 THEN NoText ELSE text}
<1>3. 0 \in Done
  BY <1>1
<1>4. ASSUME NEW n \in Nat, n \in Done
      PROVE  n + 1 \in Done
  <2> SUFFICES ASSUME n + 1 <= Len(parts)
               PROVE  f[n + 1] = text
    OBVIOUS
  <2>1. /\ n \in 0..Len(parts) /\ n + 1 \in 1..Len(parts)
        /\ f[n] = IF n = 0 THEN NoText ELSE text
    BY <1>4
  <2>2. f[n + 1] = IF parts[n + 1].kind = "text" THEN f[n] \o parts[n + 1].text ELSE f[n]
    BY <1>1, <2>1
  <2>3. CASE n = 0
    BY <1>2, <2>1, <2>2, <2>3
  <2>4. CASE n # 0
    <3>1. parts[n + 1].kind # "text"
      BY <2>1, <2>4
    <3>2. QED
      BY <2>1, <2>2, <2>4, <3>1
  <2>5. QED
    BY <2>3, <2>4
<1> HIDE DEF Done
<1>5. Nat \subseteq Done
  BY <1>3, <1>4, NatSetInduction
<1>6. f[Len(parts)] = IF Len(parts) = 0 THEN NoText ELSE text
  BY <1>5 DEF Done
<1>7. Len(parts) = 0 => text = NoText
  OBVIOUS
<1>8. QED
  BY <1>1, <1>6, <1>7

-----------------------------------------------------------------------------
(***************************************************************************)
(* A turn of the model on the wire, and the request it is part of.         *)
(***************************************************************************)
WireCall(c) == [c EXCEPT !.args = ArgsStringToMap(c.args)]

\* The number of parts before the calls.
Lead(m) == IF m.content = NoText THEN 0 ELSE 1

LEMMA AssistantPartsFacts ==
  ASSUME NEW m, m.calls \in Seq(ToolCall)
  PROVE  /\ Len(m.calls) \in Nat /\ DOMAIN m.calls = 1..Len(m.calls)
         /\ \E T : AssistantParts(m) \in Seq(T)
         /\ Len(AssistantParts(m)) = Lead(m) + Len(m.calls)
         /\ Lead(m) = 1 => AssistantParts(m)[1] = TextPart(m.content)
         /\ \A k \in 1..Len(m.calls) :
              AssistantParts(m)[Lead(m) + k] = CallPart(WireCall(m.calls[k]))
<1> DEFINE n     == Len(m.calls)
           text  == TextPart(m.content)
           rest  == [k \in 1..n |-> CallPart(WireCall(m.calls[k]))]
           T     == {text} \cup {rest[k] : k \in 1..n}
           front == IF m.content = NoText THEN <<>> ELSE <<text>>
<1>1. n \in Nat /\ DOMAIN m.calls = 1..n
  OBVIOUS
<1>2. AssistantParts(m) = front \o rest
  BY <1>1 DEF AssistantParts, WireCall
<1>3. /\ rest \in Seq(T) /\ Len(rest) = n
      /\ \A k \in 1..n : rest[k] = CallPart(WireCall(m.calls[k]))
  BY <1>1
<1>4. text \in T
  OBVIOUS
<1> HIDE DEF rest, T, text, n
<1>5. /\ front \in Seq(T)
      /\ Len(front) = Lead(m)
      /\ Lead(m) = 1 => front[1] = text
      /\ Lead(m) \in Nat
  BY <1>4 DEF Lead
<1> HIDE DEF front
<1>6. /\ front \o rest \in Seq(T)
      /\ Len(front \o rest) = Lead(m) + n
      /\ \A i \in 1..Lead(m) : (front \o rest)[i] = front[i]
      /\ \A k \in 1..n : (front \o rest)[Lead(m) + k] = rest[k]
  <2>1. /\ front \o rest \in Seq(T)
        /\ Len(front \o rest) = Len(front) + Len(rest)
        /\ \A i \in 1..Len(front) : (front \o rest)[i] = front[i]
        /\ \A k \in 1..Len(rest) : (front \o rest)[Len(front) + k] = rest[k]
    <3>1. front \in Seq(T) /\ rest \in Seq(T)
      BY <1>3, <1>5
    <3>2. QED
      BY <3>1
  <2>2. Len(front) = Lead(m) /\ Len(rest) = n
    BY <1>3, <1>5
  <2>3. QED
    BY <2>1, <2>2
<1>7. ASSUME Lead(m) = 1
      PROVE  (front \o rest)[1] = text
  <2>1. 1 \in 1..Lead(m)
    BY <1>7
  <2>2. (front \o rest)[1] = front[1]
    BY <1>6, <2>1
  <2>3. QED
    BY <1>5, <1>7, <2>2
<1>8. QED
  BY <1>1, <1>2, <1>3, <1>6, <1>7 DEF text, n

LEMMA AssistantText ==
  ASSUME NEW m, m.calls \in Seq(ToolCall), m.content \in Texts
  PROVE  TextOf(AssistantParts(m)) = m.content
<1> DEFINE parts == AssistantParts(m)
<1>1. /\ Len(m.calls) \in Nat
      /\ Len(parts) = Lead(m) + Len(m.calls)
      /\ Lead(m) = 1 => parts[1] = TextPart(m.content)
      /\ \A k \in 1..Len(m.calls) : parts[Lead(m) + k] = CallPart(WireCall(m.calls[k]))
  BY AssistantPartsFacts
<1> HIDE DEF parts
<1>2. (Lead(m) = 0 /\ m.content = NoText) \/ Lead(m) = 1
  BY DEF Lead
<1>3. ASSUME NEW i \in 1..Len(parts), i > Lead(m)
      PROVE  parts[i].kind # "text"
  <2>1. Lead(m) \in 0..1 /\ Len(m.calls) \in Nat /\ Len(parts) = Lead(m) + Len(m.calls)
    BY <1>1, <1>2
  <2>2. PICK k \in 1..Len(m.calls) : i = Lead(m) + k
    <3>1. i - Lead(m) \in 1..Len(m.calls) /\ i = Lead(m) + (i - Lead(m))
      BY <1>3, <2>1
    <3>2. QED
      BY <3>1
  <2>3. parts[i] = CallPart(WireCall(m.calls[k]))
    BY <1>1, <2>2
  <2>4. QED
    BY <2>3 DEF CallPart
<1>4. \A i \in 1..Len(parts) : i # 1 => parts[i].kind # "text"
  BY <1>2, <1>3
<1>5. \/ m.content = NoText /\ (Len(parts) > 0 => parts[1].kind # "text")
      \/ Len(parts) > 0 /\ parts[1].kind = "text" /\ parts[1].text = m.content
  <2>1. CASE Lead(m) = 0 /\ m.content = NoText
    BY <1>1, <1>3, <2>1
  <2>2. CASE Lead(m) = 1
    BY <1>1, <2>2 DEF TextPart
  <2>3. QED
    BY <1>2, <2>1, <2>2
<1>6. Len(parts) \in Nat
  BY <1>1, <1>2
<1>7. QED
  BY <1>4, <1>5, <1>6, TextOfTurn DEF parts

LEMMA AssistantCalls ==
  ASSUME NEW m, m.calls \in Seq(ToolCall)
  PROVE  CallsOf(AssistantParts(m)) = [k \in 1..Len(m.calls) |-> WireCall(m.calls[k])]
<1> DEFINE parts == AssistantParts(m)
           n     == Len(m.calls)
           at    == {i \in DOMAIN parts : parts[i].kind = "functionCall"}
<1>1. /\ n \in Nat
      /\ Len(parts) = Lead(m) + n
      /\ Lead(m) = 1 => parts[1] = TextPart(m.content)
      /\ \A k \in 1..n : parts[Lead(m) + k] = CallPart(WireCall(m.calls[k]))
  BY AssistantPartsFacts
<1>2. PICK T : parts \in Seq(T)
  BY AssistantPartsFacts
<1>3. DOMAIN parts = 1..Len(parts)
  BY <1>2
<1> HIDE DEF parts, n
<1>4. Lead(m) \in 0..1
  BY DEF Lead
<1>5. ASSUME NEW i \in 1..Len(parts)
      PROVE  i \in at <=> Lead(m) < i /\ i <= Lead(m) + n
  <2>1. CASE i <= Lead(m)
    <3>1. i = 1 /\ Lead(m) = 1
      BY <1>4, <2>1
    <3>2. QED
      BY <1>1, <3>1 DEF TextPart
  <2>2. CASE i > Lead(m)
    <3>1. n \in Nat /\ Len(parts) = Lead(m) + n
      BY <1>1
    <3>2. PICK k \in 1..n : i = Lead(m) + k
      <4>1. i - Lead(m) \in 1..n /\ i = Lead(m) + (i - Lead(m))
        BY <1>4, <2>2, <3>1
      <4>2. QED
        BY <4>1
    <3>3. parts[i] = CallPart(WireCall(m.calls[k]))
      BY <1>1, <3>2
    <3>4. parts[i].kind = "functionCall"
      BY <3>3 DEF CallPart
    <3>5. QED
      BY <1>3, <1>4, <2>2, <3>1, <3>4
  <2>3. QED
    BY <1>4, <2>1, <2>2
<1> HIDE DEF at
<1>6. Keep(parts, at) = [k \in 1..n |-> parts[Lead(m) + k]]
  <2> DEFINE a == Lead(m)
             b == Lead(m) + n
  <2>1. /\ a \in Nat /\ b \in Nat /\ a <= b /\ b <= Len(parts)
        /\ Len(parts) \in Nat
        /\ b - a = n
    BY <1>1, <1>4
  <2>2. \A i \in 1..Len(parts) : i \in at <=> a < i /\ i <= b
    BY <1>5
  <2> HIDE DEF a, b
  <2>3. Keep(parts, at) = [k \in 1..(b - a) |-> parts[a + k]]
    BY <2>1, <2>2, KeepWindow, SMTT(30)
  <2>4. QED
    BY <2>1, <2>3 DEF a
<1>7. CallsOf(parts) = [k \in 1..n |-> parts[Lead(m) + k].call]
  <2>1. CallsOf(parts) = [k \in DOMAIN Keep(parts, at) |-> Keep(parts, at)[k].call]
    BY DEF CallsOf, at
  <2>2. QED
    BY <1>6, <2>1
<1>8. ASSUME NEW k \in 1..n
      PROVE  parts[Lead(m) + k].call = WireCall(m.calls[k])
  <2>1. parts[Lead(m) + k] = CallPart(WireCall(m.calls[k]))
    BY <1>1
  <2>2. QED
    BY <2>1 DEF CallPart
<1>9. QED
  BY <1>7, <1>8 DEF parts, n

\* The contents of a request are the messages of the conversation, one each,
\* and the system prompt is the instruction.
LEMMA RequestFacts ==
  ASSUME conversation \in Seq(Message)
  PROVE  /\ Contents = [i \in 1..Len(conversation) |-> ConvertMessage(conversation[i])]
         /\ ExtractSystemInstruction(BuildMessages) = <<"systemPrompt">>
<1> DEFINE n == Len(conversation)
           b == BuildMessages
<1>1. n \in Nat
  OBVIOUS
<1>2. \A i \in 1..n : conversation[i].role # "system"
  <2>1. \A i \in 1..n : conversation[i] \in Message
    OBVIOUS
  <2>2. QED
    BY <2>1 DEF Message
<1>3. /\ Len(b) = n + 1 /\ DOMAIN b = 1..(n + 1)
      /\ b[1] = SystemMessage
      /\ \A i \in 1..n : b[1 + i] = conversation[i]
  BY DEF BuildMessages
<1>4. SystemMessage.role = "system" /\ SystemMessage.content = "systemPrompt"
  BY DEF SystemMessage
<1> HIDE DEF n, b
<1>5. \A i \in 1..(n + 1) : b[i].role = "system" <=> i = 1
  <2> SUFFICES ASSUME NEW i \in 1..(n + 1), i # 1
               PROVE  b[i].role # "system"
    BY <1>3, <1>4
  <2>1. PICK k \in 1..n : i = 1 + k
    <3>1. i - 1 \in 1..n /\ i = 1 + (i - 1)
      BY <1>1
    <3>2. QED
      BY <3>1
  <2>2. QED
    BY <1>2, <1>3, <2>1
<1>6. ExtractSystemInstruction(b) = <<"systemPrompt">>
  <2> DEFINE at == {i \in DOMAIN b : b[i].role = "system"}
  <2>1. \A i \in 1..Len(b) : i \in at <=> 0 < i /\ i <= 1
    BY <1>1, <1>3, <1>5
  <2>2. ExtractSystemInstruction(b) = [i \in DOMAIN Keep(b, at) |-> Keep(b, at)[i].content]
    BY DEF ExtractSystemInstruction
  <2> HIDE DEF at
  <2>3. Len(b) \in Nat /\ 1 <= Len(b)
    BY <1>1, <1>3
  <2>4. Keep(b, at) = [k \in 1..1 |-> b[k]]
    <3> DEFINE lo == 0
               hi == 1
    <3>1. /\ lo \in Nat /\ hi \in Nat /\ lo <= hi /\ hi <= Len(b)
          /\ \A i \in 1..Len(b) : i \in at <=> lo < i /\ i <= hi
      BY <2>1, <2>3
    <3> HIDE DEF lo, hi
    <3>2. Keep(b, at) = [k \in 1..(hi - lo) |-> b[lo + k]]
      BY <2>3, <3>1, KeepWindow
    <3>3. QED
      BY <3>2 DEF lo, hi
  <2>5. Keep(b, at) = [k \in 1..1 |-> SystemMessage]
    BY <1>3, <2>4
  <2>6. ExtractSystemInstruction(b) = [k \in 1..1 |-> "systemPrompt"]
    BY <1>4, <2>2, <2>5
  <2>7. QED
    BY <2>6
<1>7. ConvertMessages(b) = [i \in 1..n |-> ConvertMessage(conversation[i])]
  <2> DEFINE at == {i \in DOMAIN b : b[i].role # "system"}
  <2>1. \A i \in 1..Len(b) : i \in at <=> 1 < i /\ i <= n + 1
    <3>1. Len(b) = n + 1 /\ DOMAIN b = 1..(n + 1)
      BY <1>3
    <3>2. \A i \in 1..(n + 1) : i # 1 <=> 1 < i /\ i <= n + 1
      BY <1>1
    <3>3. QED
      BY <1>5, <3>1, <3>2
  <2>2. ConvertMessages(b) = [i \in DOMAIN Keep(b, at) |-> ConvertMessage(Keep(b, at)[i])]
    BY DEF ConvertMessages
  <2> HIDE DEF at
  <2>3. Len(b) \in Nat /\ 1 <= n + 1 /\ n + 1 <= Len(b) /\ n + 1 \in Nat
    BY <1>1, <1>3
  <2>4. Keep(b, at) = [k \in 1..((n + 1) - 1) |-> b[1 + k]]
    BY <2>1, <2>3, KeepWindow
  <2>5. (n + 1) - 1 = n
    BY <1>1
  <2>6. Keep(b, at) = [k \in 1..n |-> conversation[k]]
    BY <1>3, <2>4, <2>5
  <2>7. QED
    BY <2>2, <2>6
<1>8. QED
  BY <1>6, <1>7 DEF Contents, n, b

-----------------------------------------------------------------------------
(***************************************************************************)
(* The agent on a provider is an agent, so its conversations are those of  *)
(* AgentProofs.                                                            *)
(***************************************************************************)
LEMMA GroqReplies ==
  /\ GroqResponses \subseteq Seq(Groq!Choice)
  /\ {Groq!ParseResponse(r) : r \in GroqResponses \ {<<>>}} \subseteq Replies
  BY ProvidersAssumption DEF Groq!GroqAssumption

\* A step in which the model says nothing appends at most a message without
\* calls.
Quiet ==
  \/ conversation' = conversation
  \/ \E m : /\ m.role # "assistant" /\ m.calls = <<>>
            /\ conversation' = Append(conversation, m)

\* A step in which it says something appends what that is parsed into.
Heard(reply) ==
  /\ reply \in Replies
  /\ conversation' = Append(conversation, AssistantMessage(reply))

LEMMA QuietSteps ==
  ASSUME Run \/ Cancel \/ CallModel \/ ModelFails \/ ToolNotFound \/ ToolBlocked
           \/ ToolStarts \/ ToolReturns \/ NextIteration
  PROVE  Next /\ Quiet
<1>1. Next
  BY DEF Next
<1>2. Quiet
  <2>1. CASE Run
    BY <2>1 DEF Run, Quiet, UserMessage
  <2>2. CASE Cancel \/ CallModel \/ ModelFails \/ ToolStarts \/ NextIteration
    BY <2>2 DEF Cancel, CallModel, ModelFails, ToolStarts, NextIteration, Return, Quiet
  <2>3. ASSUME NEW text, AnswerCall(text)
        PROVE  Quiet
    BY <2>3 DEF AnswerCall, ToolMessage, Quiet
  <2>4. CASE ToolNotFound \/ ToolBlocked \/ ToolReturns
    BY <2>3, <2>4 DEF ToolNotFound, ToolBlocked, ToolReturns
  <2>5. QED
    BY <2>1, <2>2, <2>4
<1>3. QED
  BY <1>1, <1>2

LEMMA HeardSteps ==
  ASSUME NEW reply \in Replies, ModelAnswers(reply) \/ ModelAsksForTools(reply)
  PROVE  Next /\ Heard(reply)
<1>1. Next
  BY DEF Next
<1>2. Heard(reply)
  BY DEF ModelAnswers, ModelAsksForTools, Heard
<1>3. QED
  BY <1>1, <1>2

\* Gemini's steps ...
LEMMA GeminiSteps ==
  ASSUME WireNext
  PROVE  /\ Next
         /\ \/ Quiet /\ said' = said
            \/ \E response \in Responses \ {<<>>} :
                 Heard(ParseResponse(response)) /\ said' = Append(said, response[1])
<1>1. CASE \/ Send
           \/ Fails
           \/ (Run \/ Cancel \/ ToolNotFound \/ ToolBlocked \/ ToolStarts
                \/ ToolReturns \/ NextIteration) /\ UNCHANGED said
  BY <1>1, QuietSteps DEF Send, Fails
<1>2. ASSUME NEW response \in Responses, Receive(response)
      PROVE  /\ Next
             /\ response \in Responses \ {<<>>} /\ Heard(ParseResponse(response))
             /\ said' = Append(said, response[1])
  <2>1. ParseResponse(response) \in Replies
    BY <1>2, GeminiAssumption DEF Receive, GeminiAssumption
  <2>2. QED
    BY <1>2, <2>1, HeardSteps DEF Receive
<1>3. QED
  BY <1>1, <1>2 DEF WireNext

\* ... and Groq's.
LEMMA GroqSteps ==
  ASSUME Groq!WireNext
  PROVE  /\ Next
         /\ \/ Quiet /\ said' = said
            \/ \E response \in GroqResponses \ {<<>>} :
                 Heard(Groq!ParseResponse(response)) /\ said' = Append(said, response[1])
<1>1. Groq!CallModel => CallModel
  BY DEF Groq!CallModel, CallModel
<1>2. Groq!ModelFails => ModelFails
  BY DEF Groq!ModelFails, ModelFails, Groq!Return, Return
<1>3. Groq!Run => Run
  BY DEF Groq!Run, Run, Groq!UserMessage, UserMessage
<1>4. Groq!Cancel => Cancel
  BY DEF Groq!Cancel, Cancel
<1>5. Groq!Calls = Calls /\ Groq!Call = Call /\ Groq!ToolIndex = ToolIndex
  BY DEF Groq!Calls, Groq!Call, Groq!ToolIndex, Calls, Call, ToolIndex
<1>6. ASSUME NEW text, Groq!AnswerCall(text)
      PROVE  AnswerCall(text)
  BY <1>5, <1>6 DEF Groq!AnswerCall, AnswerCall, Groq!ToolMessage, ToolMessage
<1>7. \A p : Groq!Permits(Mode, p) <=> Permits(Mode, p)
  BY DEF Groq!Permits, Permits, Groq!ModeReadOnly, ModeReadOnly, Groq!ModeConfirm,
     ModeConfirm, Groq!PermissionReadOnly, PermissionReadOnly
<1>8. Groq!ToolNotFound => ToolNotFound
  BY <1>5, <1>6 DEF Groq!ToolNotFound, ToolNotFound
<1>9. Groq!ToolBlocked => ToolBlocked
  BY <1>5, <1>6, <1>7 DEF Groq!ToolBlocked, ToolBlocked
<1>10. Groq!ToolStarts => ToolStarts
  BY <1>5, <1>7 DEF Groq!ToolStarts, ToolStarts
<1>11. Groq!ToolReturns => ToolReturns
  BY <1>6 DEF Groq!ToolReturns, ToolReturns
<1>12. Groq!NextIteration => NextIteration
  BY <1>5 DEF Groq!NextIteration, NextIteration, Groq!Return, Return
<1>13. \A reply : Groq!ModelAnswers(reply) => ModelAnswers(reply)
  BY DEF Groq!ModelAnswers, ModelAnswers, Groq!AssistantMessage, AssistantMessage,
     Groq!Return, Return
<1>14. \A reply : Groq!ModelAsksForTools(reply) => ModelAsksForTools(reply)
  BY DEF Groq!ModelAsksForTools, ModelAsksForTools, Groq!AssistantMessage, AssistantMessage
<1>15. CASE \/ Groq!Send
            \/ Groq!Fails
            \/ (Groq!Run \/ Groq!Cancel \/ Groq!ToolNotFound \/ Groq!ToolBlocked
                 \/ Groq!ToolStarts \/ Groq!ToolReturns \/ Groq!NextIteration) /\ UNCHANGED said
  BY <1>1, <1>2, <1>3, <1>4, <1>8, <1>9, <1>10, <1>11, <1>12, <1>15, QuietSteps
  DEF Groq!Send, Groq!Fails
<1>16. ASSUME NEW response \in GroqResponses, Groq!Receive(response)
       PROVE  /\ Next
              /\ response # <<>> /\ Heard(Groq!ParseResponse(response))
              /\ said' = Append(said, response[1])
  <2>1. Groq!ParseResponse(response) \in Replies
    BY <1>16, GroqReplies DEF Groq!Receive
  <2>2. QED
    BY <1>13, <1>14, <1>16, <2>1, HeardSteps DEF Groq!Receive
<1>17. QED
  BY <1>15, <1>16 DEF Groq!WireNext

LEMMA StepIsAgent == [Use]_allVars => [Next]_vars
<1>1. UNCHANGED allVars => UNCHANGED vars
  BY DEF allVars, wireVars, vars
<1>2. QED
  BY <1>1, GeminiSteps, GroqSteps DEF Use

\* On either provider the agent is the agent: what AgentProofs shows of it
\* holds of it there (agent.go:27-39, provider.go:76-90).
THEOREM ProviderRunsAgent == ProvidersSpec => Spec
<1>1. New => Init
  BY DEF New, WireInit
<1>2. QED
  BY <1>1, StepIsAgent, PTL DEF ProvidersSpec, Spec

-----------------------------------------------------------------------------
(***************************************************************************)
(* Arguments: what a response's map becomes as text, and again as a map.   *)
(***************************************************************************)
LEMMA RoundTrip ==
  ASSUME NEW map \in Objects \cup {NilMap, EmptyMap}
  PROVE  /\ IsArgs(Marshal(map))
         /\ ArgsStringToMap(Marshal(map)) = IF map = EmptyMap THEN NilMap ELSE map
         /\ ArgsStringToMap(Marshal(map)) # EmptyMap
<1>1. /\ NilMap \notin Objects /\ EmptyMap \notin Objects /\ NilMap # EmptyMap
      /\ JSON \in [Objects -> Arguments \ {NoText, "{}", "null"}]
      /\ \A o1, o2 \in Objects : JSON[o1] = JSON[o2] => o1 = o2
  BY GeminiAssumption DEF GeminiAssumption, NilMap, EmptyMap, IsInjective
<1>2. CASE map \in Objects
  <2>1. Marshal(map) = JSON[map]
    BY <1>1, <1>2 DEF Marshal
  <2>2. JSON[map] \notin {NoText, "{}", "null"} /\ JSON[map] \in Range(JSON)
    BY <1>1, <1>2 DEF Range
  <2>3. (CHOOSE o \in Objects : JSON[o] = JSON[map]) = map
    BY <1>1, <1>2
  <2>4. QED
    BY <1>1, <1>2, <2>1, <2>2, <2>3 DEF IsArgs, ArgsStringToMap
<1>3. CASE map = NilMap
  BY <1>1, <1>3 DEF Marshal, IsArgs, ArgsStringToMap
<1>4. CASE map = EmptyMap
  BY <1>1, <1>4 DEF Marshal, IsArgs, ArgsStringToMap
<1>5. QED
  BY <1>2, <1>3, <1>4

\* The calls among the parts of a response.
LEMMA CallsOfType ==
  ASSUME NEW parts \in Seq(Part)
  PROVE  /\ CallsOf(parts) \in Seq(FunctionCall)
         /\ Len(CallsOf(parts)) \in Nat
         /\ DOMAIN CallsOf(parts) = 1..Len(CallsOf(parts))
         /\ \A k \in 1..Len(CallsOf(parts)) : CallsOf(parts)[k] \in FunctionCall
<1> DEFINE at == {i \in DOMAIN parts : parts[i].kind = "functionCall"}
           E  == {CallPart(c) : c \in FunctionCall}
           K  == Keep(parts, at)
<1>1. Len(parts) \in Nat /\ DOMAIN parts = 1..Len(parts)
  OBVIOUS
<1>2. ASSUME NEW i \in 1..Len(parts), i \in at
      PROVE  parts[i] \in E
  <2>1. parts[i] \in Part /\ parts[i].kind = "functionCall"
    BY <1>2
  <2>2. \A t : TextPart(t).kind # "functionCall"
    BY DEF TextPart
  <2>3. QED
    BY <2>1, <2>2 DEF Part
<1> HIDE DEF at
<1>3. K \in Seq(E)
  <2> HIDE DEF E
  <2>1. QED
    BY <1>1, <1>2, KeepElements
<1>4. CallsOf(parts) = [k \in DOMAIN K |-> K[k].call]
  BY DEF CallsOf, at
<1>5. \A e \in E : e.call \in FunctionCall
  BY DEF CallPart
<1> HIDE DEF E, K
<1>6. Len(K) \in Nat /\ DOMAIN K = 1..Len(K) /\ \A k \in 1..Len(K) : K[k] \in E
  BY <1>3
<1>7. CallsOf(parts) = [k \in 1..Len(K) |-> K[k].call]
  BY <1>4, <1>6
<1>8. \A k \in 1..Len(K) : K[k].call \in FunctionCall
  BY <1>5, <1>6
<1>9. CallsOf(parts) \in Seq(FunctionCall)
  BY <1>6, <1>7, <1>8
<1>10. QED
  BY <1>9

\* What the agent keeps of a response is, on the wire, what the response said.
LEMMA SaysTheSame ==
  ASSUME NEW parts \in Seq(Part), NEW m,
         m.content = TextOf(parts), m.content \in Texts,
         m.calls = [k \in DOMAIN CallsOf(parts) |-> ToolCallOf(CallsOf(parts)[k])],
         m.calls \in Seq(ToolCall)
  PROVE  Says(AssistantParts(m)) = Says(parts)
<1> DEFINE calls == CallsOf(parts)
           sent  == CallsOf(AssistantParts(m))
           OnWire(c) == [c EXCEPT !.args = IF @ = EmptyMap THEN NilMap ELSE @]
<1>1. /\ Len(calls) \in Nat /\ DOMAIN calls = 1..Len(calls)
      /\ \A k \in 1..Len(calls) : calls[k] \in FunctionCall
  BY CallsOfType
<1>2. TextOf(AssistantParts(m)) = TextOf(parts)
  BY AssistantText
<1>3. sent = [k \in 1..Len(m.calls) |-> WireCall(m.calls[k])]
  BY AssistantCalls
<1> HIDE DEF calls, sent
<1>4. m.calls = [k \in 1..Len(calls) |-> ToolCallOf(calls[k])] /\ Len(m.calls) = Len(calls)
  BY <1>1 DEF calls
<1>5. sent = [k \in 1..Len(calls) |-> WireCall(ToolCallOf(calls[k]))]
  BY <1>3, <1>4
<1>6. ASSUME NEW c \in FunctionCall
      PROVE  OnWire(WireCall(ToolCallOf(c))) = OnWire(c)
  <2>1. c.args \in Objects \cup {NilMap, EmptyMap}
    BY DEF FunctionCall
  <2>2. /\ ArgsStringToMap(Marshal(c.args)) = IF c.args = EmptyMap THEN NilMap ELSE c.args
        /\ ArgsStringToMap(Marshal(c.args)) # EmptyMap
    BY <2>1, RoundTrip
  <2>3. WireCall(ToolCallOf(c)) = [id |-> c.id, name |-> c.name,
                                   args |-> ArgsStringToMap(Marshal(c.args))]
    BY DEF WireCall, ToolCallOf
  <2>4. c = [id |-> c.id, name |-> c.name, args |-> c.args]
    BY DEF FunctionCall
  <2>5. QED
    BY <2>2, <2>3, <2>4
<1> HIDE DEF OnWire
<1>7. [k \in DOMAIN sent |-> OnWire(sent[k])] = [k \in DOMAIN calls |-> OnWire(calls[k])]
  BY <1>1, <1>5, <1>6
<1>8. QED
  BY <1>2, <1>7 DEF Says, OnWire, calls, sent

-----------------------------------------------------------------------------
(***************************************************************************)
(* The invariant: the model's messages in the conversation are, one for    *)
(* one and in order, what the responses were parsed into.                  *)
(***************************************************************************)
Assistants == {i \in 1..Len(conversation) : conversation[i].role = "assistant"}

\* The how manieth of them the one at i is.
Ordinal(i) == Cardinality({j \in Assistants : j <= i})

Heardable == IF provider = "gemini" THEN Seq(Part) ELSE Groq!Choice

Parsed(s) ==
  IF provider = "gemini" THEN ParseResponse(<<s>>) ELSE Groq!ParseResponse(<<s>>)

WireInv ==
  /\ provider \in {"gemini", "groq"}
  /\ said \in Seq(Heardable)
  /\ \A k \in 1..Len(said) : Parsed(said[k]) \in Replies
  /\ Cardinality(Assistants) = Len(said)
  /\ \A i \in Assistants : conversation[i] = AssistantMessage(Parsed(said[Ordinal(i)]))
  /\ \A i \in 1..Len(conversation) : i \notin Assistants => conversation[i].calls = <<>>

LEMMA OrdinalRange ==
  ASSUME conversation \in Seq(Message)
  PROVE  /\ IsFiniteSet(Assistants)
         /\ \A i \in Assistants : Ordinal(i) \in 1..Cardinality(Assistants)
<1>1. Len(conversation) \in Nat
  OBVIOUS
<1>2. IsFiniteSet(Assistants)
  <2>1. IsFiniteSet(1..Len(conversation))
    BY <1>1, FS_Interval
  <2>2. Assistants \subseteq 1..Len(conversation)
    BY DEF Assistants
  <2>3. QED
    BY <2>1, <2>2, FS_Subset
<1>3. ASSUME NEW i \in Assistants
      PROVE  Ordinal(i) \in 1..Cardinality(Assistants)
  <2> DEFINE S == {j \in Assistants : j <= i}
  <2>1. S \subseteq Assistants /\ i \in S
    BY <1>1 DEF Assistants
  <2>2. IsFiniteSet(S) /\ Cardinality(S) <= Cardinality(Assistants)
    BY <1>2, <2>1, FS_Subset
  <2>3. Cardinality(S) \in Nat /\ Cardinality(Assistants) \in Nat
    BY <1>2, <2>2, FS_CardinalityType
  <2>4. Cardinality(S) # 0
    BY <2>1, <2>2, FS_EmptySet
  <2>5. QED
    BY <2>2, <2>3, <2>4 DEF Ordinal
<1>4. QED
  BY <1>2, <1>3

LEMMA AppendAny ==
  ASSUME NEW T, NEW s \in Seq(T), NEW m
  PROVE  /\ Len(Append(s, m)) = Len(s) + 1
         /\ \A i \in 1..Len(s) : Append(s, m)[i] = s[i]
         /\ Append(s, m)[Len(s) + 1] = m
<1>1. s \in Seq(T \cup {m}) /\ m \in T \cup {m}
  OBVIOUS
<1>2. QED
  BY <1>1

\* A message that is not the model's leaves the model's where they are, ...
LEMMA OtherAppended ==
  ASSUME conversation \in Seq(Message), NEW m, m.role # "assistant",
         conversation' = Append(conversation, m)
  PROVE  Assistants' = Assistants
<1> DEFINE n == Len(conversation)
<1>0. n \in Nat
  OBVIOUS
<1>1. /\ Len(conversation') = n + 1
      /\ \A i \in 1..n : conversation'[i] = conversation[i]
      /\ conversation'[n + 1] = m
  BY AppendAny
<1> HIDE DEF n
<1>2. ASSUME NEW i \in 1..(n + 1), conversation'[i].role = "assistant"
      PROVE  i \in Assistants
  <2>1. i # n + 1
    BY <1>1, <1>2
  <2>2. i \in 1..n
    BY <1>0, <2>1
  <2>3. QED
    BY <1>1, <1>2, <2>2 DEF Assistants, n
<1>3. ASSUME NEW i \in Assistants
      PROVE  i \in 1..(n + 1) /\ conversation'[i].role = "assistant"
  BY <1>0, <1>1 DEF Assistants, n
<1>4. QED
  BY <1>1, <1>2, <1>3 DEF Assistants

\* ... and one that is comes after them.
LEMMA AssistantAppended ==
  ASSUME conversation \in Seq(Message), NEW m, m.role = "assistant",
         conversation' = Append(conversation, m)
  PROVE  /\ Assistants' = Assistants \cup {Len(conversation) + 1}
         /\ Cardinality(Assistants') = Cardinality(Assistants) + 1
         /\ \A i \in Assistants : Ordinal(i)' = Ordinal(i)
         /\ \A i \in Nat : i = Len(conversation) + 1 =>
              Ordinal(i)' = Cardinality(Assistants) + 1
<1> DEFINE n == Len(conversation)
<1>0. n \in Nat
  OBVIOUS
<1>1. /\ Len(conversation') = n + 1
      /\ \A i \in 1..n : conversation'[i] = conversation[i]
      /\ conversation'[n + 1] = m
  BY AppendAny
<1>2. \A i \in Assistants : i \in Nat /\ i <= n
  BY DEF Assistants
<1> HIDE DEF n
<1>3. Assistants' = Assistants \cup {n + 1}
  <2>1. ASSUME NEW i \in 1..(n + 1), conversation'[i].role = "assistant"
        PROVE  i \in Assistants \cup {n + 1}
    <3>1. CASE i # n + 1
      <4>1. i \in 1..n
        BY <1>0, <3>1
      <4>2. QED
        BY <1>1, <2>1, <4>1 DEF Assistants, n
    <3>2. QED
      BY <3>1
  <2>2. ASSUME NEW i \in Assistants \cup {n + 1}
        PROVE  i \in 1..(n + 1) /\ conversation'[i].role = "assistant"
    BY <1>0, <1>1 DEF Assistants, n
  <2>3. QED
    BY <1>1, <2>1, <2>2 DEF Assistants
<1>4. Cardinality(Assistants \cup {n + 1}) = Cardinality(Assistants) + 1
  <2>1. n + 1 \notin Assistants
    BY <1>0, <1>2
  <2>2. QED
    BY <2>1, OrdinalRange, FS_AddElement
<1>5. ASSUME NEW i \in Assistants
      PROVE  Ordinal(i)' = Ordinal(i)
  <2>1. {j \in Assistants' : j <= i} = {j \in Assistants : j <= i}
    BY <1>0, <1>2, <1>3
  <2>2. QED
    BY <2>1 DEF Ordinal
<1>6. ASSUME NEW i \in Nat, i = n + 1
      PROVE  Ordinal(i)' = Cardinality(Assistants) + 1
  <2>1. {j \in Assistants' : j <= i} = Assistants \cup {n + 1}
    BY <1>0, <1>2, <1>3, <1>6
  <2>2. QED
    BY <1>4, <2>1 DEF Ordinal
<1>7. QED
  BY <1>3, <1>4, <1>5, <1>6 DEF n

\* What each provider hears is parsed into a reply.
LEMMA HeardIsParsed ==
  ASSUME provider \in {"gemini", "groq"}, [Use]_allVars
  PROVE  /\ provider' = provider
         /\ \/ Quiet /\ said' = said
            \/ \E heard \in Heardable : /\ Heard(Parsed(heard))
                                        /\ said' = Append(said, heard)
<1>1. CASE UNCHANGED allVars
  BY <1>1 DEF allVars, wireVars, vars, Quiet
<1>2. CASE provider = "gemini" /\ WireNext /\ UNCHANGED provider
  <2>1. ASSUME NEW response \in Responses \ {<<>>}
        PROVE  response[1] \in Heardable /\ Parsed(response[1]) = ParseResponse(response)
    <3>1. response \in Seq(Seq(Part)) /\ response # <<>>
      BY GeminiAssumption DEF GeminiAssumption
    <3>2. response[1] \in Seq(Part)
      BY <3>1
    <3>3. QED
      BY <1>2, <3>2 DEF Heardable, Parsed, ParseResponse
  <2>2. QED
    BY <1>2, <2>1, GeminiSteps
<1>3. CASE provider = "groq" /\ Groq!WireNext /\ UNCHANGED provider
  <2>1. ASSUME NEW response \in GroqResponses \ {<<>>}
        PROVE  response[1] \in Heardable /\ Parsed(response[1]) = Groq!ParseResponse(response)
    <3>1. response \in Seq(Groq!Choice) /\ response # <<>>
      BY GroqReplies
    <3>2. response[1] \in Groq!Choice
      BY <3>1
    <3>3. QED
      BY <1>3, <3>2 DEF Heardable, Parsed, Groq!ParseResponse
  <2>2. QED
    BY <1>3, <2>1, GroqSteps
<1>4. QED
  BY <1>1, <1>2, <1>3 DEF Use

LEMMA WireInit0 == New => WireInv
<1> SUFFICES ASSUME New
             PROVE  WireInv
  OBVIOUS
<1>1. conversation = <<>> /\ said = <<>> /\ provider \in {"gemini", "groq"}
  BY DEF New, WireInit, Init
<1>2. Assistants = {} /\ Len(conversation) = 0 /\ Len(said) = 0
  BY <1>1 DEF Assistants
<1>3. Cardinality(Assistants) = 0
  BY <1>2, FS_EmptySet
<1>4. QED
  BY <1>1, <1>2, <1>3 DEF WireInv

LEMMA WireStep ==
  ASSUME conversation \in Seq(Message), WireInv, [Use]_allVars
  PROVE  WireInv'
<1> DEFINE n == Len(conversation)
<1>0. n \in Nat
  OBVIOUS
<1>1. provider' = provider /\ provider \in {"gemini", "groq"}
  BY HeardIsParsed DEF WireInv
<1>2. Heardable' = Heardable
  BY <1>1 DEF Heardable
<1>3. \A s : Parsed(s)' = Parsed(s)
  BY <1>1 DEF Parsed
<1>4. CASE Quiet /\ said' = said
  <2>1. CASE conversation' = conversation
    <3>1. Assistants' = Assistants /\ \A i : Ordinal(i)' = Ordinal(i)
      BY <2>1 DEF Assistants, Ordinal
    <3>2. QED
      BY <1>1, <1>2, <1>3, <1>4, <2>1, <3>1 DEF WireInv
  <2>2. ASSUME NEW m, m.role # "assistant", m.calls = <<>>,
               conversation' = Append(conversation, m)
        PROVE  WireInv'
    <3>1. Assistants' = Assistants
      BY <2>2, OtherAppended
    <3>2. \A i : Ordinal(i)' = Ordinal(i)
      BY <3>1 DEF Ordinal
    <3>3. /\ Len(conversation') = n + 1
          /\ \A i \in 1..n : conversation'[i] = conversation[i]
          /\ conversation'[n + 1] = m
      BY <2>2, AppendAny
    <3>4. \A i \in Assistants : i \in 1..n
      BY DEF Assistants
    <3>5. \A i \in Assistants' : conversation'[i] = AssistantMessage(Parsed(said[Ordinal(i)]))'
      BY <1>3, <1>4, <3>1, <3>2, <3>3, <3>4 DEF WireInv, AssistantMessage
    <3>6. ASSUME NEW i \in 1..(n + 1), i \notin Assistants'
          PROVE  conversation'[i].calls = <<>>
      <4>1. CASE i = n + 1
        BY <2>2, <3>3, <4>1
      <4>2. CASE i # n + 1
        <5>1. i \in 1..n
          BY <1>0, <4>2
        <5>2. QED
          BY <3>1, <3>3, <3>6, <5>1 DEF WireInv
      <4>3. QED
        BY <4>1, <4>2
    <3>7. /\ said' \in Seq(Heardable')
          /\ \A k \in 1..Len(said') : Parsed(said[k])' \in Replies
          /\ Cardinality(Assistants') = Len(said')
      BY <1>2, <1>3, <1>4, <3>1 DEF WireInv
    <3>8. QED
      BY <1>1, <3>3, <3>5, <3>6, <3>7 DEF WireInv
  <2>3. QED
    BY <1>4, <2>1, <2>2 DEF Quiet
<1>5. ASSUME NEW heard \in Heardable, Heard(Parsed(heard)), said' = Append(said, heard)
      PROVE  WireInv'
  <2> DEFINE m == AssistantMessage(Parsed(heard))
             c == Len(said)
  <2>1. Parsed(heard) \in Replies /\ conversation' = Append(conversation, m)
    BY <1>5 DEF Heard
  <2>2. m.role = "assistant"
    BY DEF AssistantMessage
  <2>3. said \in Seq(Heardable) /\ c \in Nat /\ Cardinality(Assistants) = c
    BY DEF WireInv
  <2> HIDE DEF m
  <2>4. /\ Assistants' = Assistants \cup {n + 1}
        /\ Cardinality(Assistants') = c + 1
        /\ \A i \in Assistants : Ordinal(i)' = Ordinal(i)
        /\ \A i \in Nat : i = n + 1 => Ordinal(i)' = c + 1
    BY <2>1, <2>2, <2>3, AssistantAppended
  <2>5. /\ Len(conversation') = n + 1
        /\ \A i \in 1..n : conversation'[i] = conversation[i]
        /\ conversation'[n + 1] = m
    BY <2>1, AppendAny
  <2>6. /\ said' \in Seq(Heardable)
        /\ Len(said') = c + 1
        /\ \A k \in 1..c : said'[k] = said[k]
        /\ said'[c + 1] = heard
    BY <1>5, <2>3
  <2>7. \A i \in Assistants : i \in 1..n /\ Ordinal(i) \in 1..c
    BY <2>3, OrdinalRange DEF Assistants
  <2> HIDE DEF c
  <2>8. ASSUME NEW k \in 1..(c + 1)
        PROVE  Parsed(said[k])' \in Replies
    <3>1. Parsed(said[k])' = Parsed(said'[k])
      BY <1>1 DEF Parsed
    <3>2. CASE k = c + 1
      BY <2>1, <2>6, <3>1, <3>2
    <3>3. CASE k # c + 1
      <4>1. k \in 1..c
        BY <2>3, <3>3
      <4>2. QED
        BY <2>6, <3>1, <4>1 DEF WireInv, c
    <3>4. QED
      BY <3>2, <3>3
  <2>9. ASSUME NEW i \in Assistants'
        PROVE  conversation'[i] = AssistantMessage(Parsed(said[Ordinal(i)]))'
    <3> DEFINE k == Ordinal(i)'
    <3>1. AssistantMessage(Parsed(said[Ordinal(i)]))' = AssistantMessage(Parsed(said'[k]))
      BY <1>1 DEF Parsed, AssistantMessage
    <3> HIDE DEF k
    <3>2. CASE i \in Assistants
      <4>1. k = Ordinal(i) /\ i \in 1..n /\ Ordinal(i) \in 1..c
        BY <2>4, <2>7, <3>2 DEF k
      <4>2. conversation[i] = AssistantMessage(Parsed(said[Ordinal(i)]))
        BY <3>2 DEF WireInv
      <4>3. QED
        BY <2>5, <2>6, <3>1, <4>1, <4>2
    <3>3. CASE i = n + 1
      <4>1. k = c + 1
        BY <1>0, <2>4, <3>3 DEF k
      <4>2. QED
        BY <2>5, <2>6, <3>1, <3>3, <4>1 DEF m
    <3>4. QED
      BY <2>4, <3>2, <3>3
  <2>10. ASSUME NEW i \in 1..(n + 1), i \notin Assistants'
         PROVE  conversation'[i].calls = <<>>
    <3>1. i # n + 1 /\ i \notin Assistants
      BY <2>4, <2>10
    <3>2. i \in 1..n
      BY <1>0, <3>1
    <3>3. QED
      BY <2>5, <3>1, <3>2 DEF WireInv
  <2>11. QED
    BY <1>1, <1>2, <2>4, <2>5, <2>6, <2>8, <2>9, <2>10 DEF WireInv
<1>6. QED
  BY <1>4, <1>5, HeardIsParsed DEF WireInv

LEMMA WireInvariant == ProvidersSpec => [](IInv /\ WireInv)
<1>1. IInv => conversation \in Seq(Message)
  BY DEF IInv, TypeOK
<1>2. IInv /\ WireInv /\ [Use]_allVars => WireInv'
  BY <1>1, WireStep
<1>3. QED
  BY <1>2, WireInit0, ProviderRunsAgent, Invariance, PTL DEF ProvidersSpec

-----------------------------------------------------------------------------
(***************************************************************************)
(* Gemini.                                                                 *)
(***************************************************************************)
LEMMA GeminiTurn ==
  ASSUME conversation \in Seq(Message), WireInv, provider = "gemini", NEW i \in Assistants
  PROVE  LET parts == said[Ordinal(i)]
             m     == conversation[i]
         IN  /\ parts \in Seq(Part)
             /\ m.content = TextOf(parts) /\ m.content \in Texts
             /\ m.calls = [k \in DOMAIN CallsOf(parts) |-> ToolCallOf(CallsOf(parts)[k])]
             /\ m.calls \in Seq(ToolCall)
<1> DEFINE parts == said[Ordinal(i)]
           m     == conversation[i]
<1>1. Ordinal(i) \in 1..Len(said)
  BY OrdinalRange DEF WireInv
<1>2. parts \in Seq(Part)
  BY <1>1 DEF WireInv, Heardable
<1>3. ParseResponse(<<parts>>) \in Replies /\ m = AssistantMessage(ParseResponse(<<parts>>))
  BY <1>1 DEF WireInv, Parsed
<1> HIDE DEF parts, m
<1>4. <<parts>>[1] = parts
  OBVIOUS
<1>5. /\ m.content = TextOf(parts)
      /\ m.calls = [k \in DOMAIN CallsOf(parts) |-> ToolCallOf(CallsOf(parts)[k])]
  BY <1>3, <1>4 DEF ParseResponse, AssistantMessage
<1>6. m.content \in Texts /\ m.calls \in Seq(ToolCall)
  <2>1. ParseResponse(<<parts>>) \in [content : Texts, calls : Seq(ToolCall)]
    BY <1>3, AgentAssumption DEF AgentAssumption
  <2>2. m.content = ParseResponse(<<parts>>).content /\ m.calls = ParseResponse(<<parts>>).calls
    BY <1>3 DEF AssistantMessage
  <2>3. QED
    BY <2>1, <2>2
<1>7. QED
  BY <1>2, <1>5, <1>6 DEF parts, m

\* The other turns have no calls, in the conversation or on the wire.
LEMMA OtherTurn ==
  ASSUME conversation \in Seq(Message), NEW i \in 1..Len(conversation),
         conversation[i].role # "assistant"
  PROVE  /\ ConvertMessage(conversation[i]).role = "user"
         /\ CallsOf(ConvertMessage(conversation[i]).parts) = <<>>
<1> DEFINE m     == conversation[i]
           parts == ConvertMessage(m).parts
           at    == {j \in DOMAIN parts : parts[j].kind = "functionCall"}
<1>1. parts = <<ToolPart(m)>> \/ parts = <<TextPart(m.content)>>
  BY DEF ConvertMessage
<1>2. ToolPart(m).kind # "functionCall" /\ TextPart(m.content).kind # "functionCall"
  BY DEF ToolPart, TextPart
<1>3. ConvertMessage(m).role = "user"
  BY DEF ConvertMessage, MapRole
<1> HIDE DEF parts
<1>4. Len(parts) = 1 /\ DOMAIN parts = 1..1 /\ parts[1].kind # "functionCall"
  BY <1>1, <1>2
<1>5. Keep(parts, at) = <<>>
  <2> DEFINE lo == 0
             hi == 0
  <2>1. at = {}
    BY <1>4
  <2>2. /\ lo \in Nat /\ hi \in Nat /\ lo <= hi /\ hi <= Len(parts) /\ Len(parts) \in Nat
        /\ \A j \in 1..Len(parts) : j \in at <=> lo < j /\ j <= hi
    BY <1>4, <2>1
  <2> HIDE DEF lo, hi, at
  <2>3. Keep(parts, at) = [k \in 1..(hi - lo) |-> parts[lo + k]]
    BY <2>2, KeepWindow
  <2>4. QED
    BY <2>3 DEF lo, hi
<1>6. CallsOf(parts) = <<>>
  <2>1. CallsOf(parts) = [k \in DOMAIN Keep(parts, at) |-> Keep(parts, at)[k].call]
    BY DEF CallsOf
  <2>2. QED
    BY <1>5, <2>1
<1>7. QED
  BY <1>3, <1>6 DEF parts

LEMMA ArgumentsAccepted ==
  ASSUME conversation \in Seq(Message), WireInv, provider = "gemini"
  PROVE  Convertible(BuildMessages)
<1>1. ASSUME NEW i \in 1..Len(conversation), NEW k \in DOMAIN conversation[i].calls
      PROVE  IsArgs(conversation[i].calls[k].args)
  <2>1. i \in Assistants
    BY <1>1 DEF WireInv
  <2> DEFINE parts == said[Ordinal(i)]
             calls == CallsOf(parts)
  <2>2. parts \in Seq(Part) /\ conversation[i].calls = [j \in DOMAIN calls |-> ToolCallOf(calls[j])]
    BY <2>1, GeminiTurn
  <2> HIDE DEF parts
  <2>3. DOMAIN calls = 1..Len(calls) /\ \A j \in 1..Len(calls) : calls[j] \in FunctionCall
    BY <2>2, CallsOfType
  <2> HIDE DEF calls
  <2>4. k \in 1..Len(calls) /\ conversation[i].calls[k] = ToolCallOf(calls[k])
    BY <1>1, <2>2, <2>3
  <2>5. calls[k].args \in Objects \cup {NilMap, EmptyMap}
    BY <2>3, <2>4 DEF FunctionCall
  <2>6. conversation[i].calls[k].args = Marshal(calls[k].args)
    BY <2>4 DEF ToolCallOf
  <2>7. QED
    BY <2>5, <2>6, RoundTrip
<1>2. SystemMessage.calls = <<>>
  BY DEF SystemMessage
<1>3. ASSUME NEW i \in DOMAIN BuildMessages
      PROVE  BuildMessages[i] = SystemMessage
             \/ \E j \in 1..Len(conversation) : BuildMessages[i] = conversation[j]
  <2>1. i \in 1..(Len(conversation) + 1) /\ Len(conversation) \in Nat
    BY DEF BuildMessages
  <2>2. BuildMessages[1] = SystemMessage
    BY DEF BuildMessages
  <2>3. \A j \in 1..Len(conversation) : BuildMessages[1 + j] = conversation[j]
    BY DEF BuildMessages
  <2>4. i = 1 \/ (i - 1 \in 1..Len(conversation) /\ i = 1 + (i - 1))
    BY <2>1
  <2>5. QED
    BY <2>2, <2>3, <2>4
<1>4. QED
  BY <1>1, <1>2, <1>3 DEF Convertible

(***************************************************************************)
(* Every conversation can be sent to Gemini: the arguments of a call were  *)
(* written by json.Marshal, and what it writes is accepted back            *)
(* (gemini.go:167-172, 286-295).                                           *)
(***************************************************************************)
THEOREM RequestsAreBuildable == ProvidersSpec => []RequestsBuildable
<1>1. IInv /\ WireInv => RequestsBuildable
  BY ArgumentsAccepted DEF IInv, TypeOK, RequestsBuildable, AlwaysConvertible
<1>2. QED
  BY <1>1, WireInvariant, PTL

\* What Gemini is shown.
LEMMA GeminiHistory ==
  ASSUME conversation \in Seq(Message), WireInv, provider = "gemini"
  PROVE  HistoryTruthful
<1> DEFINE n == Len(conversation)
           models == {i \in DOMAIN Contents : Contents[i].role = "model"}
<1>0. n \in Nat
  OBVIOUS
<1>1. /\ Contents = [i \in 1..n |-> ConvertMessage(conversation[i])]
      /\ ExtractSystemInstruction(BuildMessages) = <<"systemPrompt">>
  BY RequestFacts
<1>2. DOMAIN Contents = 1..n /\ Len(Contents) = n
      /\ \A i \in 1..n : Contents[i] = ConvertMessage(conversation[i])
  BY <1>0, <1>1
<1> HIDE DEF n
<1>3. models = Assistants
  <2>1. \A i \in 1..n : Contents[i].role = "model" <=> conversation[i].role = "assistant"
    BY <1>2 DEF ConvertMessage, MapRole
  <2>2. QED
    BY <1>2, <2>1 DEF Assistants, n
<1> HIDE DEF models
<1>4. ASSUME NEW i \in models
      PROVE  Says(Contents[i].parts)
               = Says(said[Cardinality({j \in models : j <= i})])
  <2>1. i \in Assistants /\ i \in 1..n /\ conversation[i].role = "assistant"
    BY <1>3 DEF Assistants, n
  <2>2. Contents[i].parts = AssistantParts(conversation[i])
    BY <1>2, <2>1 DEF ConvertMessage
  <2>3. Says(AssistantParts(conversation[i])) = Says(said[Ordinal(i)])
    BY <2>1, GeminiTurn, SaysTheSame
  <2>4. Ordinal(i) = Cardinality({j \in models : j <= i})
    BY <1>3 DEF Ordinal
  <2>5. QED
    BY <2>2, <2>3, <2>4
<1>5. Cardinality(models) = Len(said)
  BY <1>3 DEF WireInv
<1>6. QED
  BY <1>1, <1>2, <1>4, <1>5 DEF HistoryTruthful, models, n

LEMMA GeminiAnswers ==
  ASSUME IInv, WireInv, provider = "gemini"
  PROVE  ResponsesFollowCalls
<1> DEFINE n == Len(conversation)
<1>0. conversation \in Seq(Message) /\ n \in Nat
  BY DEF IInv, TypeOK
<1>1. Contents = [i \in 1..n |-> ConvertMessage(conversation[i])]
  BY <1>0, RequestFacts
<1>2. DOMAIN Contents = 1..n /\ Len(Contents) = n
      /\ \A i \in 1..n : Contents[i] = ConvertMessage(conversation[i])
  BY <1>0, <1>1
<1> HIDE DEF n
<1> SUFFICES ASSUME pc = "llm",
                    NEW i \in 1..n, NEW k \in DOMAIN CallsOf(Contents[i].parts)
             PROVE  /\ i + k <= n
                    /\ Contents[i + k].role = "user"
                    /\ Len(Contents[i + k].parts) = 1
                    /\ Contents[i + k].parts[1].kind = "functionResponse"
                    /\ Contents[i + k].parts[1].id = CallsOf(Contents[i].parts)[k].id
  BY <1>2 DEF ResponsesFollowCalls
<1> DEFINE m == conversation[i]
           sent == CallsOf(Contents[i].parts)
<1>3. m.role = "assistant"
  BY <1>0, <1>2, OtherTurn DEF n
<1>4. m.calls \in Seq(ToolCall) /\ Len(m.calls) \in Nat
  BY <1>0, CallsType DEF n
<1>5. sent = [j \in 1..Len(m.calls) |-> WireCall(m.calls[j])]
  <2>1. Contents[i].parts = AssistantParts(m)
    BY <1>2, <1>3 DEF ConvertMessage
  <2>2. QED
    BY <1>4, <2>1, AssistantCalls
<1>6. k \in 1..Len(m.calls) /\ sent[k] = WireCall(m.calls[k])
  BY <1>5
<1>7. sent[k].id = m.calls[k].id
  <2>1. m.calls[k] \in ToolCall
    BY <1>4, <1>6
  <2>2. QED
    BY <1>6, <2>1 DEF WireCall, ToolCall
<1>8. i + k <= n /\ Answers(conversation[i + k], m.calls[k])
  BY <1>6, InvAnswersCalls DEF EveryCallAnswered, n
<1>9. i + k \in 1..n
  BY <1>0, <1>4, <1>6, <1>8
<1>10. Contents[i + k] = [role |-> "user", parts |-> <<ToolPart(conversation[i + k])>>]
  BY <1>2, <1>8, <1>9 DEF ConvertMessage, MapRole, Answers
<1>11. /\ ToolPart(conversation[i + k]).kind = "functionResponse"
       /\ ToolPart(conversation[i + k]).id = m.calls[k].id
  BY <1>8 DEF ToolPart, Answers
<1>12. QED
  BY <1>7, <1>8, <1>10, <1>11

-----------------------------------------------------------------------------
(***************************************************************************)
(* Groq: in a request the conversation stands one place further on, behind *)
(* the system prompt.                                                      *)
(***************************************************************************)
LEMMA GroqRequest ==
  ASSUME conversation \in Seq(Message)
  PROVE  /\ Len(Groq!BuildRequest) = Len(conversation) + 1
         /\ DOMAIN Groq!BuildRequest = 1..(Len(conversation) + 1)
         /\ Groq!BuildRequest[1] = Groq!ConvertMessage(SystemMessage)
         /\ \A i \in 1..Len(conversation) :
              Groq!BuildRequest[i + 1] = Groq!ConvertMessage(conversation[i])
<1> DEFINE n == Len(conversation)
           b == BuildMessages
<1>0. n \in Nat
  OBVIOUS
<1>1. /\ Len(b) = n + 1 /\ DOMAIN b = 1..(n + 1)
      /\ b[1] = SystemMessage
      /\ \A i \in 1..n : b[i + 1] = conversation[i]
  BY DEF BuildMessages
<1>2. Groq!BuildMessages = b
  BY DEF Groq!BuildMessages, BuildMessages, Groq!SystemMessage, SystemMessage
<1> HIDE DEF n, b
<1>3. Groq!BuildRequest = [i \in 1..(n + 1) |-> Groq!ConvertMessage(b[i])]
  BY <1>1, <1>2 DEF Groq!BuildRequest
<1>4. \A i \in 1..n : i + 1 \in 1..(n + 1)
  BY <1>0
<1>5. QED
  BY <1>0, <1>1, <1>3, <1>4 DEF n

LEMMA GroqMessage ==
  ASSUME NEW m
  PROVE  /\ Groq!ConvertMessage(m).role = m.role
         /\ Groq!ConvertMessage(m).content = m.content
         /\ Groq!ConvertMessage(m).toolCalls
              = IF m.role = "assistant" THEN Groq!ConvertToolCallsOut(m.calls) ELSE <<>>
         /\ m.role = "tool" => Groq!ConvertMessage(m).toolCallId = m.callId
  BY DEF Groq!ConvertMessage

LEMMA GroqSystemMessage ==
  /\ Groq!ConvertMessage(SystemMessage).role = "system"
  /\ Groq!ConvertMessage(SystemMessage).toolCalls = <<>>
<1>1. SystemMessage.role = "system"
  BY DEF SystemMessage
<1>2. QED
  BY <1>1, GroqMessage

\* The places 2 .. n + 1 are the places 1 .. n, one further on.
LEMMA Places ==
  ASSUME NEW n \in Nat, NEW i \in 1..(n + 1), i # 1
  PROVE  \E k \in 1..n : i = k + 1
<1>1. i - 1 \in 1..n /\ i = (i - 1) + 1
  OBVIOUS
<1>2. QED
  BY <1>1

LEMMA Shifted ==
  ASSUME NEW S, S \subseteq Nat, IsFiniteSet(S)
  PROVE  Cardinality({i + 1 : i \in S}) = Cardinality(S)
<1> DEFINE T == {i + 1 : i \in S}
           f == [i \in S |-> i + 1]
<1>1. f \in Bijection(S, T)
  <2>1. f \in Injection(S, T)
    BY DEF Injection, IsInjective
  <2>2. f \in Surjection(S, T)
    BY DEF Surjection
  <2>3. QED
    BY <2>1, <2>2 DEF Bijection
<1>2. ExistsBijection(S, T)
  BY <1>1 DEF ExistsBijection
<1> HIDE DEF T
<1>3. Cardinality(T) = Cardinality(S)
  BY <1>2, FS_Bijection
<1>4. QED
  BY <1>3 DEF T

LEMMA GroqTurn ==
  ASSUME conversation \in Seq(Message), WireInv, provider = "groq", NEW i \in Assistants
  PROVE  LET choice  == said[Ordinal(i)]
             message == Groq!ConvertMessage(conversation[i])
         IN  [content |-> message.content, toolCalls |-> message.toolCalls] = choice
<1> DEFINE choice == said[Ordinal(i)]
           m      == conversation[i]
           calls  == choice.toolCalls
<1>1. Ordinal(i) \in 1..Len(said)
  BY OrdinalRange DEF WireInv
<1>2. choice \in Groq!Choice
  BY <1>1 DEF WireInv, Heardable
<1>3. m = AssistantMessage(Groq!ParseResponse(<<choice>>))
  BY <1>1 DEF WireInv, Parsed
<1> HIDE DEF choice, m
<1>4. /\ choice = [content |-> choice.content, toolCalls |-> calls]
      /\ calls \in Seq(Groq!APIToolCall)
  BY <1>2 DEF Groq!Choice
<1>5. <<choice>>[1] = choice
  OBVIOUS
<1>6. /\ m.role = "assistant"
      /\ m.content = choice.content
      /\ m.calls = [k \in DOMAIN calls |-> Groq!ToolCallOf(calls[k])]
  BY <1>3, <1>5 DEF Groq!ParseResponse, AssistantMessage
<1> HIDE DEF calls
<1>7. Groq!ConvertToolCallsOut(m.calls) = calls
  <2>1. /\ Len(calls) \in Nat /\ DOMAIN calls = 1..Len(calls)
        /\ calls = [k \in 1..Len(calls) |-> calls[k]]
        /\ \A k \in 1..Len(calls) : calls[k] \in Groq!APIToolCall
    BY <1>4
  <2>2. ASSUME NEW c \in Groq!APIToolCall
        PROVE  [id |-> Groq!ToolCallOf(c).id,
                function |-> [name      |-> Groq!ToolCallOf(c).name,
                              arguments |-> Groq!ToolCallOf(c).args]] = c
    <3>1. c = [id |-> c.id, function |-> c.function] /\ c.function \in Groq!FunctionCall
      BY DEF Groq!APIToolCall
    <3>2. c.function = [name |-> c.function.name, arguments |-> c.function.arguments]
      BY <3>1 DEF Groq!FunctionCall
    <3>3. QED
      BY <3>1, <3>2 DEF Groq!ToolCallOf
  <2>3. m.calls = [k \in 1..Len(calls) |-> Groq!ToolCallOf(calls[k])]
    BY <1>6, <2>1
  <2>4. Groq!ConvertToolCallsOut(m.calls)
          = [k \in 1..Len(calls) |->
               [id |-> Groq!ToolCallOf(calls[k]).id,
                function |-> [name      |-> Groq!ToolCallOf(calls[k]).name,
                              arguments |-> Groq!ToolCallOf(calls[k]).args]]]
    BY <2>3 DEF Groq!ConvertToolCallsOut
  <2>5. Groq!ConvertToolCallsOut(m.calls) = [k \in 1..Len(calls) |-> calls[k]]
    BY <2>1, <2>2, <2>4
  <2>6. QED
    BY <2>1, <2>5
<1>8. /\ Groq!ConvertMessage(m).content = choice.content
      /\ Groq!ConvertMessage(m).toolCalls = calls
  <2>1. /\ Groq!ConvertMessage(m).content = m.content
        /\ Groq!ConvertMessage(m).toolCalls = Groq!ConvertToolCallsOut(m.calls)
    BY <1>6 DEF Groq!ConvertMessage
  <2>2. QED
    BY <1>6, <1>7, <2>1
<1>9. QED
  BY <1>4, <1>8 DEF choice, m

LEMMA SameCardinality == \A S : Groq!Cardinality(S) = Cardinality(S)
  BY DEF Groq!Cardinality, Cardinality

LEMMA GroqHistory ==
  ASSUME conversation \in Seq(Message), WireInv, provider = "groq"
  PROVE  Groq!HistoryVerbatim
<1> DEFINE n == Len(conversation)
           b == Groq!BuildRequest
           spoken == {i \in DOMAIN b : b[i].role = "assistant"}
<1>0. n \in Nat
  OBVIOUS
<1>1. /\ Len(b) = n + 1 /\ DOMAIN b = 1..(n + 1)
      /\ b[1] = Groq!ConvertMessage(SystemMessage)
      /\ \A i \in 1..n : b[i + 1] = Groq!ConvertMessage(conversation[i])
  BY GroqRequest
<1>2. \A i \in 1..n : conversation[i].role \in {"user", "assistant", "tool"}
  <2>1. \A i \in 1..n : conversation[i] \in Message
    OBVIOUS
  <2>2. QED
    BY <2>1 DEF Message
<1>3. b[1].role = "system" /\ \A i \in 1..n : b[i + 1].role = conversation[i].role
  BY <1>1, GroqMessage, GroqSystemMessage
<1>4. \A i \in Assistants : i \in 1..n /\ i \in Nat
  BY DEF Assistants
<1> HIDE DEF b, n
<1>5. spoken = {i + 1 : i \in Assistants}
  <2>1. ASSUME NEW i \in spoken
        PROVE  i \in {j + 1 : j \in Assistants}
    <3>1. i \in 1..(n + 1) /\ i # 1
      BY <1>1, <1>3
    <3>2. PICK k \in 1..n : i = k + 1
      BY <1>0, <3>1, Places
    <3>3. k \in Assistants
      BY <1>3, <3>2 DEF Assistants, n
    <3>4. QED
      BY <3>2, <3>3
  <2>2. ASSUME NEW j \in Assistants
        PROVE  j + 1 \in spoken
    <3>1. j \in 1..n /\ conversation[j].role = "assistant"
      BY <1>4 DEF Assistants
    <3>2. j + 1 \in 1..(n + 1)
      BY <1>0, <3>1
    <3>3. QED
      BY <1>1, <1>3, <3>1, <3>2
  <2>3. QED
    BY <2>1, <2>2
<1> HIDE DEF spoken
<1>6. IsFiniteSet(Assistants) /\ Assistants \subseteq Nat
  BY <1>4, OrdinalRange
<1>7. Cardinality(spoken) = Len(said)
  BY <1>5, <1>6, Shifted DEF WireInv
<1>8. ASSUME NEW i \in spoken
      PROVE  [content |-> b[i].content, toolCalls |-> b[i].toolCalls]
               = said[Cardinality({j \in spoken : j <= i})]
  <2>1. PICK k \in Assistants : i = k + 1
    BY <1>5
  <2> DEFINE S == {j \in Assistants : j <= k}
  <2>2. {j \in spoken : j <= i} = {j + 1 : j \in S}
    BY <1>4, <1>5, <2>1
  <2>3. S \subseteq Nat /\ IsFiniteSet(S)
    <3>1. S \subseteq Assistants
      OBVIOUS
    <3>2. QED
      BY <1>6, <3>1, FS_Subset
  <2>4. Cardinality(S) = Ordinal(k)
    BY DEF Ordinal
  <2> HIDE DEF S
  <2>5. Cardinality({j \in spoken : j <= i}) = Ordinal(k)
    BY <2>2, <2>3, <2>4, Shifted
  <2>6. b[i] = Groq!ConvertMessage(conversation[k])
    BY <1>1, <1>4, <2>1
  <2>7. [content |-> b[i].content, toolCalls |-> b[i].toolCalls] = said[Ordinal(k)]
    BY <2>6, GroqTurn
  <2>8. QED
    BY <2>5, <2>7
<1>9. ASSUME NEW i \in DOMAIN b
      PROVE  b[i].role = "system" <=> i = 1
  <2>1. CASE i = 1
    BY <1>3, <2>1
  <2>2. CASE i # 1
    <3>1. PICK k \in 1..n : i = k + 1
      BY <1>0, <1>1, <2>2, Places
    <3>2. b[i].role = conversation[k].role /\ conversation[k].role # "system"
      BY <1>2, <1>3, <3>1
    <3>3. QED
      BY <2>2, <3>2
  <2>3. QED
    BY <2>1, <2>2
<1>10. \A i \in spoken : [content |-> b[i].content, toolCalls |-> b[i].toolCalls]
                             = said[Cardinality({j \in spoken : j <= i})]
  BY <1>8
<1>11. \A i \in DOMAIN b : b[i].role = "system" <=> i = 1
  BY <1>9
<1>12. QED
  BY <1>7, <1>10, <1>11, SameCardinality DEF Groq!HistoryVerbatim, spoken, b

LEMMA GroqAnswers ==
  ASSUME IInv, WireInv, provider = "groq"
  PROVE  Groq!AnswersFollowCalls
<1> DEFINE n == Len(conversation)
           b == Groq!BuildRequest
<1>0. conversation \in Seq(Message) /\ n \in Nat
  BY DEF IInv, TypeOK
<1>1. /\ Len(b) = n + 1 /\ DOMAIN b = 1..(n + 1)
      /\ b[1] = Groq!ConvertMessage(SystemMessage)
      /\ \A i \in 1..n : b[i + 1] = Groq!ConvertMessage(conversation[i])
  BY <1>0, GroqRequest
<1>2. \A i \in 1..n : conversation[i].calls \in Seq(ToolCall)
                      /\ Len(conversation[i].calls) \in Nat
  BY <1>0, CallsType
<1>3. b[1].role = "system" /\ b[1].toolCalls = <<>>
  BY <1>1, GroqSystemMessage
<1>4. pc = "llm" => EveryCallAnswered /\ pc = "llm"
  BY InvAnswersCalls
<1> HIDE DEF b, n
<1>5. ASSUME NEW i \in 1..n
      PROVE  /\ Len(b[i + 1].toolCalls) = Len(conversation[i].calls)
             /\ DOMAIN b[i + 1].toolCalls = 1..Len(conversation[i].calls)
             /\ \A k \in 1..Len(conversation[i].calls) :
                  b[i + 1].toolCalls[k].id = conversation[i].calls[k].id
  <2> DEFINE m == conversation[i]
  <2>1. b[i + 1] = Groq!ConvertMessage(m)
    BY <1>1
  <2>2. m.calls \in Seq(ToolCall) /\ Len(m.calls) \in Nat
    BY <1>2
  <2>3. m.role # "assistant" => m.calls = <<>>
    BY DEF WireInv, Assistants, n
  <2> HIDE DEF m
  <2>4. CASE m.role = "assistant"
    <3>1. b[i + 1].toolCalls = Groq!ConvertToolCallsOut(m.calls)
      BY <2>1, <2>4, GroqMessage
    <3>2. b[i + 1].toolCalls
            = [k \in 1..Len(m.calls) |->
                 [id |-> m.calls[k].id,
                  function |-> [name |-> m.calls[k].name, arguments |-> m.calls[k].args]]]
      BY <2>2, <3>1 DEF Groq!ConvertToolCallsOut
    <3>3. QED
      BY <2>2, <3>2 DEF m
  <2>5. CASE m.role # "assistant"
    <3>1. b[i + 1].toolCalls = <<>> /\ m.calls = <<>>
      BY <2>1, <2>3, <2>5, GroqMessage
    <3>2. QED
      BY <3>1 DEF m
  <2>6. QED
    BY <2>4, <2>5
<1>6. ASSUME pc = "llm", NEW i \in 1..(n + 1), NEW k \in DOMAIN b[i].toolCalls
      PROVE  /\ i + k <= n + 1
             /\ b[i + k].role = "tool"
             /\ b[i + k].toolCallId = b[i].toolCalls[k].id
  <2>1. i # 1
    BY <1>3, <1>6
  <2>2. PICK h \in 1..n : i = h + 1
    BY <1>0, <2>1, Places
  <2>3. k \in 1..Len(conversation[h].calls) /\ b[i].toolCalls[k].id = conversation[h].calls[k].id
    BY <1>5, <1>6, <2>2
  <2>4. h + k <= n /\ Answers(conversation[h + k], conversation[h].calls[k])
    BY <1>4, <1>6, <2>3 DEF EveryCallAnswered, n
  <2>5. h + k \in 1..n /\ i + k = (h + k) + 1
    <3>1. Len(conversation[h].calls) \in Nat
      BY <1>2
    <3>2. k \in Nat /\ k >= 1
      BY <2>3, <3>1
    <3>3. h + k <= n
      BY <2>4
    <3>4. QED
      BY <1>0, <2>2, <3>2, <3>3
  <2>6. b[i + k] = Groq!ConvertMessage(conversation[h + k])
    BY <1>1, <2>5
  <2>7. QED
    BY <1>0, <2>3, <2>4, <2>5, <2>6, GroqMessage, SMTT(30) DEF Answers
<1>7. ASSUME pc = "llm", NEW j \in 1..(n + 1), b[j].role = "tool"
      PROVE  \E i \in 1..(j - 1) : j - i <= Len(b[i].toolCalls)
  <2>1. j # 1
    BY <1>3, <1>7
  <2>2. PICK h \in 1..n : j = h + 1
    BY <1>0, <2>1, Places
  <2>3. conversation[h].role = "tool"
    BY <1>1, <1>7, <2>2, GroqMessage
  <2>4. PICK i \in 1..(h - 1) : h - i <= Len(conversation[i].calls)
    BY <1>4, <1>7, <2>3 DEF EveryCallAnswered, n
  <2>5. i \in 1..n /\ i + 1 \in 1..(j - 1) /\ j - (i + 1) = h - i
    BY <1>0, <2>2, <2>4
  <2>6. j - (i + 1) <= Len(b[i + 1].toolCalls)
    BY <1>5, <2>4, <2>5
  <2>7. QED
    BY <2>5, <2>6
<1>8. QED
  BY <1>1, <1>6, <1>7 DEF Groq!AnswersFollowCalls, b

-----------------------------------------------------------------------------
(***************************************************************************)
(* Over any number of turns and of Runs a request repeats what the model   *)
(* said, in order, and the system prompt goes along once                   *)
(* (gemini.go:85-87, 161-178, 234-250, groq.go:103-144, 172-189).          *)
(***************************************************************************)
THEOREM HistoryIsKept == ProvidersSpec => []HistoryKept
<1>1. ASSUME IInv, WireInv
      PROVE  HistoryKept
  <2>1. conversation \in Seq(Message)
    BY <1>1 DEF IInv, TypeOK
  <2>2. CASE provider = "gemini"
    BY <1>1, <2>1, <2>2, GeminiHistory DEF HistoryKept
  <2>3. CASE provider = "groq"
    BY <1>1, <2>1, <2>3, GroqHistory DEF HistoryKept
  <2>4. QED
    BY <1>1, <2>2, <2>3 DEF WireInv
<1>2. QED
  BY <1>1, WireInvariant, PTL

\* On the wire too, the messages right after one with calls answer them, in
\* their order and with their ids (gemini.go:147-159, groq.go:113-118).
THEOREM AnswersDoFollowOnWire == ProvidersSpec => []AnswersFollowOnWire
<1>1. ASSUME IInv, WireInv
      PROVE  AnswersFollowOnWire
  <2>1. CASE provider = "gemini"
    BY <1>1, <2>1, GeminiAnswers DEF AnswersFollowOnWire
  <2>2. CASE provider = "groq"
    BY <1>1, <2>2, GroqAnswers DEF AnswersFollowOnWire
  <2>3. QED
    BY <1>1, <2>1, <2>2 DEF WireInv
<1>2. QED
  BY <1>1, WireInvariant, PTL
=============================================================================
