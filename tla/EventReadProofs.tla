-------------------------- MODULE EventReadProofs ---------------------------
(***************************************************************************)
(* A JSON reader (JsonText) finds in what the renderers of EventRender     *)
(* write what they were given: names and lists of any length and with any  *)
(* characters, members in any number.                                      *)
(***************************************************************************)
EXTENDS EventRenderProofs, JsonText

-----------------------------------------------------------------------------
(***************************************************************************)
(* What the loops of the renderers write for one item more.                *)
(***************************************************************************)
LEMMA OneMore ==
    ASSUME NEW V, NEW f \in Seq(V), NEW y \in V, NEW g \in Seq(V),
           Len(g) = Len(f) + 1, \A i \in 1..Len(f) : g[i] = f[i], g[Len(f) + 1] = y
    PROVE  g = Append(f, y)
PROOF
  <1> DEFINE h == Append(f, y)
  <1>1. /\ h \in Seq(V) /\ Len(h) = Len(f) + 1 /\ Len(f) \in Nat
        /\ \A i \in 1..Len(f) : h[i] = f[i]
        /\ h[Len(f) + 1] = y
    BY AppendProperties
  <1> HIDE DEF h
  <1>2. \A i \in 1..Len(g) : g[i] = h[i]
    <2>1. \A i \in 1..Len(g) : i \in 1..Len(f) \/ i = Len(f) + 1
      BY <1>1
    <2> QED
      BY <1>1, <2>1
  <1>3. g = h
    BY <1>1, <1>2, SeqEqual
  <1> QED
    BY <1>3 DEF h

LEMMA EscapedAppend ==
    ASSUME NEW t \in Texts, NEW x \in Tokens
    PROVE  json_append_escaped(Append(t, x)) =
               json_append_escaped(t)
               \o (IF x \in {Quote, Backslash} THEN <<Backslash, x>> ELSE <<x>>)
PROOF
  <1> DEFINE esc(a) == IF a \in {Quote, Backslash} THEN <<Backslash, a>> ELSE <<a>>
             f      == [i \in DOMAIN t |-> esc(t[i])]
             more   == Append(t, x)
             g      == [i \in DOMAIN more |-> esc(more[i])]
  <1>1. /\ Len(t) \in Nat /\ DOMAIN t = 1..Len(t) /\ \A i \in DOMAIN t : t[i] \in Tokens
        /\ DOMAIN more = 1..(Len(t) + 1)
        /\ \A i \in DOMAIN t : more[i] = t[i]
        /\ more[Len(t) + 1] = x
    BY AppendProperties, LenProperties DEF Texts
  <1>2. \A a \in Tokens : esc(a) \in Texts
    BY PunctuationTokens, ShortTexts, Zenon
  <1>3. f \in Seq(Texts)
    <2>1. DOMAIN f = DOMAIN t /\ f = [i \in DOMAIN t |-> f[i]] /\ \A i \in DOMAIN t : f[i] \in Texts
      BY <1>1, <1>2, Zenon
    <2> HIDE DEF f
    <2> QED
      BY <2>1, MappedType DEF Texts
  <1>4. DOMAIN f = DOMAIN t /\ \A i \in DOMAIN t : f[i] = esc(t[i])
    BY Zenon
  <1>5. g = [i \in DOMAIN more |-> g[i]] /\ \A i \in DOMAIN more : g[i] = esc(more[i])
    BY Zenon
  <1>6. json_append_escaped(t) = FlattenSeq(f) /\ json_append_escaped(more) = FlattenSeq(g)
    BY Zenon DEF json_append_escaped
  <1> HIDE DEF f, g, esc
  <1>7. g = Append(f, esc(x))
    <2>1. /\ Len(f) = Len(t) /\ esc(x) \in Texts
          /\ \A i \in 1..Len(t) : g[i] = f[i]
          /\ g[Len(t) + 1] = esc(x)
      BY <1>1, <1>2, <1>3, <1>4, <1>5
    <2>2. g \in Seq(Texts) /\ Len(g) = Len(t) + 1
      <3>1. more \in Seq(Tokens) /\ \A i \in DOMAIN more : more[i] \in Tokens
        BY AppendProperties DEF Texts
      <3> HIDE DEF more
      <3>2. \A i \in DOMAIN more : g[i] \in Texts
        BY <1>2, <1>5, <3>1
      <3>3. g \in Seq(Texts)
        BY <1>5, <3>1, <3>2, MappedType
      <3> QED
        BY <1>1, <1>5, <3>3, LenProperties
    <2> QED
      BY <1>3, <2>1, <2>2, OneMore
  <1>8. FlattenSeq(Append(f, esc(x))) = FlattenSeq(f) \o esc(x)
    BY <1>2, <1>3, FlattenAppend DEF Texts
  <1> QED
    BY <1>6, <1>7, <1>8 DEF esc

LEMMA EscapedEmpty == json_append_escaped(<<>>) = <<>>
PROOF
  <1> DEFINE f == [i \in DOMAIN <<>> |->
                      IF <<>>[i] \in {Quote, Backslash} THEN <<Backslash, <<>>[i]>>
                      ELSE <<<<>>[i]>>]
  <1>1. f = <<>>
    OBVIOUS
  <1> QED
    BY <1>1, FlattenEmpty, Zenon DEF json_append_escaped

LEMMA SeparatedEmpty == Separated(<<>>) = <<>>
PROOF
  <1> DEFINE f == [i \in DOMAIN <<>> |-> IF i = 1 THEN <<>>[i] ELSE <<",">> \o <<>>[i]]
  <1>1. f = <<>>
    OBVIOUS
  <1> QED
    BY <1>1, FlattenEmpty, Zenon DEF Separated

LEMMA SeparatedAppend ==
    ASSUME NEW items \in Seq(Texts), NEW x \in Texts
    PROVE  Separated(Append(items, x)) =
               IF items = <<>> THEN x ELSE Separated(items) \o (<<",">> \o x)
PROOF
  <1> DEFINE part(i, a) == IF i = 1 THEN a ELSE <<",">> \o a
             f    == [i \in DOMAIN items |-> part(i, items[i])]
             more == Append(items, x)
             g    == [i \in DOMAIN more |-> part(i, more[i])]
             last == Len(items) + 1
  <1>1. /\ Len(items) \in Nat /\ DOMAIN items = 1..Len(items)
        /\ \A i \in DOMAIN items : items[i] \in Texts
        /\ DOMAIN more = 1..(Len(items) + 1)
        /\ \A i \in DOMAIN items : more[i] = items[i]
        /\ more[Len(items) + 1] = x
    BY AppendProperties, LenProperties
  <1>2. \A a \in Texts : \A i : part(i, a) \in Texts
    <2>1. <<",">> \in Texts
      BY PunctuationTokens, ShortTexts, Zenon
    <2> QED
      BY <2>1, ConcatType, Zenon
  <1>3. f \in Seq(Texts)
    <2>1. DOMAIN f = DOMAIN items /\ f = [i \in DOMAIN items |-> f[i]]
          /\ \A i \in DOMAIN items : f[i] \in Texts
      BY <1>1, <1>2, Zenon
    <2> HIDE DEF f
    <2> QED
      BY <2>1, MappedType
  <1>4. DOMAIN f = DOMAIN items /\ \A i \in DOMAIN items : f[i] = part(i, items[i])
    BY Zenon
  <1>5. g = [i \in DOMAIN more |-> g[i]] /\ \A i \in DOMAIN more : g[i] = part(i, more[i])
    BY Zenon
  <1>6. Separated(items) = FlattenSeq(f) /\ Separated(more) = FlattenSeq(g)
    BY Zenon DEF Separated
  <1>7. items = <<>> <=> last = 1
    BY <1>1, EmptySeq
  <1>8. items = <<>> => Separated(items) = <<>>
    BY SeparatedEmpty
  <1> HIDE DEF f, g, part
  <1>9. g = Append(f, part(last, x))
    <2>1. /\ Len(f) = Len(items) /\ part(last, x) \in Texts
          /\ \A i \in 1..Len(items) : g[i] = f[i]
          /\ g[Len(items) + 1] = part(last, x)
      BY <1>1, <1>2, <1>3, <1>4, <1>5
    <2>2. g \in Seq(Texts) /\ Len(g) = Len(items) + 1
      <3>1. more \in Seq(Texts) /\ \A i \in DOMAIN more : more[i] \in Texts
        BY AppendProperties
      <3> HIDE DEF more
      <3>2. \A i \in DOMAIN more : g[i] \in Texts
        BY <1>2, <1>5, <3>1
      <3>3. g \in Seq(Texts)
        BY <1>5, <3>1, <3>2, MappedType
      <3> QED
        BY <1>1, <1>5, <3>3, LenProperties
    <2> QED
      BY <1>3, <2>1, <2>2, OneMore
  <1>10. FlattenSeq(Append(f, part(last, x))) = FlattenSeq(f) \o part(last, x)
    BY <1>2, <1>3, FlattenAppend DEF Texts
  <1>11. CASE items = <<>>
    <2>1. part(last, x) = x
      BY <1>7, <1>11 DEF part
    <2>2. <<>> \o x = x
      BY ConcatEmptySeq DEF Texts
    <2> QED
      BY <1>6, <1>8, <1>9, <1>10, <1>11, <2>1, <2>2, Zenon
  <1>12. CASE items # <<>>
    <2>1. part(last, x) = <<",">> \o x
      BY <1>7, <1>12, Zenon DEF part
    <2> QED
      BY <1>6, <1>9, <1>10, <1>12, <2>1, Zenon
  <1> QED
    BY <1>11, <1>12

-----------------------------------------------------------------------------
(***************************************************************************)
(* After(s, text): the reader goes through a text token by token, ...      *)
(***************************************************************************)
LEMMA AfterRecursion ==
    ASSUME NEW U, NEW text \in Seq(U), NEW s
    PROVE  \E after :
               /\ after[0] = s
               /\ \A n \in 1..Len(text) : after[n] = Read(after[n - 1], text[n])
               /\ After(s, text) = after[Len(text)]
PROOF
  <1> DEFINE Solves(f, n) ==
                 f = [m \in 0..n |-> IF m = 0 THEN s ELSE Read(f[m - 1], text[m])]
             Solvable == {n \in Nat : \E f : Solves(f, n)}
  <1>1. 0 \in Solvable
    <2>1. Solves([m \in 0..0 |-> s], 0)
      OBVIOUS
    <2> QED
      BY <2>1
  <1>2. ASSUME NEW n \in Nat, n \in Solvable
        PROVE  n + 1 \in Solvable
    <2>1. PICK f : Solves(f, n)
      BY <1>2
    <2> DEFINE g == [m \in 0..(n + 1) |-> IF m = n + 1 THEN Read(f[n], text[m]) ELSE f[m]]
    <2>2. ASSUME NEW m \in 0..(n + 1)
          PROVE  g[m] = IF m = 0 THEN s ELSE Read(g[m - 1], text[m])
      <3>1. CASE m = n + 1
        BY <3>1
      <3>2. CASE m \in 0..n
        <4>1. g[m] = f[m]
          BY <3>2
        <4>2. f[m] = IF m = 0 THEN s ELSE Read(f[m - 1], text[m])
          BY <2>1, <3>2
        <4>3. m # 0 => g[m - 1] = f[m - 1]
          BY <3>2
        <4> HIDE DEF g
        <4> QED
          BY <4>1, <4>2, <4>3
      <3> QED
        BY <3>1, <3>2
    <2>3. Solves(g, n + 1)
      BY <2>2
    <2> HIDE DEF g, Solves
    <2> QED
      BY <2>3
  <1>3. Len(text) \in Nat
    OBVIOUS
  <1>4. Nat \subseteq Solvable
    <2> HIDE DEF Solvable
    <2> QED
      BY <1>1, <1>2, SetInduction
  <1>5. \E f : Solves(f, Len(text))
    BY <1>3, <1>4
  <1> DEFINE after == CHOOSE f : Solves(f, Len(text))
  <1>6. Solves(after, Len(text))
    <2> HIDE DEF Solves
    <2> QED
      BY <1>5
  <1>7. After(s, text) = after[Len(text)]
    BY DEF After
  <1> HIDE DEF after
  <1>8. \A m \in 0..Len(text) : after[m] = IF m = 0 THEN s ELSE Read(after[m - 1], text[m])
    BY <1>6, Zenon
  <1> HIDE DEF Solves
  <1> QED
    BY <1>3, <1>7, <1>8

LEMMA AfterEmpty == \A s : After(s, <<>>) = s
PROOF
  <1>1. ASSUME NEW s, NEW text \in Seq(Nat), Len(text) = 0
        PROVE  After(s, text) = s
    <2>1. PICK after : /\ after[0] = s
                       /\ \A n \in 1..Len(text) : after[n] = Read(after[n - 1], text[n])
                       /\ After(s, text) = after[Len(text)]
      BY AfterRecursion
    <2> QED
      BY <1>1, <2>1
  <1>2. <<>> \in Seq(Nat) /\ Len(<<>>) = 0
    BY EmptySeq
  <1> QED
    BY <1>1, <1>2, Zenon

LEMMA AfterAppend ==
    ASSUME NEW U, NEW text \in Seq(U), NEW x \in U, NEW s
    PROVE  After(s, Append(text, x)) = Read(After(s, text), x)
PROOF
  <1> DEFINE more == Append(text, x)
             n    == Len(text)
  <1>1. /\ n \in Nat /\ more \in Seq(U) /\ Len(more) = n + 1
        /\ \A i \in 1..n : more[i] = text[i]
        /\ more[n + 1] = x
    BY AppendProperties
  <1> HIDE DEF more, n
  <1>2. PICK f : /\ f[0] = s
                 /\ \A k \in 1..Len(more) : f[k] = Read(f[k - 1], more[k])
                 /\ After(s, more) = f[Len(more)]
    BY <1>1, AfterRecursion
  <1>3. PICK g : /\ g[0] = s
                 /\ \A k \in 1..n : g[k] = Read(g[k - 1], text[k])
                 /\ After(s, text) = g[n]
    BY AfterRecursion DEF n
  <1> DEFINE Good == {k \in Nat : k <= n => f[k] = g[k]}
  <1>4. 0 \in Good
    BY <1>2, <1>3
  <1>5. ASSUME NEW k \in Nat, k \in Good
        PROVE  k + 1 \in Good
    <2>1. SUFFICES ASSUME k + 1 <= n
                   PROVE  f[k + 1] = g[k + 1]
      OBVIOUS
    <2>2. f[k] = g[k]
      BY <1>1, <1>5, <2>1
    <2>3. k + 1 \in 1..n /\ k + 1 \in 1..Len(more) /\ (k + 1) - 1 = k
      BY <1>1, <2>1
    <2>4. f[k + 1] = Read(f[(k + 1) - 1], more[k + 1]) /\ g[k + 1] = Read(g[(k + 1) - 1], text[k + 1])
      BY <1>2, <1>3, <2>3, Zenon
    <2>5. more[k + 1] = text[k + 1]
      BY <1>1, <2>3
    <2> QED
      BY <2>2, <2>3, <2>4, <2>5
  <1>6. Nat \subseteq Good
    <2> HIDE DEF Good
    <2> QED
      BY <1>4, <1>5, SetInduction
  <1>7. f[n] = g[n]
    BY <1>1, <1>6
  <1>8. n + 1 \in 1..Len(more) /\ (n + 1) - 1 = n
    BY <1>1
  <1>9. f[n + 1] = Read(f[(n + 1) - 1], more[n + 1])
    BY <1>2, <1>8, Zenon
  <1> QED
    BY <1>1, <1>2, <1>3, <1>7, <1>8, <1>9, Zenon DEF more

\* ... so it reads a text piece by piece.
LEMMA AfterConcat ==
    ASSUME NEW a \in Texts, NEW b \in Texts, NEW s
    PROVE  After(s, a \o b) = After(After(s, a), b)
PROOF
  <1> DEFINE Good == {u \in Texts : After(s, a \o u) = After(After(s, a), u)}
  <1>1. <<>> \in Good
    <2>1. a \o <<>> = a /\ <<>> \in Texts
      BY ConcatEmptySeq, EmptySeq DEF Texts
    <2> QED
      BY <2>1, AfterEmpty
  <1>2. ASSUME NEW u \in Seq(Tokens), u \in Good, NEW x \in Tokens
        PROVE  Append(u, x) \in Good
    <2>1. a \o Append(u, x) = Append(a \o u, x) /\ a \o u \in Seq(Tokens)
      BY ConcatAppend, ConcatProperties DEF Texts
    <2>2. After(s, Append(a \o u, x)) = Read(After(s, a \o u), x)
      BY <2>1, AfterAppend
    <2>3. After(After(s, a), Append(u, x)) = Read(After(After(s, a), u), x)
      BY AfterAppend
    <2>4. Append(u, x) \in Texts
      BY AppendProperties DEF Texts
    <2> QED
      BY <1>2, <2>1, <2>2, <2>3, <2>4
  <1>3. Seq(Tokens) \subseteq Good
    <2> HIDE DEF Good
    <2> QED
      BY <1>1, <1>2, SeqInduction
  <1> QED
    BY <1>3 DEF Texts

LEMMA AfterFew ==
    ASSUME NEW s, NEW x \in Tokens, NEW y \in Tokens
    PROVE  /\ After(s, <<x>>) = Read(s, x)
           /\ After(s, <<x, y>>) = Read(Read(s, x), y)
PROOF
  <1>1. <<>> \in Seq(Tokens) /\ <<x>> \in Seq(Tokens)
    OBVIOUS
  <1>2. <<x>> = Append(<<>>, x) /\ <<x, y>> = Append(<<x>>, y)
    OBVIOUS
  <1>3. After(s, <<x>>) = Read(s, x)
    <2>1. After(s, Append(<<>>, x)) = Read(After(s, <<>>), x)
      BY <1>1, AfterAppend
    <2> QED
      BY <1>2, <2>1, AfterEmpty, Zenon
  <1>4. After(s, Append(<<x>>, y)) = Read(After(s, <<x>>), y)
    BY <1>1, AfterAppend
  <1> QED
    BY <1>2, <1>3, <1>4, Zenon

-----------------------------------------------------------------------------
(***************************************************************************)
(* Decode(text): the reader goes through a text in pieces, and is at the   *)
(* end where it is after the whole of it.                                  *)
(***************************************************************************)
LEMMA PieceBounds ==
    ASSUME NEW text \in Texts
    PROVE  /\ Pieces(text) \in Nat /\ 0 < Pieces(text)
           /\ Upto(text, 0) = 0 /\ Upto(text, Pieces(text)) = Len(text)
           /\ \A n \in 0..Pieces(text) : Upto(text, n) \in 0..Len(text)
           /\ \A n \in 1..Pieces(text) : Upto(text, n - 1) <= Upto(text, n)
PROOF
  <1> DEFINE length == Len(text)
             last   == Pieces(text)
  <1>1. length \in Nat
    BY LenProperties DEF Texts
  <1>2. last = length \div 10 + 1
    BY DEF Pieces, Stretch
  <1>3. \A n : Upto(text, n) = IF n < last THEN 10 * n ELSE length
    BY DEF Upto, Stretch
  <1> HIDE DEF length, last
  <1>4. last \in Nat /\ 0 < last /\ 10 * (last - 1) <= length
    BY <1>1, <1>2
  <1>5. \A n \in Nat : n < last => 10 * n <= length
    BY <1>1, <1>4
  <1> QED
    BY <1>1, <1>3, <1>4, <1>5 DEF length, last

LEMMA EndsRecursion ==
    ASSUME NEW text \in Texts
    PROVE  \E ends :
               /\ ends[0] = {Start}
               /\ \A n \in 1..Pieces(text) :
                      ends[n] = {After(s, SubSeq(text, Upto(text, n - 1) + 1, Upto(text, n))) :
                                     s \in ends[n - 1]}
               /\ Ends(text) = ends[Pieces(text)]
PROOF
  <1> DEFINE next(S, n) == {After(s, SubSeq(text, Upto(text, n - 1) + 1, Upto(text, n))) : s \in S}
             Solves(f, n) == f = [m \in 0..n |-> IF m = 0 THEN {Start} ELSE next(f[m - 1], m)]
             Solvable == {n \in Nat : \E f : Solves(f, n)}
             last     == Pieces(text)
             ends     == CHOOSE f : Solves(f, last)
  <1>1. last \in Nat
    BY PieceBounds
  <1>2. Ends(text) = ends[last]
    BY Zenon DEF Ends
  <1> HIDE DEF next, last
  <1>3. 0 \in Solvable
    <2>1. Solves([m \in 0..0 |-> {Start}], 0)
      OBVIOUS
    <2> QED
      BY <2>1
  <1>4. ASSUME NEW n \in Nat, n \in Solvable
        PROVE  n + 1 \in Solvable
    <2>1. PICK f : Solves(f, n)
      BY <1>4
    <2> DEFINE g == [m \in 0..(n + 1) |-> IF m = n + 1 THEN next(f[n], m) ELSE f[m]]
    <2>2. ASSUME NEW m \in 0..(n + 1)
          PROVE  g[m] = IF m = 0 THEN {Start} ELSE next(g[m - 1], m)
      <3>1. CASE m = n + 1
        BY <3>1
      <3>2. CASE m \in 0..n
        <4>1. g[m] = f[m]
          BY <3>2
        <4>2. f[m] = IF m = 0 THEN {Start} ELSE next(f[m - 1], m)
          BY <2>1, <3>2
        <4>3. m # 0 => g[m - 1] = f[m - 1]
          BY <3>2
        <4> HIDE DEF g
        <4> QED
          BY <4>1, <4>2, <4>3
      <3> QED
        BY <3>1, <3>2
    <2>3. Solves(g, n + 1)
      BY <2>2
    <2> HIDE DEF g, Solves
    <2> QED
      BY <2>3
  <1>5. Nat \subseteq Solvable
    <2> HIDE DEF Solvable
    <2> QED
      BY <1>3, <1>4, SetInduction
  <1>6. \E f : Solves(f, last)
    BY <1>1, <1>5
  <1>7. Solves(ends, last)
    <2> HIDE DEF Solves
    <2> QED
      BY <1>6
  <1> HIDE DEF ends
  <1>8. \A m \in 0..last : ends[m] = IF m = 0 THEN {Start} ELSE next(ends[m - 1], m)
    BY <1>7, Zenon
  <1> HIDE DEF Solves
  <1>9. /\ ends[0] = {Start}
        /\ \A n \in 1..last : ends[n] = next(ends[n - 1], n)
    BY <1>1, <1>8
  <1> QED
    BY <1>2, <1>9, Zenon DEF next, last

LEMMA EndsAfter ==
    ASSUME NEW text \in Texts
    PROVE  Ends(text) = {After(Start, text)}
PROOF
  <1> DEFINE last == Pieces(text)
             upto(n)  == Upto(text, n)
             piece(n) == SubSeq(text, upto(n - 1) + 1, upto(n))
             read(n)  == SubSeq(text, 1, upto(n))
  <1>1. PICK ends : /\ ends[0] = {Start}
                    /\ \A n \in 1..last : ends[n] = {After(s, piece(n)) : s \in ends[n - 1]}
                    /\ Ends(text) = ends[last]
    BY EndsRecursion, Zenon
  <1>2. /\ last \in Nat /\ upto(0) = 0 /\ upto(last) = Len(text)
        /\ \A n \in 0..last : upto(n) \in 0..Len(text)
        /\ \A n \in 1..last : upto(n - 1) <= upto(n)
    BY PieceBounds
  <1>3. text \in Seq(Tokens) /\ Len(text) \in Nat
    BY LenProperties DEF Texts
  <1> HIDE DEF last, upto
  <1> DEFINE Good == {n \in Nat : n <= last => ends[n] = {After(Start, read(n))}}
  <1>4. 0 \in Good
    <2>1. read(0) = <<>>
      BY <1>2, SubSeqEmpty
    <2>2. After(Start, read(0)) = Start
      BY <2>1, AfterEmpty
    <2> HIDE DEF read
    <2> QED
      BY <1>1, <2>2
  <1>5. ASSUME NEW k \in Nat, k \in Good
        PROVE  k + 1 \in Good
    <2> DEFINE n == k + 1
    <2>1. SUFFICES ASSUME n <= last
                   PROVE  ends[n] = {After(Start, read(n))}
      OBVIOUS
    <2>2. n \in 1..last /\ n - 1 = k /\ k \in 0..last /\ n \in 0..last
      BY <1>2, <2>1
    <2>3. upto(k) \in 0..Len(text) /\ upto(n) \in upto(k)..Len(text)
      BY <1>2, <1>3, <2>2
    <2>4. read(n) = read(k) \o piece(n)
      <3>1. SubSeq(text, 1, upto(k)) \o SubSeq(text, upto(k) + 1, upto(n)) = SubSeq(text, 1, upto(n))
        <4> DEFINE k0 == upto(k)
                   n0 == upto(n)
        <4>1. 1 \in 1..Len(text) + 1 /\ k0 \in 1 - 1..Len(text) /\ n0 \in k0..Len(text)
          BY <1>3, <2>3
        <4> HIDE DEF k0, n0
        <4>2. SubSeq(text, 1, k0) \o SubSeq(text, k0 + 1, n0) = SubSeq(text, 1, n0)
          BY <1>3, <4>1, ConcatAdjacentSubSeq
        <4> QED
          BY <4>2 DEF k0, n0
      <3> QED
        BY <2>2, <3>1
    <2>5. read(k) \in Texts /\ piece(n) \in Texts
      <3>1. \A i \in 1..Len(text) : text[i] \in Tokens
        BY <1>3
      <3>2. SubSeq(text, 1, upto(k)) \in Seq(Tokens)
        BY <1>3, <2>3, <3>1, SubSeqProperties
      <3>3. SubSeq(text, upto(k) + 1, upto(n)) \in Seq(Tokens)
        BY <1>3, <2>3, <3>1, SubSeqProperties
      <3> QED
        BY <2>2, <3>2, <3>3 DEF Texts
    <2>6. ends[n] = {After(s, piece(n)) : s \in ends[n - 1]} /\ ends[n - 1] = {After(Start, read(k))}
      BY <1>1, <1>5, <2>1, <2>2
    <2> HIDE DEF n, read, piece
    <2>7. After(Start, read(n)) = After(After(Start, read(k)), piece(n))
      BY <2>4, <2>5, AfterConcat
    <2> QED
      BY <2>6, <2>7
  <1>6. last \in Good
    <2> HIDE DEF Good
    <2> QED
      BY <1>2, <1>4, <1>5, SetInduction
  <1>7. read(last) = text
    BY <1>2, <1>3, SubSeqFull
  <1> HIDE DEF read
  <1>8. ends[last] = {After(Start, read(last))}
    BY <1>2, <1>6
  <1> QED
    BY <1>1, <1>7, <1>8

LEMMA DecodeAfter ==
    ASSUME NEW text \in Texts
    PROVE  Decode(text) =
               IF After(Start, text).mode = "outside" /\ After(Start, text).want = "nothing"
               THEN After(Start, text).members ELSE Malformed
PROOF
  <1> DEFINE end == CHOOSE s \in Ends(text) : TRUE
  <1>1. Decode(text) =
            IF end.mode = "outside" /\ end.want = "nothing" THEN end.members ELSE Malformed
    BY DEF Decode
  <1>2. end = After(Start, text)
    BY EndsAfter
  <1> HIDE DEF end
  <1> QED
    BY <1>1, <1>2

-----------------------------------------------------------------------------
(***************************************************************************)
(* The reader's state outside of strings, and in one.                      *)
(***************************************************************************)
Outside(want, open, key, parts, ms) ==
    [mode |-> "outside", string |-> <<>>, want |-> want, open |-> open,
     key |-> key, parts |-> parts, members |-> ms]

InString(string, want, open, key, parts, ms) ==
    [mode |-> "string", string |-> string, want |-> want, open |-> open,
     key |-> key, parts |-> parts, members |-> ms]

\* What is wanted where a key or a value may come.
KeyWanted    == {"key", "key or end"}
ListEndKnown == {"separator", "value or end"}
ValueWanted  == {"value", "value or end"}
StringWanted == KeyWanted \cup ValueWanted

\* A string has begun.
Begun(want, open, key, parts, ms) == InString(<<>>, want, open, key, parts, ms)

\* What each sign does outside of strings.
LEMMA ColonRead ==
    ASSUME NEW open, NEW k, NEW p, NEW ms
    PROVE  Read(Outside("colon", open, k, p, ms), ":") = Outside("value", open, k, p, ms)
BY NumbersAssumption DEF Read, ReadOutside, Outside, WantsKey, WantsValue, Inside

\* The containers around a member of the event, of a list and of the userdb object.
Outermost == <<"object">>
InList    == <<"array", "object">>
InUserdb  == <<"object", "object">>

LEMMA Containers ==
    /\ Outermost # <<>> /\ Len(Outermost) = 1
    /\ Head(Outermost) = "object" /\ Tail(Outermost) = <<>>
    /\ InUserdb # <<>> /\ Len(InUserdb) # 1
    /\ Head(InUserdb) = "object" /\ Tail(InUserdb) = Outermost
    /\ InList # <<>> /\ Len(InList) # 1
    /\ Head(InList) = "array" /\ Tail(InList) = Outermost
    /\ <<"object">> \o <<>> = Outermost
    /\ <<"object">> \o Outermost = InUserdb
    /\ <<"array">> \o Outermost = InList
PROOF
  <1>1. <<"object">> # <<>> /\ <<"object", "object">> # <<>> /\ <<"array", "object">> # <<>>
    OBVIOUS
  <1>2. Len(<<"object">>) = 1 /\ Len(<<"object", "object">>) # 1 /\ Len(<<"array", "object">>) # 1
    OBVIOUS
  <1>3. /\ Head(<<"object">>) = "object" /\ Head(<<"object", "object">>) = "object"
        /\ Head(<<"array", "object">>) = "array"
    OBVIOUS
  <1>4. Tail(<<"object">>) = <<>>
    OBVIOUS
  <1>5. \A a, b : Tail(<<a, b>>) = <<b>>
    <2> TAKE a, b
    <2>1. /\ Tail(<<a, b>>) \in Seq({a, b}) /\ Len(Tail(<<a, b>>)) = 1
          /\ Tail(<<a, b>>)[1] = b
      OBVIOUS
    <2>2. <<b>> \in Seq({a, b}) /\ Len(<<b>>) = 1 /\ <<b>>[1] = b
      OBVIOUS
    <2> QED
      BY <2>1, <2>2, SeqEqual
  <1>6. \A a : <<a>> \o <<>> = <<a>>
    <2> TAKE a
    <2>1. <<a>> \in Seq({a})
      OBVIOUS
    <2> QED
      BY <2>1, ConcatEmptySeq, Zenon
  <1>7. \A a, b : <<a>> \o <<b>> = <<a, b>>
    <2> TAKE a, b
    <2> DEFINE S == {a, b}
    <2>1. a \in S /\ b \in S
      OBVIOUS
    <2> HIDE DEF S
    <2>2. <<a>> \in Seq(S)
      BY <2>1
    <2>3. <<a, b>> = Append(<<a>>, b)
      OBVIOUS
    <2>4. <<a>> \o <<b>> = Append(<<a>>, b)
      BY <2>1, <2>2, AppendIsConcat
    <2> QED
      BY <2>3, <2>4, Zenon
  <1> QED
    BY <1>1, <1>2, <1>3, <1>4, <1>5, <1>6, <1>7, Zenon DEF Outermost, InList, InUserdb

LEMMA CommaRead ==
    ASSUME NEW open, open # <<>>, Head(open) = "object", Len(open) = 1, NEW k, NEW p, NEW ms
    PROVE  Read(Outside("separator", open, k, p, ms), ",") =
               Outside("key", open, k, p, Append(ms, <<k, p>>))
BY NumbersAssumption DEF Read, ReadOutside, Outside, WantsKey, WantsValue, Inside, Commit

LEMMA UserdbComma ==
    ASSUME NEW k, NEW p, NEW ms
    PROVE  Read(Outside("separator", InUserdb, k, p, ms), ",") =
               Outside("key", InUserdb, k, p, ms)
PROOF
  <1> DEFINE open == InUserdb
  <1>1. open # <<>> /\ Head(open) = "object" /\ Len(open) # 1
    BY Containers
  <1> HIDE DEF open
  <1>2. Read(Outside("separator", open, k, p, ms), ",") = Outside("key", open, k, p, ms)
    BY <1>1, NumbersAssumption
       DEF Read, ReadOutside, Outside, WantsKey, WantsValue, Inside, Commit
  <1> QED
    BY <1>2 DEF open

LEMMA ListComma ==
    ASSUME NEW k, NEW p, NEW ms
    PROVE  Read(Outside("separator", InList, k, p, ms), ",") =
               Outside("value", InList, k, p, ms)
PROOF
  <1> DEFINE open == InList
  <1>1. open # <<>> /\ Head(open) = "array" /\ Len(open) # 1
    BY Containers
  <1> HIDE DEF open
  <1>2. Read(Outside("separator", open, k, p, ms), ",") = Outside("value", open, k, p, ms)
    BY <1>1, NumbersAssumption
       DEF Read, ReadOutside, Outside, WantsKey, WantsValue, Inside, Commit
  <1> QED
    BY <1>2 DEF open

LEMMA OpeningRead ==
    ASSUME NEW open, NEW k, NEW p, NEW ms
    PROVE  /\ Read(Outside("object", open, k, p, ms), "{") =
                  Outside("key or end", <<"object">> \o open, k, p, ms)
           /\ Read(Outside("value", open, k, p, ms), "{") =
                  Outside("key or end", <<"object">> \o open, k, p, ms)
           /\ Read(Outside("value", open, k, p, ms), "[") =
                  Outside("value or end", <<"array">> \o open, k, p, ms)
BY NumbersAssumption DEF Read, ReadOutside, Outside, WantsKey, WantsValue, Inside, Enter

LEMMA EventClosed ==
    ASSUME NEW k, NEW p, NEW ms
    PROVE  Read(Outside("separator", Outermost, k, p, ms), "}") =
               Outside("nothing", <<>>, k, p, Append(ms, <<k, p>>))
PROOF
  <1> DEFINE open == Outermost
             up   == <<>>
  <1>1. open # <<>> /\ Head(open) = "object" /\ Len(open) = 1 /\ Tail(open) = up
    BY Containers
  <1> HIDE DEF open, up
  <1>2. Read(Outside("separator", open, k, p, ms), "}") =
            Outside("nothing", up, k, p, Append(ms, <<k, p>>))
    BY <1>1, NumbersAssumption
       DEF Read, ReadOutside, Outside, WantsKey, WantsValue, Inside, Leave, Commit
  <1> QED
    BY <1>2 DEF open, up

LEMMA UserdbClosed ==
    ASSUME NEW k, NEW p, NEW ms
    PROVE  Read(Outside("separator", InUserdb, k, p, ms), "}") =
               Outside("separator", Outermost, k, p, ms)
PROOF
  <1> DEFINE open == InUserdb
             up   == Outermost
  <1>1. open # <<>> /\ Head(open) = "object" /\ Len(open) # 1 /\ Tail(open) = up
    BY Containers
  <1> HIDE DEF open, up
  <1>2. Read(Outside("separator", open, k, p, ms), "}") = Outside("separator", up, k, p, ms)
    BY <1>1, NumbersAssumption
       DEF Read, ReadOutside, Outside, WantsKey, WantsValue, Inside, Leave, Commit
  <1> QED
    BY <1>2 DEF open, up

LEMMA ListClosed ==
    ASSUME NEW want \in ListEndKnown, NEW k, NEW p, NEW ms
    PROVE  Read(Outside(want, InList, k, p, ms), "]") = Outside("separator", Outermost, k, p, ms)
PROOF
  <1> DEFINE open == InList
             up   == Outermost
  <1>1. open # <<>> /\ Head(open) = "array" /\ Len(open) # 1 /\ Tail(open) = up
    BY Containers
  <1> HIDE DEF open, up
  <1>2. Read(Outside(want, open, k, p, ms), "]") = Outside("separator", up, k, p, ms)
    BY <1>1, NumbersAssumption
       DEF Read, ReadOutside, Outside, WantsKey, WantsValue, Inside, Leave, Commit, ListEndKnown
  <1> QED
    BY <1>2 DEF open, up

LEMMA NumberRead ==
    ASSUME NEW open, NEW k, NEW p, NEW ms, NEW n \in Numbers
    PROVE  Read(Outside("value", open, k, p, ms), n) =
               Outside("separator", open, k, Append(p, <<n>>), ms)
BY NumbersAssumption DEF Read, ReadOutside, Outside, WantsKey, WantsValue, Inside, Part

LEMMA StringStarts ==
    ASSUME NEW want \in StringWanted,
           NEW open, NEW k, NEW p, NEW ms
    PROVE  Read(Outside(want, open, k, p, ms), Quote) = Begun(want, open, k, p, ms)
BY NumbersAssumption
   DEF Read, ReadOutside, Outside, Begun, InString, WantsKey, WantsValue, Inside, Quote,
       StringWanted, KeyWanted, ValueWanted

LEMMA StringGrows ==
    ASSUME NEW string, NEW want, NEW open, NEW k, NEW p, NEW ms,
           NEW x, x \notin {Quote, Backslash}
    PROVE  Read(InString(string, want, open, k, p, ms), x) =
               InString(Append(string, x), want, open, k, p, ms)
BY DEF Read, ReadInString, InString, Quote, Backslash

LEMMA EscapeRead ==
    ASSUME NEW string, NEW want, NEW open, NEW k, NEW p, NEW ms, NEW x \in {Quote, Backslash}
    PROVE  Read(Read(InString(string, want, open, k, p, ms), Backslash), x) =
               InString(Append(string, x), want, open, k, p, ms)
PROOF
  <1> DEFINE s == [mode |-> "escape", string |-> string, want |-> want, open |-> open,
                   key |-> k, parts |-> p, members |-> ms]
  <1>1. Read(InString(string, want, open, k, p, ms), Backslash) = s
    BY DEF Read, ReadInString, InString, Backslash
  <1>2. Read(s, x) = InString(Append(string, x), want, open, k, p, ms)
    BY DEF Read, ReadEscaped, InString, Quote, Backslash
  <1> QED
    BY <1>1, <1>2, Zenon

LEMMA StringEnds ==
    ASSUME NEW string, NEW want, NEW open, NEW k, NEW p, NEW ms
    PROVE  Read(InString(string, want, open, k, p, ms), Quote) =
               StringRead(Outside(want, open, k, p, ms), string)
PROOF
  <1> DEFINE s == InString(string, want, open, k, p, ms)
             u == [s EXCEPT !.mode = "outside", !.string = <<>>]
             v == Outside(want, open, k, p, ms)
  <1>1. s.string = string /\ s.mode = "string"
    BY DEF InString
  <1>2. u = v
    <2>1. DOMAIN u = DOMAIN v
      BY DEF InString, Outside
    <2>2. /\ u.mode = "outside" /\ u.string = <<>> /\ u.want = want /\ u.open = open
          /\ u.key = k /\ u.parts = p /\ u.members = ms
      BY DEF InString
    <2>3. /\ v.mode = "outside" /\ v.string = <<>> /\ v.want = want /\ v.open = open
          /\ v.key = k /\ v.parts = p /\ v.members = ms
      BY DEF Outside
    <2>4. DOMAIN v = {"mode", "string", "want", "open", "key", "parts", "members"}
      BY DEF Outside
    <2>5. u = [x \in DOMAIN u |-> u[x]]
      OBVIOUS
    <2>6. v = [x \in DOMAIN v |-> v[x]]
      BY DEF Outside
    <2> HIDE DEF u, v
    <2>7. \A x \in DOMAIN v : u[x] = v[x]
      BY <2>2, <2>3, <2>4
    <2> QED
      BY <2>1, <2>5, <2>6, <2>7
  <1> HIDE DEF s
  <1>3. Quote = "\"" /\ Quote # "\\"
    BY DEF Quote
  <1> QED
    BY <1>1, <1>2, <1>3, Zenon DEF Read, ReadInString, s

LEMMA StringIsValue ==
    ASSUME NEW want \in ValueWanted, NEW open, NEW k, NEW p, NEW ms, NEW text
    PROVE  StringRead(Outside(want, open, k, p, ms), text) =
               Outside("separator", open, k, Append(p, text), ms)
BY DEF StringRead, Outside, WantsValue, Part, KeyWanted, ValueWanted

LEMMA StringIsKey ==
    ASSUME NEW want \in KeyWanted, NEW open, NEW k, NEW p, NEW ms, NEW text
    PROVE  /\ Len(open) = 1 =>
                  StringRead(Outside(want, open, k, p, ms), text) =
                      Outside("colon", open, text, <<>>, ms)
           /\ Len(open) # 1 =>
                  StringRead(Outside(want, open, k, p, ms), text) =
                      Outside("colon", open, k, Append(p, text), ms)
BY DEF StringRead, Outside, WantsValue, Part, KeyWanted, ValueWanted

-----------------------------------------------------------------------------
(***************************************************************************)
(* A string is read as the text it was written from, whatever characters   *)
(* that has.                                                               *)
(***************************************************************************)
LEMMA TextInString ==
    ASSUME NEW text \in Texts, NEW want, NEW open, NEW k, NEW p, NEW ms
    PROVE  After(Begun(want, open, k, p, ms), json_append_escaped(text)) =
               InString(text, want, open, k, p, ms)
PROOF
  <1> DEFINE in(t) == InString(t, want, open, k, p, ms)
             start == Begun(want, open, k, p, ms)
             Good  == {t \in Texts : After(start, json_append_escaped(t)) = in(t)}
  <1>1. <<>> \in Good
    <2>1. <<>> \in Texts
      BY EmptySeq DEF Texts
    <2>2. After(start, json_append_escaped(<<>>)) = in(<<>>)
      BY EscapedEmpty, AfterEmpty, Zenon DEF Begun
    <2> QED
      BY <2>1, <2>2
  <1>2. ASSUME NEW t \in Seq(Tokens), t \in Good, NEW x \in Tokens
        PROVE  Append(t, x) \in Good
    <2> DEFINE e == IF x \in {Quote, Backslash} THEN <<Backslash, x>> ELSE <<x>>
    <2>1. t \in Texts /\ After(start, json_append_escaped(t)) = in(t)
      BY <1>2
    <2>2. e \in Texts /\ json_append_escaped(t) \in Texts
      BY <2>1, PunctuationTokens, ShortTexts, AppendEscapedType, Zenon
    <2>3. After(in(t), e) = in(Append(t, x))
      <3>1. CASE x \in {Quote, Backslash}
        <4>1. After(in(t), <<Backslash, x>>) = Read(Read(in(t), Backslash), x)
          BY AfterFew, PunctuationTokens, Zenon
        <4>2. Read(Read(in(t), Backslash), x) = in(Append(t, x))
          BY <3>1, EscapeRead
        <4> QED
          BY <3>1, <4>1, <4>2, Zenon
      <3>2. CASE x \notin {Quote, Backslash}
        <4>1. After(in(t), <<x>>) = Read(in(t), x)
          BY AfterFew, Zenon
        <4>2. Read(in(t), x) = in(Append(t, x))
          BY <3>2, StringGrows
        <4> QED
          BY <3>2, <4>1, <4>2, Zenon
      <3> QED
        BY <3>1, <3>2, Zenon
    <2>4. json_append_escaped(Append(t, x)) = json_append_escaped(t) \o e
      BY <2>1, EscapedAppend, Zenon
    <2> HIDE DEF e, in, start
    <2>5. After(start, json_append_escaped(t) \o e) = After(After(start, json_append_escaped(t)), e)
      BY <2>2, AfterConcat, Zenon
    <2>6. Append(t, x) \in Texts
      BY AppendProperties DEF Texts
    <2> QED
      BY <2>1, <2>3, <2>4, <2>5, <2>6
  <1>3. Seq(Tokens) \subseteq Good
    <2> HIDE DEF Good
    <2> QED
      BY <1>1, <1>2, SeqInduction
  <1> QED
    BY <1>3 DEF Texts

LEMMA EscapedRead ==
    ASSUME NEW text \in Texts, NEW want \in StringWanted,
           NEW open, NEW k, NEW p, NEW ms
    PROVE  After(Outside(want, open, k, p, ms), EscapedString(text)) =
               StringRead(Outside(want, open, k, p, ms), text)
PROOF
  <1> DEFINE s == Outside(want, open, k, p, ms)
             a == json_append_escaped(text)
             q == <<Quote>>
  <1>1. a \in Texts /\ q \in Texts /\ q \o a \in Texts
    BY AppendEscapedType, PunctuationTokens, ShortTexts, ConcatType, Zenon
  <1>2. After(s, q) = Begun(want, open, k, p, ms)
    <2>1. After(s, q) = Read(s, Quote)
      BY AfterFew, PunctuationTokens, Zenon
    <2> QED
      BY <2>1, StringStarts
  <1>3. After(Begun(want, open, k, p, ms), a) = InString(text, want, open, k, p, ms)
    BY TextInString, Zenon
  <1>4. After(InString(text, want, open, k, p, ms), q) = StringRead(s, text)
    <2> DEFINE t == InString(text, want, open, k, p, ms)
    <2>1. After(t, q) = Read(t, Quote)
      BY AfterFew, PunctuationTokens, Zenon
    <2> QED
      BY <2>1, StringEnds, Zenon
  <1>5. EscapedString(text) = (q \o a) \o q
    BY Zenon DEF EscapedString
  <1> HIDE DEF s, a, q
  <1>6. After(s, q \o a) = After(After(s, q), a)
    BY <1>1, AfterConcat
  <1>7. After(s, (q \o a) \o q) = After(After(s, q \o a), q)
    BY <1>1, AfterConcat
  <1> QED
    BY <1>2, <1>3, <1>4, <1>5, <1>6, <1>7, Zenon DEF s

\* A text without quotes and backslashes is written as it is.
Plain(text) == \A i \in DOMAIN text : text[i] \notin {Quote, Backslash}

LEMMA PlainEscaped ==
    ASSUME NEW text \in Texts, Plain(text)
    PROVE  EscapedString(text) = <<Quote>> \o text \o <<Quote>>
PROOF
  <1> DEFINE Good == {t \in Texts : Plain(t) => json_append_escaped(t) = t}
  <1>1. <<>> \in Good
    BY EscapedEmpty, EmptySeq DEF Texts
  <1>2. ASSUME NEW t \in Seq(Tokens), t \in Good, NEW x \in Tokens
        PROVE  Append(t, x) \in Good
    <2> DEFINE more == Append(t, x)
    <2>1. /\ more \in Texts /\ t \in Texts /\ more = t \o <<x>>
          /\ DOMAIN more = 1..(Len(t) + 1) /\ DOMAIN t = 1..Len(t) /\ Len(t) \in Nat
          /\ \A i \in DOMAIN t : more[i] = t[i]
          /\ more[Len(t) + 1] = x
      BY AppendProperties, AppendIsConcat DEF Texts
    <2> HIDE DEF more
    <2>2. Plain(more) => Plain(t) /\ x \notin {Quote, Backslash}
      BY <2>1 DEF Plain
    <2>3. json_append_escaped(more) =
              json_append_escaped(t)
              \o (IF x \in {Quote, Backslash} THEN <<Backslash, x>> ELSE <<x>>)
      BY <2>1, EscapedAppend, Zenon DEF more
    <2>4. Plain(more) => json_append_escaped(more) = more
      BY <1>2, <2>1, <2>2, <2>3
    <2> QED
      BY <2>1, <2>4 DEF more
  <1>3. Seq(Tokens) \subseteq Good
    <2> HIDE DEF Good
    <2> QED
      BY <1>1, <1>2, SeqInduction
  <1>4. json_append_escaped(text) = text
    BY <1>3 DEF Texts
  <1> QED
    BY <1>4, Zenon DEF EscapedString

-----------------------------------------------------------------------------
(***************************************************************************)
(* Values: what the reader makes of a string, a number or a list that is   *)
(* the value of a member of the event.                                     *)
(***************************************************************************)
ReadAs(value, parts) ==
    \A k, ms : After(Outside("value", Outermost, k, <<>>, ms), value) =
                   Outside("separator", Outermost, k, parts, ms)

LEMMA AppendToNone == \A x : Append(<<>>, x) = <<x>>
OBVIOUS

LEMMA StringReadAs ==
    ASSUME NEW text \in Texts
    PROVE  ReadAs(EscapedString(text), <<text>>)
PROOF
  <1> SUFFICES ASSUME NEW k, NEW ms
               PROVE  After(Outside("value", Outermost, k, <<>>, ms), EscapedString(text)) =
                          Outside("separator", Outermost, k, <<text>>, ms)
    BY Zenon DEF ReadAs
  <1> DEFINE none == <<>>
             want == "value"
  <1>1. want \in StringWanted /\ want \in ValueWanted
    BY DEF StringWanted, ValueWanted
  <1>2. Append(none, text) = <<text>>
    BY AppendToNone
  <1> HIDE DEF none, want
  <1>3. After(Outside(want, Outermost, k, none, ms), EscapedString(text)) =
            StringRead(Outside(want, Outermost, k, none, ms), text)
    BY <1>1, EscapedRead, Zenon
  <1>4. StringRead(Outside(want, Outermost, k, none, ms), text) =
            Outside("separator", Outermost, k, Append(none, text), ms)
    BY <1>1, StringIsValue
  <1> QED
    BY <1>2, <1>3, <1>4, Zenon DEF none, want

LEMMA PlainSign ==
    ASSUME NEW a \in Tokens, a \notin {Quote, Backslash}
    PROVE  <<a>> \in Texts /\ EscapedString(<<a>>) = <<Quote, a, Quote>>
PROOF
  <1>1. <<a>> \in Texts
    BY ShortTexts
  <1>2. Plain(<<a>>)
    BY DEF Plain
  <1>3. EscapedString(<<a>>) = <<Quote>> \o <<a>> \o <<Quote>>
    BY <1>1, <1>2, PlainEscaped, Zenon
  <1>4. <<Quote>> \o <<a>> \o <<Quote>> = <<Quote, a, Quote>>
    <2> DEFINE q == Quote
    <2>1. q \in Tokens
      BY PunctuationTokens
    <2> HIDE DEF q
    <2>2. <<q>> \in Texts
      BY <2>1, ShortTexts
    <2>3. <<q>> \o <<a>> = Append(<<q>>, a)
      BY <2>1, <2>2, AppendIsConcat DEF Texts
    <2>4. <<q, a>> = Append(<<q>>, a)
      OBVIOUS
    <2>5. <<q, a>> \in Texts
      BY <2>1, ShortTexts
    <2>6. <<q, a>> \o <<q>> = Append(<<q, a>>, q)
      BY <2>1, <2>5, AppendIsConcat DEF Texts
    <2>7. <<q, a, q>> = Append(<<q, a>>, q)
      OBVIOUS
    <2> QED
      BY <2>3, <2>4, <2>6, <2>7, Zenon DEF q
  <1> QED
    BY <1>1, <1>3, <1>4, Zenon

LEMMA NumberReadAs ==
    ASSUME NEW n \in Tokens \cap Numbers
    PROVE  ReadAs(<<n>>, <<<<n>>>>)
PROOF
  <1> SUFFICES ASSUME NEW k, NEW ms
               PROVE  After(Outside("value", Outermost, k, <<>>, ms), <<n>>) =
                          Outside("separator", Outermost, k, <<<<n>>>>, ms)
    BY Zenon DEF ReadAs
  <1> DEFINE none == <<>>
             text == <<n>>
  <1>0. n \in Tokens /\ n \in Numbers
    OBVIOUS
  <1>1. Append(none, text) = <<text>>
    BY AppendToNone
  <1> HIDE DEF none, text
  <1>2. After(Outside("value", Outermost, k, none, ms), <<n>>) =
            Read(Outside("value", Outermost, k, none, ms), n)
    BY <1>0, AfterFew, Zenon
  <1>3. Read(Outside("value", Outermost, k, none, ms), n) =
            Outside("separator", Outermost, k, Append(none, text), ms)
    BY <1>0, NumberRead DEF text
  <1> QED
    BY <1>1, <1>2, <1>3, Zenon DEF none, text

\* The items of a list of strings, and the reader's state when it has read some.
Items(texts) == [i \in DOMAIN texts |-> EscapedString(texts[i])]

Listed(texts, k, ms) ==
    Outside(IF texts = <<>> THEN "value or end" ELSE "separator", InList, k, texts, ms)

LEMMA ItemsType ==
    ASSUME NEW texts \in Seq(Texts)
    PROVE  /\ Items(texts) \in Seq(Texts)
           /\ Items(texts) = <<>> <=> texts = <<>>
PROOF
  <1>1. /\ DOMAIN Items(texts) = DOMAIN texts
        /\ Items(texts) = [i \in DOMAIN texts |-> Items(texts)[i]]
        /\ \A i \in DOMAIN texts : Items(texts)[i] = EscapedString(texts[i])
    BY Zenon DEF Items
  <1>2. \A i \in DOMAIN texts : texts[i] \in Texts
    OBVIOUS
  <1>3. \A i \in DOMAIN texts : Items(texts)[i] \in Texts
    BY <1>1, <1>2, EscapedType, Zenon
  <1> DEFINE items == Items(texts)
  <1>4. items \in Seq(Texts)
    <2>1. DOMAIN items = DOMAIN texts /\ items = [i \in DOMAIN texts |-> items[i]]
          /\ \A i \in DOMAIN texts : items[i] \in Texts
      BY <1>1, <1>3, Zenon
    <2> HIDE DEF items
    <2> QED
      BY <2>1, MappedType
  <1>5. DOMAIN items = DOMAIN texts
    BY <1>1
  <1> HIDE DEF items
  <1>6. items = <<>> <=> texts = <<>>
    BY <1>4, <1>5, EmptyByDomain
  <1> QED
    BY <1>4, <1>6 DEF items

LEMMA ItemsAppend ==
    ASSUME NEW texts \in Seq(Texts), NEW x \in Texts
    PROVE  Items(Append(texts, x)) = Append(Items(texts), EscapedString(x))
PROOF
  <1> DEFINE more == Append(texts, x)
             f    == Items(texts)
             g    == Items(more)
  <1>1. /\ Len(texts) \in Nat /\ DOMAIN texts = 1..Len(texts)
        /\ more \in Seq(Texts) /\ DOMAIN more = 1..(Len(texts) + 1)
        /\ \A i \in DOMAIN texts : more[i] = texts[i]
        /\ more[Len(texts) + 1] = x
    BY AppendProperties
  <1>2. f \in Seq(Texts) /\ DOMAIN f = DOMAIN texts
        /\ \A i \in DOMAIN texts : f[i] = EscapedString(texts[i])
    BY ItemsType, Zenon DEF Items
  <1> HIDE DEF more
  <1>3. g \in Seq(Texts) /\ DOMAIN g = DOMAIN more
        /\ \A i \in DOMAIN more : g[i] = EscapedString(more[i])
    BY <1>1, ItemsType, Zenon DEF Items
  <1>4. EscapedString(x) \in Texts
    BY EscapedType
  <1> HIDE DEF f, g
  <1>5. Len(f) = Len(texts) /\ Len(g) = Len(f) + 1
    BY <1>1, <1>2, <1>3, LenProperties
  <1>6. /\ \A i \in 1..Len(f) : g[i] = f[i]
        /\ g[Len(f) + 1] = EscapedString(x)
    BY <1>1, <1>2, <1>3, <1>5
  <1>7. g = Append(f, EscapedString(x))
    BY <1>2, <1>3, <1>4, <1>5, <1>6, OneMore
  <1> QED
    BY <1>7 DEF f, g, more

LEMMA ItemsRead ==
    ASSUME NEW texts \in Seq(Texts), NEW k, NEW ms
    PROVE  After(Listed(<<>>, k, ms), Separated(Items(texts))) = Listed(texts, k, ms)
PROOF
  <1> DEFINE at(t)   == Listed(t, k, ms)
             start   == at(<<>>)
             sign(t) == IF t = <<>> THEN "value or end" ELSE "separator"
             Good    == {t \in Seq(Texts) : After(start, Separated(Items(t))) = at(t)}
  <1>1. <<>> \in Good
    <2>1. Items(<<>>) = <<>> /\ <<>> \in Seq(Texts)
      BY ItemsType, EmptySeq
    <2>2. After(start, Separated(Items(<<>>))) = at(<<>>)
      BY <2>1, SeparatedEmpty, AfterEmpty, Zenon
    <2> QED
      BY <2>1, <2>2
  <1>2. ASSUME NEW t \in Seq(Texts), t \in Good, NEW x \in Texts
        PROVE  Append(t, x) \in Good
    <2> DEFINE text == EscapedString(x)
               read == Separated(Items(t))
               more == Append(t, x)
    <2>1. After(start, read) = at(t)
      BY <1>2
    <2>2. /\ Items(t) \in Seq(Texts)
          /\ Items(t) = <<>> <=> t = <<>>
          /\ text \in Texts /\ read \in Texts /\ <<",">> \in Texts /\ <<",">> \o text \in Texts
      BY PunctuationTokens, ShortTexts, EscapedType, ItemsType, SeparatedType, ConcatType, Zenon
    <2>3. Separated(Items(more)) = IF t = <<>> THEN text ELSE read \o (<<",">> \o text)
      <3>1. Items(more) = Append(Items(t), text)
        BY ItemsAppend, Zenon
      <3>2. Separated(Append(Items(t), text)) =
                IF Items(t) = <<>> THEN text ELSE Separated(Items(t)) \o (<<",">> \o text)
        <4> DEFINE items == Items(t)
        <4> HIDE DEF text, items, more
        <4>1. items \in Seq(Texts) /\ text \in Texts
          BY <2>2 DEF items
        <4>2. Separated(Append(items, text)) =
                  IF items = <<>> THEN text ELSE Separated(items) \o (<<",">> \o text)
          BY <4>1, SeparatedAppend
        <4> QED
          BY <4>2 DEF items
      <3> HIDE DEF text, more
      <3> QED
        BY <2>2, <3>1, <3>2
    <2>4. more \in Seq(Texts) /\ more # <<>>
      BY AppendProperties, EmptySeq
    <2>5. ASSUME NEW want \in ValueWanted
          PROVE  After(Outside(want, InList, k, t, ms), text) = at(more)
      <3>1. want \in StringWanted
        BY DEF StringWanted
      <3>2. After(Outside(want, InList, k, t, ms), text) =
                StringRead(Outside(want, InList, k, t, ms), x)
        BY <3>1, EscapedRead, Zenon
      <3>3. StringRead(Outside(want, InList, k, t, ms), x) =
                Outside("separator", InList, k, more, ms)
        BY StringIsValue
      <3>4. at(more) = Outside("separator", InList, k, more, ms)
        <4> HIDE DEF more
        <4> QED
          BY <2>4, Zenon DEF Listed
      <3> QED
        BY <3>2, <3>3, <3>4, Zenon
    <2>6. After(start, Separated(Items(more))) = at(more)
      <3>1. CASE t = <<>>
        <4>1. "value or end" \in ValueWanted
          BY DEF ValueWanted
        <4>2. start = Outside("value or end", InList, k, t, ms)
          BY <3>1, Zenon DEF Listed
        <4> HIDE DEF start, at, text, more
        <4> QED
          BY <2>3, <2>5, <3>1, <4>1, <4>2, Zenon
      <3>2. CASE t # <<>>
        <4>1. "value" \in ValueWanted
          BY DEF ValueWanted
        <4>2. at(t) = Outside("separator", InList, k, t, ms)
          BY <3>2, Zenon DEF Listed
        <4>3. Read(Outside("separator", InList, k, t, ms), ",") =
                  Outside("value", InList, k, t, ms)
          BY ListComma, Zenon
        <4>4. After(Outside("separator", InList, k, t, ms), <<",">>) =
                  Outside("value", InList, k, t, ms)
          BY <4>3, AfterFew, PunctuationTokens, Zenon
        <4> HIDE DEF start, at, text, more, read
        <4>5. After(start, read \o (<<",">> \o text)) = After(After(start, read), <<",">> \o text)
          BY <2>2, AfterConcat, Zenon
        <4>6. After(at(t), <<",">> \o text) = After(After(at(t), <<",">>), text)
          BY <2>2, AfterConcat, Zenon
        <4> QED
          BY <2>1, <2>3, <2>5, <3>2, <4>1, <4>2, <4>4, <4>5, <4>6, Zenon
      <3> QED
        BY <3>1, <3>2
    <2> QED
      BY <2>4, <2>6
  <1>3. Seq(Texts) \subseteq Good
    <2> HIDE DEF Good
    <2> QED
      BY <1>1, <1>2, SeqInduction
  <1> QED
    BY <1>3

LEMMA ListReadAs ==
    ASSUME NEW texts \in Seq(Texts)
    PROVE  /\ <<"[">> \o Separated(Items(texts)) \o <<"]">> \in Texts
           /\ ReadAs(<<"[">> \o Separated(Items(texts)) \o <<"]">>, texts)
PROOF
  <1> DEFINE items == Separated(Items(texts))
             open  == <<"[">>
             close == <<"]">>
  <1>1. items \in Texts /\ open \in Texts /\ close \in Texts /\ open \o items \in Texts
    BY PunctuationTokens, ShortTexts, ItemsType, SeparatedType, ConcatType, Zenon
  <1>2. ASSUME NEW k, NEW ms
        PROVE  After(Outside("value", Outermost, k, <<>>, ms), (open \o items) \o close) =
                   Outside("separator", Outermost, k, texts, ms)
    <2> DEFINE s     == Outside("value", Outermost, k, <<>>, ms)
               sign  == IF texts = <<>> THEN "value or end" ELSE "separator"
               start == Listed(<<>>, k, ms)
               end   == Listed(texts, k, ms)
    <2>1. After(s, open) = start
      <3>1. Read(s, "[") = Outside("value or end", <<"array">> \o Outermost, k, <<>>, ms)
        BY OpeningRead, Zenon
      <3>2. start = Outside("value or end", InList, k, <<>>, ms)
        BY Zenon DEF Listed
      <3>3. After(s, open) = Read(s, "[")
        BY AfterFew, PunctuationTokens, Zenon
      <3> QED
        BY <3>1, <3>2, <3>3, Containers, Zenon
    <2>2. After(start, items) = end
      BY ItemsRead, Zenon
    <2>3. After(end, close) = Outside("separator", Outermost, k, texts, ms)
      <3>1. After(end, close) = Read(end, "]")
        BY AfterFew, PunctuationTokens, Zenon
      <3>2. sign \in ListEndKnown /\ end = Outside(sign, InList, k, texts, ms)
        BY Zenon DEF Listed, ListEndKnown
      <3> HIDE DEF sign
      <3>3. Read(Outside(sign, InList, k, texts, ms), "]") =
                Outside("separator", Outermost, k, texts, ms)
        BY <3>2, ListClosed, Zenon
      <3> QED
        BY <3>1, <3>2, <3>3, Zenon
    <2> HIDE DEF s, start, end, open, items, close
    <2>4. After(s, open \o items) = After(After(s, open), items)
      BY <1>1, AfterConcat
    <2>5. After(s, (open \o items) \o close) = After(After(s, open \o items), close)
      BY <1>1, AfterConcat
    <2> QED
      BY <2>1, <2>2, <2>3, <2>4, <2>5, Zenon DEF s
  <1> HIDE DEF open, items, close
  <1>3. (open \o items) \o close \in Texts
    BY <1>1, ConcatType
  <1>4. ReadAs((open \o items) \o close, texts)
    BY <1>2, Zenon DEF ReadAs
  <1> QED
    BY <1>3, <1>4, Zenon DEF open, items, close

-----------------------------------------------------------------------------
(***************************************************************************)
(* Members of the event.  told: those read so far that tell something;     *)
(* Due: a member may follow; Holds: one has just been read.                *)
(***************************************************************************)
Pairs   == Texts \X Seq(Texts)
Telling == {m \in Pairs : m[2] # <<>>}

Due(s, told) ==
    \E k, p : \E want \in KeyWanted, ms \in Seq(Pairs) :
        s = Outside(want, Outermost, k, p, ms) /\ told = Only(ms, Telling)

Holds(s, told) ==
    \E m \in Pairs, ms \in Seq(Pairs) :
        /\ s = Outside("separator", Outermost, m[1], m[2], ms)
        /\ told = Only(Append(ms, m), Telling)

IfTelling(key, values) == IF values = <<>> THEN <<>> ELSE << <<<<key>>, values>> >>

LEMMA ToldType ==
    ASSUME NEW s, NEW told, Due(s, told) \/ Holds(s, told)
    PROVE  told \in Seq(Telling)
PROOF
  <1>1. ASSUME NEW ms \in Seq(Pairs)
        PROVE  Only(ms, Telling) \in Seq(Telling)
    <2> DEFINE only == Only(ms, Telling)
    <2>1. only \in Seq(Pairs) /\ \A i \in DOMAIN only : only[i] \in Telling
      <3> DEFINE T == Telling
      <3> HIDE DEF T
      <3>1. /\ Only(ms, T) \in Seq(Pairs)
            /\ \A i \in DOMAIN Only(ms, T) :
                   \E j \in DOMAIN ms : Only(ms, T)[i] = ms[j] /\ ms[j] \in T
        BY OnlyProperties
      <3> QED
        BY <3>1, Zenon DEF T
    <2> HIDE DEF only
    <2>2. only \in Seq(Telling)
      BY <2>1
    <2> QED
      BY <2>2 DEF only
  <1>2. CASE Due(s, told)
    BY <1>1, <1>2, Zenon DEF Due
  <1>3. CASE Holds(s, told)
    <2>1. PICK m \in Pairs, ms \in Seq(Pairs) :
              /\ s = Outside("separator", Outermost, m[1], m[2], ms)
              /\ told = Only(Append(ms, m), Telling)
      BY <1>3, Zenon DEF Holds
    <2>2. Append(ms, m) \in Seq(Pairs)
      BY AppendProperties
    <2> QED
      BY <1>1, <2>1, <2>2, Zenon
  <1> QED
    BY <1>2, <1>3

LEMMA KeyRead ==
    ASSUME NEW key \in Tokens, key \notin {Quote, Backslash}, NEW want \in KeyWanted,
           NEW k, NEW p, NEW ms
    PROVE  After(Outside(want, Outermost, k, p, ms), <<Quote, key, Quote, ":">>) =
               Outside("value", Outermost, <<key>>, <<>>, ms)
PROOF
  <1> DEFINE s    == Outside(want, Outermost, k, p, ms)
             name == <<Quote, key, Quote>>
             end  == <<":">>
             text == <<key>>
             none == <<>>
  <1>1. name = EscapedString(text) /\ text \in Texts
    BY PlainSign
  <1>2. name \in Texts /\ end \in Texts
    BY PunctuationTokens, ShortTexts, Zenon
  <1>3. <<Quote, key, Quote, ":">> = name \o end
    <2> DEFINE q == Quote
               c == ":"
    <2>1. q \in Tokens /\ c \in Tokens
      BY PunctuationTokens
    <2> HIDE DEF q, c
    <2>2. <<q, key, q>> \in Texts
      BY <2>1, ShortTexts
    <2>3. <<q, key, q>> \o <<c>> = Append(<<q, key, q>>, c)
      BY <2>1, <2>2, AppendIsConcat DEF Texts
    <2>4. <<q, key, q, c>> = Append(<<q, key, q>>, c)
      OBVIOUS
    <2> QED
      BY <2>3, <2>4, Zenon DEF q, c
  <1>4. After(s, name) = Outside("colon", Outermost, text, none, ms)
    <2>1. want \in StringWanted
      BY DEF StringWanted
    <2> HIDE DEF text, name
    <2>2. After(s, EscapedString(text)) = StringRead(s, text)
      BY <1>1, <2>1, EscapedRead, Zenon
    <2>3. StringRead(s, text) = Outside("colon", Outermost, text, none, ms)
      <3> DEFINE open == Outermost
      <3>1. Len(open) = 1
        BY Containers
      <3> HIDE DEF open
      <3>2. StringRead(Outside(want, open, k, p, ms), text) = Outside("colon", open, text, <<>>, ms)
        BY <3>1, StringIsKey
      <3> QED
        BY <3>2 DEF open
    <2> QED
      BY <1>1, <2>2, <2>3, Zenon
  <1>5. After(Outside("colon", Outermost, text, none, ms), end) =
            Outside("value", Outermost, text, none, ms)
    <2> DEFINE c == Outside("colon", Outermost, text, none, ms)
    <2>1. After(c, end) = Read(c, ":")
      BY AfterFew, PunctuationTokens, Zenon
    <2> HIDE DEF none, text
    <2>2. Read(c, ":") = Outside("value", Outermost, text, none, ms)
      BY ColonRead, Zenon
    <2> QED
      BY <2>1, <2>2, Zenon
  <1> HIDE DEF s, name, end, text, none
  <1>6. After(s, name \o end) = After(After(s, name), end)
    BY <1>2, AfterConcat
  <1> QED
    BY <1>3, <1>4, <1>5, <1>6, Zenon DEF s, text, none

LEMMA MemberRead ==
    ASSUME NEW key \in Tokens, key \notin {Quote, Backslash},
           NEW value \in Texts, NEW values \in Seq(Texts), ReadAs(value, values),
           NEW s, NEW told, Due(s, told)
    PROVE  Holds(After(s, Member(key, value)), told \o IfTelling(key, values))
PROOF
  <1>1. PICK k, p : \E want \in KeyWanted, ms \in Seq(Pairs) :
            s = Outside(want, Outermost, k, p, ms) /\ told = Only(ms, Telling)
    BY Zenon DEF Due
  <1>2. PICK want \in KeyWanted, ms \in Seq(Pairs) :
            s = Outside(want, Outermost, k, p, ms) /\ told = Only(ms, Telling)
    BY <1>1
  <1> DEFINE start == <<Quote, key, Quote, ":">>
             name  == <<key>>
             m     == <<name, values>>
  <1>3. start \in Texts /\ name \in Texts
    BY PunctuationTokens, ShortTexts, Zenon
  <1>4. After(s, start) = Outside("value", Outermost, name, <<>>, ms)
    BY <1>2, KeyRead
  <1>5. After(Outside("value", Outermost, name, <<>>, ms), value) =
            Outside("separator", Outermost, name, values, ms)
    BY Zenon DEF ReadAs
  <1>6. After(s, start \o value) = After(After(s, start), value)
    <2> HIDE DEF start
    <2> QED
      BY <1>3, AfterConcat
  <1>7. After(s, Member(key, value)) = Outside("separator", Outermost, name, values, ms)
    BY <1>4, <1>5, <1>6, Zenon DEF Member
  <1> HIDE DEF name, start
  <1>8. m \in Pairs /\ m[1] = name /\ m[2] = values
    BY <1>3 DEF Pairs
  <1>9. m \in Telling <=> values # <<>>
    BY <1>8 DEF Telling
  <1>10. IfTelling(key, values) = IF values = <<>> THEN <<>> ELSE <<m>>
    BY Zenon DEF IfTelling, name
  <1> HIDE DEF m
  <1>11. told \in Seq(Telling) /\ told \in Seq(Pairs)
    <2>1. told \in Seq(Telling) /\ Telling \subseteq Pairs
      BY ToldType, Zenon DEF Telling
    <2> QED
      BY <2>1, SeqMonotonic
  <1>12. Only(Append(ms, m), Telling) = told \o IfTelling(key, values)
    <2>1. Only(Append(ms, m), Telling) =
              IF m \in Telling THEN Append(told, m) ELSE told
      <3>1. Only(Append(ms, m), Telling) =
                IF m \in Telling THEN Append(Only(ms, Telling), m) ELSE Only(ms, Telling)
        BY <1>8, OnlyAppend
      <3> QED
        BY <1>2, <3>1, Zenon
    <2>2. told \o <<m>> = Append(told, m) /\ told \o <<>> = told
      BY <1>8, <1>11, AppendIsConcat, ConcatEmptySeq
    <2> QED
      BY <1>9, <1>10, <2>1, <2>2, Zenon
  <1> QED
    BY <1>7, <1>8, <1>12, Zenon DEF Holds

LEMMA CommaDue ==
    ASSUME NEW s, NEW told, Holds(s, told)
    PROVE  Due(After(s, <<",">>), told)
PROOF
  <1>1. PICK m \in Pairs, ms \in Seq(Pairs) :
            /\ s = Outside("separator", Outermost, m[1], m[2], ms)
            /\ told = Only(Append(ms, m), Telling)
    BY Zenon DEF Holds
  <1> DEFINE open == Outermost
             key  == "key"
             all  == Append(ms, m)
             pair == <<m[1], m[2]>>
  <1>2. open # <<>> /\ Head(open) = "object" /\ Len(open) = 1
    BY Containers
  <1>3. key \in KeyWanted /\ all \in Seq(Pairs) /\ m = pair
    BY AppendProperties DEF KeyWanted, Pairs
  <1>4. After(s, <<",">>) = Read(s, ",")
    BY AfterFew, PunctuationTokens, Zenon
  <1> HIDE DEF open
  <1>5. Read(Outside("separator", open, m[1], m[2], ms), ",") =
            Outside("key", open, m[1], m[2], Append(ms, pair))
    BY <1>2, CommaRead
  <1> HIDE DEF pair
  <1>6. After(s, <<",">>) = Outside(key, Outermost, m[1], m[2], all)
    BY <1>1, <1>3, <1>4, <1>5, Zenon DEF open
  <1> HIDE DEF key
  <1>7. told = Only(all, Telling)
    BY <1>1
  <1> HIDE DEF all
  <1> QED
    BY <1>3, <1>6, <1>7, Zenon DEF Due

LEMMA StartDue == Due(After(Start, <<"{">>), <<>>)
PROOF
  <1> DEFINE none == <<>>
             want == "key or end"
  <1>1. After(Start, <<"{">>) = Read(Start, "{")
    BY AfterFew, PunctuationTokens, Zenon
  <1>2. Start = Outside("object", none, none, none, none)
    BY DEF Start, Outside
  <1>3. none \in Seq(Pairs) /\ want \in KeyWanted
    BY EmptySeq DEF KeyWanted
  <1>4. Only(none, Telling) = none
    BY OnlyEmpty, Zenon
  <1>5. <<"object">> \o none = Outermost
    BY Containers
  <1> HIDE DEF none
  <1>6. Read(Outside("object", none, none, none, none), "{") =
            Outside("key or end", <<"object">> \o none, none, none, none)
    BY OpeningRead, Zenon
  <1>7. After(Start, <<"{">>) = Outside(want, Outermost, none, none, none)
    BY <1>1, <1>2, <1>5, <1>6, Zenon
  <1> HIDE DEF want
  <1>8. Due(After(Start, <<"{">>), none)
    BY <1>3, <1>4, <1>7, Zenon DEF Due
  <1> QED
    BY <1>8 DEF none

LEMMA OnlyOfOne ==
    ASSUME NEW U, NEW t \in Seq(U), Len(t) = 1, NEW S
    PROVE  Len(Only(t, S)) <= 1
PROOF
  <1>1. t # <<>>
    OBVIOUS
  <1>2. PICK u \in Seq(U), x \in U : t = Append(u, x)
    BY <1>1, SequenceEmptyOrAppend
  <1>3. Len(u) = 0
    <2>1. Len(t) = Len(u) + 1 /\ Len(u) \in Nat
      BY <1>2, AppendProperties
    <2> QED
      BY <2>1
  <1>4. u = <<>>
    BY <1>3, EmptySeq
  <1>5. Only(Append(u, x), S) = IF x \in S THEN Append(Only(u, S), x) ELSE Only(u, S)
    BY OnlyAppend
  <1>6. Only(u, S) = u
    BY <1>4, OnlyEmpty, Zenon
  <1> QED
    BY <1>2, <1>3, <1>5, <1>6

\* When the event's object ends, all of it has been read.
LEMMA EndDecoded ==
    ASSUME NEW text \in Texts, NEW told, Holds(After(Start, text), told), Len(told) > 1
    PROVE  /\ Decode(text \o <<"}">>) # Malformed
           /\ Only(Decode(text \o <<"}">>), Telling) = told
PROOF
  <1> DEFINE s == After(Start, text)
  <1>1. PICK m \in Pairs, ms \in Seq(Pairs) :
            /\ s = Outside("separator", Outermost, m[1], m[2], ms)
            /\ told = Only(Append(ms, m), Telling)
    BY Zenon DEF Holds
  <1> DEFINE all  == Append(ms, m)
             pair == <<m[1], m[2]>>
             end  == <<"}">>
             up   == <<>>
  <1>3. all \in Seq(Pairs) /\ m = pair
    BY AppendProperties DEF Pairs
  <1>4. end \in Texts
    BY PunctuationTokens, ShortTexts, Zenon
  <1>5. After(s, end) = Read(s, "}")
    BY AfterFew, PunctuationTokens, Zenon
  <1>6. Read(Outside("separator", Outermost, m[1], m[2], ms), "}") =
            Outside("nothing", up, m[1], m[2], Append(ms, pair))
    BY EventClosed, Zenon
  <1> HIDE DEF pair, end
  <1>7. After(Start, text \o end) = After(s, end)
    BY <1>4, AfterConcat
  <1>8. After(Start, text \o end) = Outside("nothing", up, m[1], m[2], all)
    BY <1>1, <1>3, <1>5, <1>6, <1>7, Zenon
  <1> HIDE DEF up, all
  <1>2. text \o end \in Texts
    BY <1>4, ConcatType
  <1>9. Decode(text \o end) = all
    BY <1>2, <1>8, DecodeAfter DEF Outside
  <1>10. told = Only(all, Telling)
    BY <1>1 DEF all
  <1>11. all # Malformed
    <2>1. ASSUME Len(all) = 1
          PROVE  Len(Only(all, Telling)) <= 1
      BY <1>3, <2>1, OnlyOfOne
    <2>2. Len(Malformed) = 1
      BY DEF Malformed
    <2>3. told \in Seq(Telling)
      BY ToldType
    <2> QED
      BY <1>3, <1>10, <2>1, <2>2, <2>3
  <1> QED
    BY <1>9, <1>10, <1>11 DEF end

-----------------------------------------------------------------------------
(***************************************************************************)
(* The userdb object: a string per configured key the user has a value     *)
(* for.                                                                    *)
(***************************************************************************)
Mapped(f, s) == [i \in DOMAIN s |-> f[s[i]]]

LEMMA MappedSeq ==
    ASSUME NEW U, NEW V, NEW f \in [U -> V], NEW s \in Seq(U)
    PROVE  /\ Mapped(f, s) \in Seq(V)
           /\ Len(Mapped(f, s)) = Len(s)
PROOF
  <1> DEFINE g == Mapped(f, s)
  <1>1. DOMAIN s = 1..Len(s) /\ Len(s) \in Nat /\ \A i \in DOMAIN s : s[i] \in U
    OBVIOUS
  <1>2. g = [i \in 1..Len(s) |-> g[i]] /\ \A i \in 1..Len(s) : g[i] \in V
    BY <1>1 DEF Mapped
  <1> HIDE DEF g
  <1>3. g \in Seq(V)
    BY <1>1, <1>2
  <1>4. Len(g) = Len(s)
    <2>1. DOMAIN g = 1..Len(s)
      BY <1>2
    <2> QED
      BY <1>1, <1>3, <2>1, LenProperties
  <1> QED
    BY <1>3, <1>4 DEF g

LEMMA MappedNone ==
    ASSUME NEW U, NEW V, NEW f \in [U -> V], NEW s \in Seq(U)
    PROVE  /\ Mapped(f, s) \in Seq(V)
           /\ Mapped(f, s) = <<>> <=> s = <<>>
PROOF
  <1> DEFINE g == Mapped(f, s)
  <1>1. g \in Seq(V) /\ DOMAIN g = DOMAIN s
    BY MappedSeq DEF Mapped
  <1> HIDE DEF g
  <1>2. g = <<>> <=> s = <<>>
    BY <1>1, EmptySeq, LenProperties
  <1> QED
    BY <1>1, <1>2 DEF g

LEMMA MappedAppend ==
    ASSUME NEW U, NEW V, NEW f \in [U -> V], NEW s \in Seq(U), NEW x \in U
    PROVE  Mapped(f, Append(s, x)) = Append(Mapped(f, s), f[x])
PROOF
  <1> DEFINE more == Append(s, x)
             a    == Mapped(f, s)
             b    == Mapped(f, more)
  <1>1. /\ Len(s) \in Nat /\ DOMAIN s = 1..Len(s)
        /\ more \in Seq(U) /\ DOMAIN more = 1..(Len(s) + 1) /\ Len(more) = Len(s) + 1
        /\ \A i \in DOMAIN s : more[i] = s[i]
        /\ more[Len(s) + 1] = x
    BY AppendProperties
  <1> HIDE DEF more
  <1>2. a \in Seq(V) /\ Len(a) = Len(s) /\ b \in Seq(V) /\ Len(b) = Len(more) /\ f[x] \in V
    BY <1>1, MappedSeq
  <1>3. /\ \A i \in DOMAIN s : a[i] = f[s[i]]
        /\ \A i \in DOMAIN more : b[i] = f[more[i]]
    BY DEF Mapped
  <1> HIDE DEF a, b
  <1>4. /\ \A i \in 1..Len(a) : b[i] = a[i]
        /\ b[Len(a) + 1] = f[x]
    <2>1. ASSUME NEW i \in 1..Len(a)
          PROVE  b[i] = a[i]
      <3>1. i \in DOMAIN s /\ i \in DOMAIN more
        BY <1>1, <1>2
      <3>2. a[i] = f[s[i]] /\ b[i] = f[more[i]] /\ more[i] = s[i]
        BY <1>1, <1>3, <3>1
      <3> QED
        BY <3>2, Zenon
    <2>2. Len(a) + 1 \in DOMAIN more /\ Len(a) = Len(s)
      BY <1>1, <1>2
    <2>3. b[Len(a) + 1] = f[x]
      BY <1>1, <1>3, <2>2, Zenon
    <2> QED
      BY <2>1, <2>3
  <1>5. b = Append(a, f[x])
    BY <1>1, <1>2, <1>4, OneMore
  <1> QED
    BY <1>5 DEF a, b, more

\* The keys there is a value for, what is written for one and what is read of it.
Valued(env)  == {k \in Texts : k \in DOMAIN env /\ env[k] \in Texts}
EntryOf(env) == [k \in Valued(env) |-> EscapedString(k) \o <<":">> \o EscapedString(env[k])]
ReadOf(env)  == [k \in Valued(env) |-> <<k, env[k]>>]

LEMMA EntryTypes ==
    ASSUME NEW env
    PROVE  EntryOf(env) \in [Valued(env) -> Texts] /\ ReadOf(env) \in [Valued(env) -> Seq(Texts)]
PROOF
  <1>1. ASSUME NEW k \in Valued(env)
        PROVE  EscapedString(k) \o <<":">> \o EscapedString(env[k]) \in Texts
    <2>1. k \in Texts /\ env[k] \in Texts
      BY DEF Valued
    <2>2. /\ EscapedString(k) \in Texts /\ EscapedString(env[k]) \in Texts
          /\ <<":">> \in Texts
      BY <2>1, EscapedType, PunctuationTokens, ShortTexts, Zenon
    <2>3. EscapedString(k) \o <<":">> \in Texts
      BY <2>2, ConcatType, Zenon
    <2> QED
      BY <2>2, <2>3, ConcatType, Zenon
  <1>2. ASSUME NEW k \in Valued(env)
        PROVE  <<k, env[k]>> \in Seq(Texts)
    <2>1. k \in Texts /\ env[k] \in Texts
      BY DEF Valued
    <2> QED
      BY <2>1
  <1> QED
    BY <1>1, <1>2, Zenon DEF EntryOf, ReadOf

LEMMA NothingFound ==
    ASSUME NEW env
    PROVE  Mapped(ReadOf(env), <<>>) = <<>>
PROOF
  <1> DEFINE none == <<>>
             g    == Mapped(ReadOf(env), none)
  <1>1. g = [i \in {} |-> ReadOf(env)[none[i]]]
    BY DEF Mapped
  <1> HIDE DEF g
  <1>2. g = none
    BY <1>1
  <1> QED
    BY <1>2 DEF g

LEMMA EntryRead ==
    ASSUME NEW env, NEW x \in Valued(env), NEW want \in KeyWanted,
           NEW k, NEW p \in Seq(Texts), NEW ms
    PROVE  After(Outside(want, InUserdb, k, p, ms), EntryOf(env)[x]) =
               Outside("separator", InUserdb, k, p \o ReadOf(env)[x], ms)
PROOF
  <1> DEFINE s     == Outside(want, InUserdb, k, p, ms)
             v     == env[x]
             name  == EscapedString(x)
             colon == <<":">>
             value == EscapedString(v)
             q     == Append(p, x)
             all   == Append(q, v)
  <1>1. x \in Texts /\ v \in Texts
    BY DEF Valued
  <1>2. name \in Texts /\ colon \in Texts /\ value \in Texts /\ name \o colon \in Texts
    BY <1>1, EscapedType, PunctuationTokens, ShortTexts, ConcatType, Zenon
  <1>3. EntryOf(env)[x] = (name \o colon) \o value /\ ReadOf(env)[x] = <<x, v>>
    BY Zenon DEF EntryOf, ReadOf
  <1>4. all = p \o <<x, v>>
    <2>1. <<x>> \in Seq(Texts) /\ <<x, v>> = Append(<<x>>, v)
      BY <1>1
    <2>2. p \o Append(<<x>>, v) = Append(p \o <<x>>, v)
      BY <1>1, <2>1, ConcatAppend
    <2>3. p \o <<x>> = Append(p, x)
      BY <1>1, AppendIsConcat
    <2> QED
      BY <2>1, <2>2, <2>3, Zenon
  <1>5. After(s, name) = Outside("colon", InUserdb, k, q, ms)
    <2>1. want \in StringWanted
      BY DEF StringWanted
    <2>2. After(s, name) = StringRead(s, x)
      BY <1>1, <2>1, EscapedRead, Zenon
    <2> DEFINE open == InUserdb
    <2>3. Len(open) # 1
      BY Containers
    <2> HIDE DEF open
    <2>4. StringRead(Outside(want, open, k, p, ms), x) = Outside("colon", open, k, Append(p, x), ms)
      BY <2>3, StringIsKey
    <2> QED
      BY <2>2, <2>4, Zenon DEF open
  <1>6. After(Outside("colon", InUserdb, k, q, ms), colon) = Outside("value", InUserdb, k, q, ms)
    <2> DEFINE c == Outside("colon", InUserdb, k, q, ms)
    <2>1. After(c, colon) = Read(c, ":")
      BY AfterFew, PunctuationTokens, Zenon
    <2>2. Read(c, ":") = Outside("value", InUserdb, k, q, ms)
      BY ColonRead, Zenon
    <2> QED
      BY <2>1, <2>2, Zenon
  <1>7. After(Outside("value", InUserdb, k, q, ms), value) =
            Outside("separator", InUserdb, k, all, ms)
    <2> DEFINE wanted == "value"
    <2>1. wanted \in StringWanted /\ wanted \in ValueWanted
      BY DEF StringWanted, ValueWanted
    <2> HIDE DEF wanted, q, v
    <2>2. After(Outside(wanted, InUserdb, k, q, ms), value) =
              StringRead(Outside(wanted, InUserdb, k, q, ms), v)
      BY <1>1, <2>1, EscapedRead, Zenon
    <2>3. StringRead(Outside(wanted, InUserdb, k, q, ms), v) =
              Outside("separator", InUserdb, k, all, ms)
      BY <2>1, StringIsValue
    <2> QED
      BY <2>2, <2>3, Zenon DEF wanted
  <1> HIDE DEF s, name, colon, value, q, all
  <1>8. After(s, (name \o colon) \o value) = After(After(After(s, name), colon), value)
    BY <1>2, AfterConcat
  <1> QED
    BY <1>3, <1>4, <1>5, <1>6, <1>7, <1>8, Zenon DEF s

\* The reader's state when it has read some of the object.
Found(t, env, k, ms) ==
    Outside(IF t = <<>> THEN "key or end" ELSE "separator",
            InUserdb, k, FlattenSeq(Mapped(ReadOf(env), t)), ms)

LEMMA EntriesRead ==
    ASSUME NEW env, NEW names \in Seq(Valued(env)), NEW k, NEW ms
    PROVE  After(Found(<<>>, env, k, ms), Separated(Mapped(EntryOf(env), names)))
               = Found(names, env, k, ms)
PROOF
  <1> DEFINE U          == Valued(env)
             entry      == EntryOf(env)
             given      == ReadOf(env)
             entries(t) == Mapped(entry, t)
             found(t)   == FlattenSeq(Mapped(given, t))
             at(t)      == Found(t, env, k, ms)
             start      == at(<<>>)
             Good       == {t \in Seq(U) : After(start, Separated(entries(t))) = at(t)}
  <1>0. entry \in [U -> Texts] /\ given \in [U -> Seq(Texts)]
    BY EntryTypes
  <1> HIDE DEF U, entry, given
  <1>1. <<>> \in Good
    <2>1. entries(<<>>) = <<>> /\ <<>> \in Seq(U)
      <3> DEFINE none == <<>>
      <3>1. none \in Seq(U)
        BY EmptySeq
      <3> HIDE DEF none
      <3>2. /\ Mapped(entry, none) \in Seq(Texts)
            /\ Mapped(entry, none) = <<>> <=> none = <<>>
        BY <1>0, <3>1, MappedNone
      <3> QED
        BY <3>1, <3>2 DEF none
    <2>2. After(start, Separated(entries(<<>>))) = at(<<>>)
      BY <2>1, SeparatedEmpty, AfterEmpty, Zenon
    <2> QED
      BY <2>1, <2>2
  <1>2. ASSUME NEW t \in Seq(U), t \in Good, NEW x \in U
        PROVE  Append(t, x) \in Good
    <2> DEFINE text  == entry[x]
               items == entries(t)
               read  == Separated(items)
               more  == Append(t, x)
               p     == found(t)
               q     == found(more)
    <2>1. After(start, read) = at(t)
      BY <1>2
    <2>2. /\ items \in Seq(Texts)
          /\ items = <<>> <=> t = <<>>
          /\ text \in Texts /\ <<",">> \in Texts
      <3>1. items \in Seq(Texts) /\ (items = <<>> <=> t = <<>>)
        BY <1>0, MappedNone
      <3>2. text \in Texts
        BY <1>0
      <3>3. <<",">> \in Texts
        BY PunctuationTokens, ShortTexts, Zenon
      <3> QED
        BY <3>1, <3>2, <3>3
    <2>3. read \in Texts /\ <<",">> \o text \in Texts
      BY <2>2, SeparatedType, ConcatType, Zenon
    <2>4. Separated(entries(more)) = IF t = <<>> THEN text ELSE read \o (<<",">> \o text)
      <3>1. entries(more) = Append(items, text)
        BY <1>0, MappedAppend
      <3> HIDE DEF text, items, more
      <3>2. Separated(Append(items, text)) =
                IF items = <<>> THEN text ELSE Separated(items) \o (<<",">> \o text)
        BY <2>2, SeparatedAppend
      <3> QED
        BY <2>2, <3>1, <3>2, Zenon
    <2>5. more \in Seq(U) /\ more # <<>>
      BY AppendProperties, EmptySeq
    <2>6. p \in Seq(Texts) /\ q = p \o given[x]
      <3> DEFINE parts == Mapped(given, t)
                 one   == given[x]
      <3>1. parts \in Seq(Seq(Texts)) /\ one \in Seq(Texts)
        BY <1>0, MappedSeq
      <3>2. Mapped(given, more) = Append(parts, one)
        BY <1>0, MappedAppend
      <3> HIDE DEF parts, one, more
      <3>3. FlattenSeq(Append(parts, one)) = FlattenSeq(parts) \o one
        BY <3>1, FlattenAppend
      <3>4. FlattenSeq(parts) \in Seq(Texts)
        BY <3>1, FlattenType
      <3> QED
        BY <3>2, <3>3, <3>4, Zenon DEF parts, one
    <2>7. ASSUME NEW want \in KeyWanted
          PROVE  After(Outside(want, InUserdb, k, p, ms), text) = at(more)
      <3>1. at(more) = Outside("separator", InUserdb, k, q, ms)
        <4> HIDE DEF more
        <4> QED
          BY <2>5, Zenon DEF Found, given
      <3> HIDE DEF p, q, at, more
      <3>2. After(Outside(want, InUserdb, k, p, ms), EntryOf(env)[x]) =
                Outside("separator", InUserdb, k, p \o ReadOf(env)[x], ms)
        BY <2>6, EntryRead DEF U
      <3> QED
        BY <2>6, <3>1, <3>2, Zenon DEF entry, given
    <2>8. After(start, Separated(entries(more))) = at(more)
      <3>1. CASE t = <<>>
        <4>1. "key or end" \in KeyWanted
          BY DEF KeyWanted
        <4>2. start = Outside("key or end", InUserdb, k, p, ms)
          BY <3>1, Zenon DEF Found, given
        <4> HIDE DEF start, at, text, more, p, entries
        <4> QED
          BY <2>4, <2>7, <3>1, <4>1, <4>2, Zenon
      <3>2. CASE t # <<>>
        <4>1. "key" \in KeyWanted
          BY DEF KeyWanted
        <4>2. at(t) = Outside("separator", InUserdb, k, p, ms)
          BY <3>2, Zenon DEF Found, given
        <4> HIDE DEF p
        <4>3. Read(Outside("separator", InUserdb, k, p, ms), ",") =
                  Outside("key", InUserdb, k, p, ms)
          BY UserdbComma, Zenon
        <4>4. After(Outside("separator", InUserdb, k, p, ms), <<",">>) =
                  Outside("key", InUserdb, k, p, ms)
          BY <4>3, AfterFew, PunctuationTokens, Zenon
        <4> HIDE DEF start, at, text, more, read, items, entries
        <4>5. After(start, read \o (<<",">> \o text)) = After(After(start, read), <<",">> \o text)
          BY <2>3, AfterConcat, Zenon
        <4>6. After(at(t), <<",">> \o text) = After(After(at(t), <<",">>), text)
          BY <2>2, AfterConcat, Zenon
        <4> QED
          BY <2>1, <2>4, <2>7, <3>2, <4>1, <4>2, <4>4, <4>5, <4>6, Zenon
      <3> QED
        BY <3>1, <3>2
    <2> QED
      BY <2>5, <2>8
  <1>3. Seq(U) \subseteq Good
    <2> HIDE DEF Good
    <2> QED
      BY <1>1, <1>2, SeqInduction
  <1> QED
    BY <1>3 DEF U, entry

LEMMA ObjectReadAs ==
    ASSUME NEW env, NEW names \in Seq(Valued(env)), names # <<>>, NEW text, NEW values,
           text = <<"{">> \o Separated(Mapped(EntryOf(env), names)) \o <<"}">>,
           values = FlattenSeq(Mapped(ReadOf(env), names))
    PROVE  text \in Texts /\ values \in Seq(Texts) /\ ReadAs(text, values)
PROOF
  <1> DEFINE items   == Mapped(EntryOf(env), names)
             entries == Separated(items)
             open    == <<"{">>
             close   == <<"}">>
  <1>1. items \in Seq(Texts) /\ values \in Seq(Texts)
    <2>1. Mapped(EntryOf(env), names) \in Seq(Texts) /\ Mapped(ReadOf(env), names) \in Seq(Seq(Texts))
      BY EntryTypes, MappedSeq
    <2> HIDE DEF items
    <2> QED
      BY <2>1, FlattenType DEF items
  <1>2. entries \in Texts /\ open \in Texts /\ close \in Texts /\ open \o entries \in Texts
        /\ (open \o entries) \o close \in Texts
    BY <1>1, PunctuationTokens, ShortTexts, SeparatedType, ConcatType, Zenon
  <1>3. ASSUME NEW k, NEW ms
        PROVE  After(Outside("value", Outermost, k, <<>>, ms), (open \o entries) \o close) =
                   Outside("separator", Outermost, k, values, ms)
    <2> DEFINE s     == Outside("value", Outermost, k, <<>>, ms)
               start == Found(<<>>, env, k, ms)
               end   == Found(names, env, k, ms)
    <2>1. After(s, open) = start
      <3>1. Read(s, "{") = Outside("key or end", <<"object">> \o Outermost, k, <<>>, ms)
        BY OpeningRead, Zenon
      <3>2. start = Outside("key or end", InUserdb, k, <<>>, ms)
        <4>1. Mapped(ReadOf(env), <<>>) = <<>>
          BY NothingFound
        <4> QED
          BY <4>1, FlattenEmpty, Zenon DEF Found
      <3>3. After(s, open) = Read(s, "{")
        BY AfterFew, PunctuationTokens, Zenon
      <3> QED
        BY <3>1, <3>2, <3>3, Containers, Zenon
    <2>2. After(start, entries) = end
      BY EntriesRead, Zenon
    <2>3. After(end, close) = Outside("separator", Outermost, k, values, ms)
      <3>1. After(end, close) = Read(end, "}")
        BY AfterFew, PunctuationTokens, Zenon
      <3>2. end = Outside("separator", InUserdb, k, values, ms)
        BY Zenon DEF Found
      <3>3. Read(Outside("separator", InUserdb, k, values, ms), "}") =
                Outside("separator", Outermost, k, values, ms)
        BY UserdbClosed, Zenon
      <3> QED
        BY <3>1, <3>2, <3>3, Zenon
    <2> HIDE DEF s, start, end, open, entries, close
    <2>4. After(s, open \o entries) = After(After(s, open), entries)
      BY <1>2, AfterConcat
    <2>5. After(s, (open \o entries) \o close) = After(After(s, open \o entries), close)
      BY <1>2, AfterConcat
    <2> QED
      BY <2>1, <2>2, <2>3, <2>4, <2>5, Zenon DEF s
  <1> HIDE DEF open, entries, close
  <1>4. ReadAs((open \o entries) \o close, values)
    BY <1>3, Zenon DEF ReadAs
  <1> QED
    BY <1>1, <1>2, <1>4, Zenon DEF open, entries, close

LEMMA ConcatTexts ==
    ASSUME NEW a \in Texts, NEW b \in Texts, NEW c \in Texts
    PROVE  (a \o b) \o c = a \o (b \o c)
BY ConcatAssociative DEF Texts

\* What the model's loops write and the invariants expect, for the keys found.
Present(keys, env) == Only(keys, {k \in DOMAIN env : env[k] # NULL})
FoundValues(keys, env) ==
    FlattenSeq([i \in DOMAIN Present(keys, env) |->
                   <<Present(keys, env)[i], env[Present(keys, env)[i]]>>])

LEMMA PresentMapped ==
    ASSUME NEW keys \in Seq(Texts), NEW env, \A k \in DOMAIN env : env[k] \in Optional(Texts)
    PROVE  /\ Present(keys, env) \in Seq(Valued(env))
           /\ Mapped(EntryOf(env), Present(keys, env)) =
                  [i \in DOMAIN Present(keys, env) |->
                      EscapedString(Present(keys, env)[i]) \o <<":">>
                      \o EscapedString(env[Present(keys, env)[i]])]
           /\ FoundValues(keys, env) = FlattenSeq(Mapped(ReadOf(env), Present(keys, env)))
PROOF
  <1> DEFINE U     == Valued(env)
             names == Present(keys, env)
             entry == EntryOf(env)
             found == ReadOf(env)
  <1>1. names \in Seq(U)
    <2> DEFINE known == {k \in DOMAIN env : env[k] # NULL}
    <2>1. \A k \in Texts : k \in known => k \in U
      BY DEF Valued, Optional
    <2> HIDE DEF known, U
    <2>2. /\ Only(keys, known) \in Seq(Texts)
          /\ \A i \in DOMAIN Only(keys, known) :
                 \E j \in DOMAIN keys : Only(keys, known)[i] = keys[j] /\ keys[j] \in known
      BY OnlyProperties
    <2>3. \A j \in DOMAIN keys : keys[j] \in Texts
      OBVIOUS
    <2> DEFINE only == Only(keys, known)
    <2>4. only \in Seq(Texts) /\ \A i \in DOMAIN only : only[i] \in U
      BY <2>1, <2>2, <2>3, Zenon
    <2> HIDE DEF only
    <2>5. only \in Seq(U)
      BY <2>4
    <2> QED
      BY <2>5 DEF only, known, Present
  <1>2. \A i \in DOMAIN names : names[i] \in U
    BY <1>1
  <1>3. /\ Mapped(entry, names) =
               [i \in DOMAIN names |->
                   EscapedString(names[i]) \o <<":">> \o EscapedString(env[names[i]])]
        /\ Mapped(found, names) = [i \in DOMAIN names |-> <<names[i], env[names[i]]>>]
    <2> HIDE DEF names
    <2>1. \A k \in U : /\ entry[k] = EscapedString(k) \o <<":">> \o EscapedString(env[k])
                       /\ found[k] = <<k, env[k]>>
      BY Zenon DEF EntryOf, ReadOf
    <2> HIDE DEF U, entry, found
    <2> QED
      BY <1>2, <2>1, Zenon DEF Mapped
  <1>4. FoundValues(keys, env) = FlattenSeq(Mapped(found, names))
    BY <1>3, Zenon DEF FoundValues
  <1> HIDE DEF U, names, entry, found
  <1> QED
    BY <1>1, <1>3, <1>4, Zenon DEF U, names, entry, found

LEMMA FoundType ==
    ASSUME NEW keys \in Seq(Texts), NEW env, \A k \in DOMAIN env : env[k] \in Optional(Texts)
    PROVE  FoundValues(keys, env) \in Seq(Texts)
PROOF
  <1> DEFINE parts == Mapped(ReadOf(env), Present(keys, env))
  <1>1. parts \in Seq(Seq(Texts))
    BY PresentMapped, EntryTypes, MappedSeq
  <1>2. FoundValues(keys, env) = FlattenSeq(parts)
    BY PresentMapped
  <1> HIDE DEF parts
  <1> QED
    BY <1>1, <1>2, FlattenType

LEMMA UserdbRead ==
    ASSUME NEW keys \in Seq(Texts), NEW env, \A k \in DOMAIN env : env[k] \in Optional(Texts),
           NEW s, NEW told, Due(s, told), NEW json, json = userdb_json(keys, env)
    PROVE  Due(After(s, IF json = NULL THEN <<>> ELSE json),
               told \o IfTelling("userdb", FoundValues(keys, env)))
PROOF
  <1> DEFINE U     == Valued(env)
             names == Present(keys, env)
             entry == EntryOf(env)
             found == ReadOf(env)
             values == FoundValues(keys, env)
  <1>1. names \in Seq(U)
    BY PresentMapped
  <1>2. Mapped(entry, names) =
            [i \in DOMAIN names |->
                EscapedString(names[i]) \o <<":">> \o EscapedString(env[names[i]])]
    BY PresentMapped
  <1>3. values = FlattenSeq(Mapped(found, names))
    BY PresentMapped
  <1> DEFINE obj     == <<"{">> \o Separated(Mapped(entry, names)) \o <<"}">>
             opening == <<Quote, "userdb", Quote, ":", "{">>
             closing == <<"}", ",">>
  <1>4. json = IF names = <<>> THEN NULL
               ELSE opening \o Separated(Mapped(entry, names)) \o closing
    BY <1>2, Zenon DEF userdb_json, Present
  <1>5. CASE names = <<>>
    <2>1. json = NULL
      BY <1>4, <1>5, Zenon
    <2>2. values = <<>>
      <3>1. Mapped(found, names) = <<>>
        BY <1>5, NothingFound
      <3> QED
        BY <1>3, <3>1, FlattenEmpty, Zenon
    <2>3. IfTelling("userdb", values) = <<>>
      BY <2>2, Zenon DEF IfTelling
    <2>4. told \o <<>> = told
      BY ToldType, ConcatEmptySeq
    <2> QED
      BY <2>1, <2>3, <2>4, AfterEmpty, Zenon
  <1>6. CASE names # <<>>
    <2> HIDE DEF names, values, entry, found
    <2> DEFINE items == Separated(Mapped(entry, names))
               key   == "userdb"
               start == <<Quote, key, Quote, ":">>
               open  == <<"{">>
               close == <<"}">>
               comma == <<",">>
    <2>1. obj \in Texts /\ values \in Seq(Texts) /\ ReadAs(obj, values)
      <3> HIDE DEF obj
      <3> QED
        BY <1>1, <1>3, <1>6, ObjectReadAs DEF obj, entry, found
    <2>2. items \in Texts
      <3>1. Mapped(entry, names) \in Seq(Texts)
        BY <1>1, EntryTypes, MappedSeq DEF entry
      <3> QED
        BY <3>1, SeparatedType, Zenon
    <2>3. /\ start \in Texts /\ open \in Texts /\ close \in Texts /\ comma \in Texts
          /\ key \in Tokens /\ key \notin {Quote, Backslash}
      <3>1. key \in Tokens /\ start \in Texts /\ open \in Texts /\ close \in Texts /\ comma \in Texts
        BY KeyTokens, PunctuationTokens, ShortTexts, Zenon
      <3>2. key \notin {Quote, Backslash}
        BY DEF Quote, Backslash
      <3> QED
        BY <3>1, <3>2
    <2>4. opening = start \o open /\ closing = close \o comma
      <3> DEFINE q == Quote
                 c == ":"
                 b == "{"
                 e == "}"
                 m == ","
      <3>1. q \in Tokens /\ c \in Tokens /\ b \in Tokens /\ e \in Tokens /\ m \in Tokens
            /\ key \in Tokens
        BY <2>3, PunctuationTokens
      <3> HIDE DEF q, c, b, e, m, key
      <3>2. <<q, key, q, c>> \in Texts /\ <<e>> \in Texts
        BY <3>1, ShortTexts
      <3>3. <<q, key, q, c>> \o <<b>> = Append(<<q, key, q, c>>, b) /\ <<e>> \o <<m>> = Append(<<e>>, m)
        BY <3>1, <3>2, AppendIsConcat DEF Texts
      <3>4. <<q, key, q, c, b>> = Append(<<q, key, q, c>>, b) /\ <<e, m>> = Append(<<e>>, m)
        OBVIOUS
      <3> QED
        BY <3>3, <3>4, Zenon DEF q, c, b, e, m, key
    <2>5. json = Member(key, obj) \o comma
      <3>1. json = (opening \o items) \o closing /\ Member(key, obj) = start \o ((open \o items) \o close)
        BY <1>4, <1>6, Zenon DEF Member
      <3> HIDE DEF items, start, open, close, comma, opening, closing, obj, key
      <3>2. (((start \o open) \o items) \o (close \o comma)) =
                (start \o ((open \o items) \o close)) \o comma
        <4>1. start \o open \in Texts /\ open \o items \in Texts
              /\ (open \o items) \o close \in Texts /\ (start \o open) \o items \in Texts
          BY <2>2, <2>3, ConcatType
        <4>2. (start \o open) \o items = start \o (open \o items)
          BY <2>2, <2>3, ConcatTexts, Zenon
        <4>3. ((start \o open) \o items) \o (close \o comma) =
                  (((start \o open) \o items) \o close) \o comma
          <5> DEFINE w == (start \o open) \o items
          <5>1. w \in Texts
            BY <4>1
          <5> HIDE DEF w
          <5>2. (w \o close) \o comma = w \o (close \o comma)
            BY <2>3, <5>1, ConcatTexts
          <5> QED
            BY <5>2 DEF w
        <4>4. (start \o (open \o items)) \o close = start \o ((open \o items) \o close)
          <5> DEFINE w == open \o items
          <5>1. w \in Texts
            BY <4>1
          <5> HIDE DEF w
          <5>2. (start \o w) \o close = start \o (w \o close)
            BY <2>3, <5>1, ConcatTexts
          <5> QED
            BY <5>2 DEF w
        <4> QED
          BY <4>2, <4>3, <4>4, Zenon
      <3> QED
        BY <2>4, <3>1, <3>2, Zenon
    <2>6. Member(key, obj) \in Texts
      BY <2>1, <2>3, MemberType, Zenon
    <2> DEFINE member == Member(key, obj)
               more   == told \o IfTelling(key, values)
    <2>7. Holds(After(s, member), more)
      <3> HIDE DEF obj, key
      <3> QED
        BY <2>1, <2>3, MemberRead
    <2> HIDE DEF member, more, comma, obj, key
    <2>8. Due(After(After(s, member), comma), more)
      BY <2>7, CommaDue, Zenon DEF comma
    <2>9. After(s, member \o comma) = After(After(s, member), comma)
      BY <2>3, <2>6, AfterConcat DEF member
    <2>10. json # NULL
      <3>1. json \in Texts
        BY <2>3, <2>5, <2>6, ConcatType, Zenon
      <3> QED
        BY <3>1, TextAssumption
    <2> QED
      BY <2>5, <2>8, <2>9, <2>10, Zenon DEF member, more, key, values
  <1> QED
    BY <1>5, <1>6

-----------------------------------------------------------------------------
(***************************************************************************)
(* The texts an event is put together from.  Awaiting: a text after which  *)
(* a member may follow; Telling so far: one that ends with a member; Adds: *)
(* a text that adds members to the latter.                                 *)
(***************************************************************************)
Awaiting(text, told) == text \in Texts /\ Due(After(Start, text), told)
Tells(text, told)    == text \in Texts /\ Holds(After(Start, text), told)

Adds(text, more) ==
    /\ text \in Texts /\ more \in Seq(Telling)
    /\ \A s, told : Holds(s, told) => Holds(After(s, text), told \o more)

LEMMA TellingConcat ==
    ASSUME NEW a \in Seq(Telling), NEW b \in Seq(Telling), NEW c \in Seq(Telling)
    PROVE  a \o b \in Seq(Telling) /\ (a \o b) \o c = a \o (b \o c) /\ a \o <<>> = a
BY ConcatProperties, ConcatAssociative, ConcatEmptySeq

LEMMA IfTellingType ==
    ASSUME NEW key \in Tokens, NEW values \in Seq(Texts)
    PROVE  IfTelling(key, values) \in Seq(Telling)
PROOF
  <1> DEFINE name == <<key>>
             m    == <<name, values>>
  <1>1. name \in Texts
    BY PunctuationTokens, ShortTexts, Zenon
  <1> HIDE DEF name
  <1>2. values # <<>> => m \in Telling
    BY <1>1 DEF Telling, Pairs
  <1>3. IfTelling(key, values) = IF values = <<>> THEN <<>> ELSE <<m>>
    BY Zenon DEF IfTelling, name
  <1> HIDE DEF m
  <1> QED
    BY <1>2, <1>3

LEMMA AddsNothing == Adds(<<>>, <<>>)
PROOF
  <1> DEFINE none == <<>>
  <1>1. none \in Texts /\ none \in Seq(Telling)
    BY DEF Texts
  <1>2. ASSUME NEW s, NEW told, Holds(s, told)
        PROVE  Holds(After(s, none), told \o none)
    <2>1. After(s, none) = s
      BY AfterEmpty, Zenon
    <2>2. told \o none = told
      BY <1>2, ToldType, ConcatEmptySeq
    <2> QED
      BY <1>2, <2>1, <2>2, Zenon
  <1> QED
    BY <1>1, <1>2, Zenon DEF Adds

LEMMA AddsMember ==
    ASSUME NEW key \in Tokens, key \notin {Quote, Backslash},
           NEW value \in Texts, NEW values \in Seq(Texts), ReadAs(value, values)
    PROVE  Adds(<<",">> \o Member(key, value), IfTelling(key, values))
PROOF
  <1> DEFINE comma == <<",">>
             m     == Member(key, value)
             more  == IfTelling(key, values)
  <1>1. comma \in Texts /\ m \in Texts /\ comma \o m \in Texts
    BY PunctuationTokens, ShortTexts, MemberType, ConcatType, Zenon
  <1>2. more \in Seq(Telling)
    BY IfTellingType
  <1>3. ASSUME NEW s, NEW told, Holds(s, told)
        PROVE  Holds(After(s, comma \o m), told \o more)
    <2> DEFINE u == After(s, comma)
    <2>1. Due(u, told)
      BY <1>3, CommaDue
    <2> HIDE DEF u
    <2>2. Holds(After(u, m), told \o more)
      BY <2>1, MemberRead
    <2> HIDE DEF comma, m
    <2>3. After(s, comma \o m) = After(After(s, comma), m)
      BY <1>1, AfterConcat
    <2> QED
      BY <2>2, <2>3, Zenon DEF u
  <1> QED
    BY <1>1, <1>2, <1>3, Zenon DEF Adds

LEMMA AddsBoth ==
    ASSUME NEW a, NEW p, NEW b, NEW q, Adds(a, p), Adds(b, q)
    PROVE  Adds(a \o b, p \o q)
PROOF
  <1>1. a \in Texts /\ b \in Texts /\ p \in Seq(Telling) /\ q \in Seq(Telling)
    BY Zenon DEF Adds
  <1>2. a \o b \in Texts
    BY <1>1, ConcatType, Zenon
  <1>3. p \o q \in Seq(Telling)
    BY <1>1, ConcatProperties
  <1>4. ASSUME NEW s, NEW told, Holds(s, told)
        PROVE  Holds(After(s, a \o b), told \o (p \o q))
    <2>1. Holds(After(s, a), told \o p)
      BY <1>4, Zenon DEF Adds
    <2>2. Holds(After(After(s, a), b), (told \o p) \o q)
      BY <2>1, Zenon DEF Adds
    <2>3. After(s, a \o b) = After(After(s, a), b)
      BY <1>1, AfterConcat
    <2>4. told \in Seq(Telling)
      BY <1>4, ToldType
    <2>5. (told \o p) \o q = told \o (p \o q)
      BY <1>1, <2>4, TellingConcat
    <2> QED
      BY <2>2, <2>3, <2>5, Zenon
  <1> QED
    BY <1>2, <1>3, <1>4, Zenon DEF Adds

LEMMA TellsMore ==
    ASSUME NEW text, NEW told, NEW b, NEW q, Tells(text, told), Adds(b, q)
    PROVE  Tells(text \o b, told \o q)
PROOF
  <1>1. text \in Texts /\ b \in Texts
    BY Zenon DEF Adds, Tells
  <1>2. text \o b \in Texts
    BY <1>1, ConcatType, Zenon
  <1>3. Holds(After(After(Start, text), b), told \o q)
    BY Zenon DEF Adds, Tells
  <1>4. After(Start, text \o b) = After(After(Start, text), b)
    BY <1>1, AfterConcat
  <1> QED
    BY <1>2, <1>3, <1>4, Zenon DEF Tells

LEMMA TellsMember ==
    ASSUME NEW key \in Tokens, key \notin {Quote, Backslash},
           NEW value \in Texts, NEW values \in Seq(Texts), ReadAs(value, values),
           NEW text, NEW told, Awaiting(text, told)
    PROVE  Tells(text \o Member(key, value), told \o IfTelling(key, values))
PROOF
  <1> DEFINE m == Member(key, value)
             s == After(Start, text)
  <1>1. text \in Texts /\ m \in Texts /\ Due(s, told)
    BY MemberType, Zenon DEF Awaiting
  <1>2. text \o m \in Texts
    BY <1>1, ConcatType, Zenon
  <1>3. After(Start, text \o m) = After(s, m)
    BY <1>1, AfterConcat
  <1> HIDE DEF s
  <1>4. Holds(After(s, m), told \o IfTelling(key, values))
    BY <1>1, MemberRead
  <1> QED
    BY <1>2, <1>3, <1>4, Zenon DEF Tells

LEMMA AwaitingMore ==
    ASSUME NEW text, NEW told, Tells(text, told)
    PROVE  Awaiting(text \o <<",">>, told)
PROOF
  <1> DEFINE comma == <<",">>
  <1>1. text \in Texts /\ comma \in Texts
    BY PunctuationTokens, ShortTexts, Zenon DEF Tells
  <1>2. text \o comma \in Texts
    BY <1>1, ConcatType, Zenon
  <1>3. Due(After(After(Start, text), comma), told)
    BY CommaDue, Zenon DEF Tells
  <1> HIDE DEF comma
  <1>4. After(Start, text \o comma) = After(After(Start, text), comma)
    BY <1>1, AfterConcat
  <1> QED
    BY <1>2, <1>3, <1>4, Zenon DEF Awaiting, comma

-----------------------------------------------------------------------------
(***************************************************************************)
(* What each member of an event adds.                                      *)
(***************************************************************************)
IfPresent(key, value) == IF value = NULL THEN <<>> ELSE << <<<<key>>, <<value>>>> >>

LEMMA PresentIsTelling ==
    ASSUME NEW key, NEW value, value # NULL
    PROVE  IfPresent(key, value) = IfTelling(key, <<value>>)
PROOF
  <1>1. <<value>> # <<>>
    OBVIOUS
  <1> QED
    BY <1>1, Zenon DEF IfPresent, IfTelling

LEMMA OptionalAdds ==
    ASSUME NEW key \in Tokens, key \notin {Quote, Backslash}, NEW text \in Optional(Texts)
    PROVE  Adds(OptionalMember(key, text), IfPresent(key, text))
PROOF
  <1>1. CASE text = NULL
    BY <1>1, AddsNothing, Zenon DEF OptionalMember, IfPresent
  <1>2. CASE text \in Texts
    <2> DEFINE value  == EscapedString(text)
               values == <<text>>
    <2>1. value \in Texts /\ values \in Seq(Texts) /\ ReadAs(value, values)
      BY <1>2, EscapedType, StringReadAs
    <2>2. text # NULL
      BY <1>2, TextAssumption
    <2>3. OptionalMember(key, text) = <<",">> \o Member(key, value)
      BY <2>2, Zenon DEF OptionalMember
    <2>4. IfPresent(key, text) = IfTelling(key, values)
      BY <2>2, PresentIsTelling
    <2> HIDE DEF value, values
    <2>5. Adds(<<",">> \o Member(key, value), IfTelling(key, values))
      BY <2>1, AddsMember
    <2> QED
      BY <2>3, <2>4, <2>5, Zenon
  <1> QED
    BY <1>1, <1>2 DEF Optional

LEMMA ListAdds ==
    ASSUME NEW key \in Tokens, key \notin {Quote, Backslash}, NEW texts \in Seq(Texts)
    PROVE  Adds(<<",">> \o Member(key, <<"[">> \o Separated(Items(texts)) \o <<"]">>),
                IfTelling(key, texts))
PROOF
  <1> DEFINE value == <<"[">> \o Separated(Items(texts)) \o <<"]">>
  <1>1. value \in Texts /\ ReadAs(value, texts)
    BY ListReadAs, Zenon
  <1> HIDE DEF value
  <1>2. Adds(<<",">> \o Member(key, value), IfTelling(key, texts))
    BY <1>1, AddsMember
  <1> QED
    BY <1>2 DEF value

LEMMA KeywordsAdds ==
    ASSUME NEW ctx, NEW key \in Tokens, key \notin {Quote, Backslash},
           NEW keywords \in Seq(Texts)
    PROVE  Adds(KeywordsMember(ctx, key, keywords), IfTelling(key, Visible(ctx, keywords)))
PROOF
  <1> DEFINE visible == Visible(ctx, keywords)
  <1>1. visible \in Seq(Texts)
    BY VisibleType
  <1>2. CASE keywords = <<>>
    <2>1. visible = <<>>
      BY <1>2, OnlyEmpty, Zenon DEF Visible
    <2>2. KeywordsMember(ctx, key, keywords) = <<>>
      BY <1>2, Zenon DEF KeywordsMember
    <2>3. IfTelling(key, visible) = <<>>
      BY <2>1, Zenon DEF IfTelling
    <2> QED
      BY <2>2, <2>3, AddsNothing, Zenon
  <1>3. CASE keywords # <<>>
    <2>1. KeywordsMember(ctx, key, keywords) =
              <<",">> \o Member(key, <<"[">> \o Separated(Items(visible)) \o <<"]">>)
      BY <1>3, Zenon DEF KeywordsMember, Items
    <2> HIDE DEF visible
    <2>2. Adds(<<",">> \o Member(key, <<"[">> \o Separated(Items(visible)) \o <<"]">>),
               IfTelling(key, visible))
      BY <1>1, ListAdds
    <2> QED
      BY <2>1, <2>2, Zenon DEF visible
  <1> QED
    BY <1>2, <1>3

\* The flags as they are written: with a backslash, in the order of the mail API.
FlagNames(flags) ==
    [i \in DOMAIN Only(FlagOrder, flags) |-> <<Backslash, Only(FlagOrder, flags)[i]>>]

\* The backslash of a flag is written escaped.
LEMMA FlagEscaped ==
    ASSUME NEW flag \in Tokens, flag \notin {Quote, Backslash}
    PROVE  /\ <<Backslash, flag>> \in Texts
           /\ EscapedString(<<Backslash, flag>>) = <<Quote, Backslash, Backslash, flag, Quote>>
PROOF
  <1> DEFINE q    == Quote
             b    == Backslash
             one  == <<b>>
             none == <<>>
  <1>1. q \in Tokens /\ b \in Tokens /\ b \in {Quote, Backslash}
    BY PunctuationTokens
  <1> HIDE DEF q, b
  <1>2. none \in Texts /\ one \in Texts /\ <<b, flag>> \in Texts /\ <<b, b>> \in Texts
        /\ <<b, b, flag>> \in Texts /\ <<q>> \in Texts /\ <<flag>> \in Texts
    BY <1>1, ShortTexts
  <1>3. one = Append(none, b) /\ <<b, flag>> = Append(one, flag)
    OBVIOUS
  <1>4. json_append_escaped(one) = <<b, b>>
    <2> HIDE DEF none
    <2>1. json_append_escaped(Append(none, b)) =
              json_append_escaped(none)
              \o (IF b \in {Quote, Backslash} THEN <<Backslash, b>> ELSE <<b>>)
      BY <1>1, <1>2, EscapedAppend
    <2>2. json_append_escaped(none) = none
      BY EscapedEmpty DEF none
    <2>3. none \o <<b, b>> = <<b, b>>
      BY <1>2, ConcatEmptySeq DEF Texts, none
    <2> QED
      BY <1>1, <1>3, <2>1, <2>2, <2>3 DEF b
  <1> HIDE DEF none
  <1>5. json_append_escaped(<<b, flag>>) = <<b, b, flag>>
    <2> HIDE DEF one
    <2>1. json_append_escaped(Append(one, flag)) =
              json_append_escaped(one)
              \o (IF flag \in {Quote, Backslash} THEN <<Backslash, flag>> ELSE <<flag>>)
      BY <1>2, EscapedAppend
    <2>2. <<b, b>> \o <<flag>> = Append(<<b, b>>, flag)
      BY <1>2, AppendIsConcat DEF Texts
    <2>3. <<b, b, flag>> = Append(<<b, b>>, flag)
      OBVIOUS
    <2> QED
      BY <1>3, <1>4, <2>1, <2>2, <2>3, Zenon
  <1>6. <<q>> \o <<b, b, flag>> \o <<q>> = <<q, b, b, flag, q>>
    <2>1. <<q>> \o <<b, b, flag>> = <<q, b, b, flag>>
      <3> DEFINE start == <<q>>
                 two   == <<b, b>>
      <3>1. two = Append(one, b) /\ <<b, b, flag>> = Append(two, flag)
        OBVIOUS
      <3>2. <<q, b>> = Append(start, b) /\ <<q, b, b>> = Append(<<q, b>>, b)
            /\ <<q, b, b, flag>> = Append(<<q, b, b>>, flag)
        OBVIOUS
      <3>3. start \in Seq(Tokens) /\ one \in Seq(Tokens) /\ two \in Seq(Tokens)
        BY <1>2 DEF Texts
      <3>4. start \o one = Append(start, b)
        BY <1>1, <3>3, AppendIsConcat
      <3> HIDE DEF start, one, two
      <3>5. start \o Append(one, b) = Append(start \o one, b)
        BY <1>1, <3>3, ConcatAppend
      <3>6. start \o Append(two, flag) = Append(start \o two, flag)
        BY <3>3, ConcatAppend
      <3> QED
        BY <3>1, <3>2, <3>4, <3>5, <3>6, Zenon DEF start
    <2>2. <<q, b, b, flag>> \o <<q>> = Append(<<q, b, b, flag>>, q)
      <3>1. <<q, b, b, flag>> \in Texts
        BY <1>1, ShortTexts
      <3> QED
        BY <1>1, <3>1, AppendIsConcat DEF Texts
    <2>3. <<q, b, b, flag, q>> = Append(<<q, b, b, flag>>, q)
      OBVIOUS
    <2> QED
      BY <2>1, <2>2, <2>3, Zenon
  <1>7. EscapedString(<<b, flag>>) = <<q>> \o json_append_escaped(<<b, flag>>) \o <<q>>
    BY Zenon DEF EscapedString, q
  <1> QED
    BY <1>2, <1>5, <1>6, <1>7, Zenon DEF q, b

LEMMA FlagsAdds ==
    ASSUME NEW key \in Tokens, key \notin {Quote, Backslash}, NEW flags
    PROVE  Adds(FlagsMember(key, flags), IfTelling(key, FlagNames(flags)))
PROOF
  <1> DEFINE set   == Only(FlagOrder, flags)
             texts == FlagNames(flags)
             signs == Tokens \ {Quote, Backslash}
  <1>1. set \in Seq(signs)
    <2>1. FlagOrder \in Seq(Range(FlagOrder))
      BY DEF FlagOrder, Range
    <2>2. Range(FlagOrder) \subseteq signs
      <3>1. Range(FlagOrder) \subseteq Tokens
        BY TextAssumption
      <3>2. \A flag \in Range(FlagOrder) : flag \notin {Quote, Backslash}
        <4>1. FlagOrder[1] = "Answered" /\ FlagOrder[2] = "Flagged" /\ FlagOrder[3] = "Deleted"
              /\ FlagOrder[4] = "Seen" /\ FlagOrder[5] = "Draft" /\ DOMAIN FlagOrder = 1..5
          BY DEF FlagOrder
        <4>2. \A i \in 1..5 : i = 1 \/ i = 2 \/ i = 3 \/ i = 4 \/ i = 5
          OBVIOUS
        <4>3. \A i \in 1..5 : FlagOrder[i] # "\"" /\ FlagOrder[i] # "\\"
          BY <4>1, <4>2
        <4> QED
          BY <4>1, <4>3 DEF Range, Quote, Backslash
      <3> QED
        BY <3>1, <3>2
    <2> HIDE DEF signs
    <2>3. FlagOrder \in Seq(signs)
      BY <2>1, <2>2, SeqMonotonic
    <2> QED
      BY <2>3, OnlyProperties
  <1>2. texts = [i \in DOMAIN set |-> <<Backslash, set[i]>>]
    BY Zenon DEF FlagNames
  <1>3. \A i \in DOMAIN set : set[i] \in Tokens /\ set[i] \notin {Quote, Backslash}
    <2> HIDE DEF set
    <2> QED
      BY <1>1
  <1>4. write_flags(flags) =
            Separated([i \in DOMAIN set |-> <<Quote, Backslash, Backslash, set[i], Quote>>])
    BY Zenon DEF write_flags
  <1> HIDE DEF set
  <1>5. DOMAIN texts = DOMAIN set /\ \A i \in DOMAIN set : texts[i] = <<Backslash, set[i]>>
    BY <1>2
  <1>6. texts \in Seq(Texts)
    <2>1. /\ DOMAIN texts = DOMAIN set /\ texts = [i \in DOMAIN set |-> texts[i]]
          /\ \A i \in DOMAIN set : texts[i] \in Texts
      BY <1>2, <1>3, <1>5, FlagEscaped, Zenon
    <2> HIDE DEF texts, signs
    <2> QED
      BY <1>1, <2>1, MappedType
  <1>7. Items(texts) = [i \in DOMAIN set |-> <<Quote, Backslash, Backslash, set[i], Quote>>]
    <2> HIDE DEF texts
    <2>1. \A i \in DOMAIN set :
              EscapedString(texts[i]) = <<Quote, Backslash, Backslash, set[i], Quote>>
      BY <1>3, <1>5, FlagEscaped, Zenon
    <2> QED
      BY <1>5, <2>1, Zenon DEF Items
  <1> HIDE DEF texts
  <1>8. write_flags(flags) = Separated(Items(texts))
    BY <1>4, <1>7, Zenon
  <1>9. CASE flags = {}
    <2>1. set = <<>>
      BY <1>9, NothingSelected, Zenon DEF set
    <2>2. texts = <<>>
      <3>1. DOMAIN set = {}
        BY <2>1
      <3> QED
        BY <1>5, <1>6, <3>1, EmptyByDomain
    <2>3. FlagsMember(key, flags) = <<>> /\ IfTelling(key, texts) = <<>>
      BY <1>9, <2>2, Zenon DEF FlagsMember, IfTelling
    <2> QED
      BY <2>3, AddsNothing, Zenon DEF texts
  <1>10. CASE flags # {}
    <2>1. FlagsMember(key, flags) =
              <<",">> \o Member(key, <<"[">> \o Separated(Items(texts)) \o <<"]">>)
      BY <1>8, <1>10, Zenon DEF FlagsMember
    <2>2. Adds(<<",">> \o Member(key, <<"[">> \o Separated(Items(texts)) \o <<"]">>),
               IfTelling(key, texts))
      BY <1>6, ListAdds
    <2> QED
      BY <2>1, <2>2, Zenon DEF texts
  <1> QED
    BY <1>9, <1>10

LEMMA KeySigns ==
    \A key \in Keys : key \in Tokens /\ key \notin {Quote, Backslash}
PROOF
  <1>1. Keys \subseteq Tokens
    BY TextAssumption
  <1>2. \A key \in Keys : key \notin {Quote, Backslash}
    BY DEF Keys, Quote, Backslash
  <1> QED
    BY <1>1, <1>2

LEMMA KeyNames ==
    /\ "user" \in Keys /\ "userdb" \in Keys /\ "mailbox" \in Keys /\ "event" \in Keys
    /\ "uidvalidity" \in Keys /\ "uid" \in Keys
    /\ "flags" \in Keys /\ "oldFlags" \in Keys
    /\ "keywords" \in Keys /\ "oldKeywords" \in Keys
    /\ "date" \in Keys /\ "from" \in Keys /\ "snippet" \in Keys
    /\ "subject" \in Keys /\ "to" \in Keys
BY DEF Keys

\* The instant as a clock in UTC, and the zone it was written in.
DateShown(date) == IF date = NULL THEN NULL ELSE <<Clock[date.time]>> \o Zone[date.tz]

LEMMA DateAdds ==
    ASSUME NEW date \in Optional([time : DOMAIN Clock, tz : DOMAIN Zone])
    PROVE  Adds(DateMember(date), IfPresent("date", DateShown(date)))
PROOF
  <1>1. CASE date = NULL
    <2>1. DateShown(date) = NULL
      BY <1>1, Zenon DEF DateShown
    <2>2. DateMember(date) = <<>> /\ IfPresent("date", DateShown(date)) = <<>>
      BY <1>1, <2>1, Zenon DEF DateMember, IfPresent
    <2> QED
      BY <2>2, AddsNothing, Zenon
  <1>2. CASE date # NULL
    <2> DEFINE tm     == Clock[date.time]
               offset == Zone[date.tz]
               text   == <<tm>> \o offset
               values == <<text>>
               key    == "date"
    <2>1. date.time \in DOMAIN Clock /\ date.tz \in DOMAIN Zone
      BY <1>2 DEF Optional
    <2>2. tm \in Tokens /\ tm \notin {Quote, Backslash} /\ offset \in Texts
          /\ Range(offset) \cap {Quote, Backslash} = {}
      BY <2>1, TextAssumption DEF Texts
    <2>3. DateMember(date) = <<",">> \o Member(key, <<Quote>> \o text \o <<Quote>>)
      BY <1>2, Zenon DEF DateMember, iso8601_date_create_tm, BrokenDown
    <2>4. DateShown(date) = text
      BY <1>2, Zenon DEF DateShown
    <2>5. key \in Tokens /\ key \notin {Quote, Backslash}
      BY KeyNames, KeySigns, Zenon
    <2> HIDE DEF tm, offset, key
    <2>6. text \in Texts /\ Plain(text)
      <3> DEFINE one == <<tm>>
      <3>1. one \in Texts /\ Len(one) = 1 /\ one[1] = tm
        BY <2>2, ShortTexts
      <3>2. \A i \in DOMAIN offset : offset[i] \notin {Quote, Backslash}
        BY <2>2 DEF Range
      <3> HIDE DEF one
      <3>3. /\ one \o offset \in Texts
            /\ \A i \in DOMAIN (one \o offset) :
                   (one \o offset)[i] = IF i <= Len(one) THEN one[i] ELSE offset[i - Len(one)]
            /\ DOMAIN (one \o offset) = 1..(Len(one) + Len(offset))
        <4>1. one \o offset \in Texts
          BY <2>2, <3>1, ConcatType
        <4>2. /\ Len(one \o offset) = Len(one) + Len(offset)
              /\ \A i \in 1..(Len(one) + Len(offset)) :
                     (one \o offset)[i] = IF i <= Len(one) THEN one[i] ELSE offset[i - Len(one)]
          BY <2>2, <3>1, ConcatProperties DEF Texts
        <4>3. DOMAIN (one \o offset) = 1..Len(one \o offset)
          BY <4>1, LenProperties DEF Texts
        <4> QED
          BY <4>1, <4>2, <4>3
      <3>4. DOMAIN offset = 1..Len(offset) /\ Len(offset) \in Nat
        BY <2>2 DEF Texts
      <3> DEFINE both == one \o offset
      <3>5. both \in Texts /\ \A i \in DOMAIN both : both[i] \notin {Quote, Backslash}
        <4> HIDE DEF both
        <4>1. ASSUME NEW i \in DOMAIN both
              PROVE  both[i] \notin {Quote, Backslash}
          <5>1. i \in 1..(1 + Len(offset))
            BY <3>1, <3>3 DEF both
          <5>2. CASE i = 1
            <6>1. both[i] = tm
              BY <3>1, <3>3, <5>2 DEF both
            <6> QED
              BY <2>2, <6>1
          <5>3. CASE i # 1
            <6>1. i - 1 \in DOMAIN offset
              BY <3>4, <5>1, <5>3
            <6>2. both[i] = offset[i - 1]
              BY <3>1, <3>3, <5>1, <5>3 DEF both
            <6> QED
              BY <3>2, <6>1, <6>2
          <5> QED
            BY <5>2, <5>3
        <4>2. both \in Texts
          BY <3>3 DEF both
        <4> QED
          BY <4>1, <4>2
      <3> QED
        BY <3>5, Zenon DEF Plain, one
    <2>7. text # NULL
      BY <2>6, TextAssumption
    <2> HIDE DEF text
    <2> DEFINE value == EscapedString(text)
    <2>8. value = <<Quote>> \o text \o <<Quote>>
      BY <2>6, PlainEscaped
    <2>9. value \in Texts /\ values \in Seq(Texts) /\ ReadAs(value, values)
      BY <2>6, EscapedType, StringReadAs
    <2>10. IfPresent(key, text) = IfTelling(key, values)
      BY <2>7, PresentIsTelling
    <2> HIDE DEF value, values
    <2>11. Adds(<<",">> \o Member(key, value), IfTelling(key, values))
      BY <2>5, <2>9, AddsMember
    <2> QED
      BY <2>3, <2>4, <2>8, <2>10, <2>11, Zenon DEF key
  <1> QED
    BY <1>1, <1>2

HeadersShown(e) ==
    IfPresent("from", e.from) \o IfPresent("snippet", e.snippet)
    \o IfPresent("subject", e.subject) \o IfPresent("to", e.to)

LEMMA HeadersAdd ==
    ASSUME NEW e, WithHeaderTexts(e)
    PROVE  Adds(HeaderMembers(e), HeadersShown(e))
PROOF
  <1> DEFINE f == OptionalMember("from", e.from)
             n == OptionalMember("snippet", e.snippet)
             u == OptionalMember("subject", e.subject)
             t == OptionalMember("to", e.to)
             p == IfPresent("from", e.from)
             q == IfPresent("snippet", e.snippet)
             r == IfPresent("subject", e.subject)
             v == IfPresent("to", e.to)
  <1>1. \A key \in Keys : \A text \in Optional(Texts) :
            Adds(OptionalMember(key, text), IfPresent(key, text))
    BY KeySigns, OptionalAdds, Zenon
  <1>2. Adds(f, p) /\ Adds(n, q) /\ Adds(u, r) /\ Adds(t, v)
    BY <1>1, KeyNames, Zenon DEF WithHeaderTexts
  <1>3. HeaderMembers(e) = f \o n \o u \o t /\ HeadersShown(e) = p \o q \o r \o v
    BY Zenon DEF HeaderMembers, HeadersShown
  <1> HIDE DEF f, n, u, t, p, q, r, v
  <1>4. Adds(f \o n, p \o q)
    BY <1>2, AddsBoth
  <1>5. Adds(f \o n \o u, p \o q \o r)
    BY <1>2, <1>4, AddsBoth
  <1>6. Adds(f \o n \o u \o t, p \o q \o r \o v)
    BY <1>2, <1>5, AddsBoth
  <1> QED
    BY <1>3, <1>6, Zenon

-----------------------------------------------------------------------------
(***************************************************************************)
(* The prefix every message event starts with.                             *)
(***************************************************************************)
One(key, value) == << <<<<key>>, <<value>>>> >>

LEMMA OneIsTelling ==
    ASSUME NEW key, NEW value
    PROVE  IfTelling(key, <<value>>) = One(key, value)
PROOF
  <1>1. <<value>> # <<>>
    OBVIOUS
  <1> QED
    BY <1>1, Zenon DEF One, IfTelling

LEMMA OneType ==
    ASSUME NEW key \in Tokens, NEW value \in Texts
    PROVE  One(key, value) \in Seq(Telling)
PROOF
  <1>1. <<value>> \in Seq(Texts)
    OBVIOUS
  <1>2. IfTelling(key, <<value>>) \in Seq(Telling)
    BY <1>1, IfTellingType
  <1> QED
    BY <1>2, OneIsTelling, Zenon

LEMMA TellsOne ==
    ASSUME NEW key \in Keys, NEW value \in Texts, NEW part \in Texts, ReadAs(value, <<part>>),
           NEW text, NEW told, Awaiting(text, told)
    PROVE  Tells(text \o Member(key, value), told \o One(key, part))
PROOF
  <1> DEFINE values == <<part>>
  <1>1. values \in Seq(Texts) /\ ReadAs(value, values)
    OBVIOUS
  <1>2. IfTelling(key, values) = One(key, part)
    BY OneIsTelling
  <1>3. key \in Tokens /\ key \notin {Quote, Backslash}
    BY KeySigns
  <1> HIDE DEF values
  <1>4. Tells(text \o Member(key, value), told \o IfTelling(key, values))
    BY <1>1, <1>3, TellsMember
  <1> QED
    BY <1>2, <1>4, Zenon

LEMMA AwaitingFirst == Awaiting(<<"{">>, <<>>)
PROOF
  <1>1. <<"{">> \in Texts
    BY PunctuationTokens, ShortTexts, Zenon
  <1> QED
    BY <1>1, StartDue, Zenon DEF Awaiting

LEMMA AwaitingUserdb ==
    ASSUME NEW keys \in Seq(Texts), NEW env, \A k \in DOMAIN env : env[k] \in Optional(Texts),
           NEW text, NEW told, Awaiting(text, told), NEW json, json = userdb_json(keys, env)
    PROVE  Awaiting(text \o (IF json = NULL THEN <<>> ELSE json),
                    told \o IfTelling("userdb", FoundValues(keys, env)))
PROOF
  <1> DEFINE s     == After(Start, text)
             db    == IF json = NULL THEN <<>> ELSE json
             found == told \o IfTelling("userdb", FoundValues(keys, env))
  <1>1. text \in Texts /\ Due(s, told)
    BY Zenon DEF Awaiting
  <1>2. db \in Texts
    <2>1. userdb_json(keys, env) \in Optional(Texts)
      BY UserdbType
    <2>2. <<>> \in Texts
      BY PunctuationTokens, ShortTexts, Zenon
    <2> QED
      BY <2>1, <2>2 DEF Optional
  <1>3. Due(After(s, db), found)
    <2> HIDE DEF s
    <2> QED
      BY <1>1, UserdbRead
  <1> HIDE DEF db, found
  <1>4. text \o db \in Texts /\ After(Start, text \o db) = After(s, db)
    BY <1>1, <1>2, ConcatType, AfterConcat
  <1>5. Awaiting(text \o db, found)
    BY <1>3, <1>4, Zenon DEF Awaiting
  <1> QED
    BY <1>5 DEF db, found

\* What a consumer reads of it: of the user and where it happened, and of the message.
PrefixShown(user, userdb, mailbox, event_name) ==
    One("user", user) \o IfTelling("userdb", userdb)
    \o << <<<<"mailbox">>, <<mailbox>>>>, <<<<"event">>, <<<<event_name>>>>>> >>

IdsShown(msg) ==
    << <<<<"uidvalidity">>, <<<<msg.uid_validity>>>>>>, <<<<"uid">>, <<<<msg.uid>>>>>> >>

LEMMA TwoConcat == \A a, b : <<a>> \o <<b>> = <<a, b>>
PROOF
  <1> SUFFICES ASSUME NEW a, NEW b
               PROVE  <<a>> \o <<b>> = <<a, b>>
    OBVIOUS
  <1> DEFINE S == {a, b}
  <1>1. <<a>> \in Seq(S) /\ b \in S
    OBVIOUS
  <1>2. <<a>> \o <<b>> = Append(<<a>>, b)
    <2> HIDE DEF S
    <2> QED
      BY <1>1, AppendIsConcat
  <1>3. <<a, b>> = Append(<<a>>, b)
    OBVIOUS
  <1> QED
    BY <1>2, <1>3

LEMMA PrefixTells ==
    ASSUME NEW ctx, NEW user, NEW msg, Given(ctx, user, msg),
           msg.uid_validity \in Numbers, msg.uid \in Numbers,
           NEW keys \in Seq(Texts), NEW env, \A k \in DOMAIN env : env[k] \in Optional(Texts),
           ctx.userdb_json = userdb_json(keys, env),
           NEW event_name \in Tokens, event_name \notin {Quote, Backslash}
    PROVE  Tells(write_msg_prefix(ctx, user, event_name, msg),
                 PrefixShown(user, FoundValues(keys, env), msg.mailbox, event_name)
                 \o IdsShown(msg))
PROOF
  <1> DEFINE c    == <<",">>
             json == ctx.userdb_json
             db   == IF json = NULL THEN <<>> ELSE json
             name == <<event_name>>
             vtxt == <<msg.uid_validity>>
             itxt == <<msg.uid>>
             sign == <<Quote, event_name, Quote>>
             mu   == Member("user", EscapedString(user))
             mm   == Member("mailbox", EscapedString(msg.mailbox))
             me   == Member("event", sign)
             mv   == Member("uidvalidity", vtxt)
             mi   == Member("uid", itxt)
             u    == One("user", user)
             d    == IfTelling("userdb", FoundValues(keys, env))
             m    == One("mailbox", msg.mailbox)
             e    == One("event", name)
             v    == One("uidvalidity", vtxt)
             i    == One("uid", itxt)
             open == <<"{">>
  <1>1. user \in Texts /\ msg.mailbox \in Texts /\ name \in Texts /\ vtxt \in Texts /\ itxt \in Texts
        /\ sign \in Texts /\ EscapedString(user) \in Texts /\ EscapedString(msg.mailbox) \in Texts
    BY PunctuationTokens, ShortTexts, EscapedType, Zenon DEF Given
  <1>2. /\ ReadAs(EscapedString(user), <<user>>)
        /\ ReadAs(EscapedString(msg.mailbox), <<msg.mailbox>>)
        /\ ReadAs(sign, <<name>>)
    <2>1. sign = EscapedString(name)
      BY PlainSign
    <2> HIDE DEF sign, name
    <2> QED
      BY <1>1, <2>1, StringReadAs
  <1>3. ReadAs(vtxt, <<vtxt>>) /\ ReadAs(itxt, <<itxt>>)
    <2>1. msg.uid_validity \in Tokens \cap Numbers /\ msg.uid \in Tokens \cap Numbers
      BY DEF Given
    <2> QED
      BY <2>1, NumberReadAs
  <1>4. u \in Seq(Telling) /\ m \in Seq(Telling) /\ e \in Seq(Telling)
        /\ v \in Seq(Telling) /\ i \in Seq(Telling)
    <2> HIDE DEF name, vtxt, itxt
    <2> QED
      BY <1>1, KeyTokens, OneType
  <1> HIDE DEF sign, vtxt, itxt, name
  <1>5. Tells(open \o mu, u)
    <2>1. Tells(open \o mu, <<>> \o u)
      <3> DEFINE none == <<>>
      <3>1. Awaiting(open, none)
        BY AwaitingFirst, Zenon
      <3> HIDE DEF none, open
      <3>2. Tells(open \o mu, none \o u)
        BY <1>1, <1>2, <3>1, KeyNames, TellsOne, Zenon
      <3> QED
        BY <3>2 DEF none
    <2>2. <<>> \o u = u
      <3> HIDE DEF u
      <3> QED
        BY <1>4, ConcatEmptySeq
    <2> QED
      BY <2>1, <2>2, Zenon
  <1> HIDE DEF open
  <1> DEFINE t1 == open \o mu \o c \o db
  <1>6. Awaiting(t1, u \o d)
    <2>1. Awaiting(open \o mu \o c, u)
      <3> HIDE DEF mu, u
      <3> QED
        BY <1>5, AwaitingMore
    <2> HIDE DEF mu, c, u
    <2> QED
      BY <2>1, AwaitingUserdb
  <1> HIDE DEF t1, d, u
  <1> DEFINE t2 == t1 \o mm \o c
  <1>7. Awaiting(t2, u \o d \o m)
    <2>1. Tells(t1 \o mm, u \o d \o m)
      BY <1>1, <1>2, <1>6, KeyNames, TellsOne, Zenon
    <2> HIDE DEF mm, m
    <2> QED
      BY <2>1, AwaitingMore
  <1> HIDE DEF t2, m
  <1> DEFINE t3 == t2 \o me \o c
  <1>8. Awaiting(t3, u \o d \o m \o e)
    <2>1. Tells(t2 \o me, u \o d \o m \o e)
      BY <1>1, <1>2, <1>7, KeyNames, TellsOne, Zenon
    <2> HIDE DEF me, e
    <2> QED
      BY <2>1, AwaitingMore
  <1> HIDE DEF t3, e
  <1> DEFINE t4 == t3 \o mv \o c
  <1>9. Awaiting(t4, u \o d \o m \o e \o v)
    <2>1. Tells(t3 \o mv, u \o d \o m \o e \o v)
      BY <1>1, <1>3, <1>8, KeyNames, TellsOne, Zenon
    <2> HIDE DEF mv, v
    <2> QED
      BY <2>1, AwaitingMore
  <1> HIDE DEF t4, v
  <1>10. Tells(t4 \o mi, u \o d \o m \o e \o v \o i)
    BY <1>1, <1>3, <1>9, KeyNames, TellsOne, Zenon
  <1>11. write_msg_prefix(ctx, user, event_name, msg) = t4 \o mi
    BY Zenon DEF write_msg_prefix, t4, t3, t2, t1, open, sign, vtxt, itxt
  <1>12. m \o e = << <<<<"mailbox">>, <<msg.mailbox>>>>, <<<<"event">>, <<name>>>> >>
    BY TwoConcat, Zenon DEF m, e, One
  <1>13. v \o i = IdsShown(msg)
    BY TwoConcat, Zenon DEF v, One, IdsShown, vtxt, itxt
  <1>14. PrefixShown(user, FoundValues(keys, env), msg.mailbox, event_name) = u \o d \o (m \o e)
    BY <1>12, Zenon DEF PrefixShown, u, d, name
  <1>15. d \in Seq(Telling)
    <2>1. FoundValues(keys, env) \in Seq(Texts)
      BY FoundType
    <2> QED
      BY <2>1, KeyTokens, IfTellingType DEF d
  <1> HIDE DEF i
  <1>16. u \o d \o m \o e \o v \o i = u \o d \o (m \o e) \o (v \o i)
    <2>1. u \o d \in Seq(Telling) /\ m \o e \in Seq(Telling)
      BY <1>4, <1>15, TellingConcat
    <2>2. \A p, q, r \in Seq(Telling) : p \o q \in Seq(Telling) /\ (p \o q) \o r = p \o (q \o r)
      BY TellingConcat
    <2>3. u \o d \o m \o e = u \o d \o (m \o e)
      <3>1. m \in Seq(Telling) /\ e \in Seq(Telling)
        BY <1>4
      <3>2. u \o d \in Seq(Telling)
        BY <2>1
      <3> QED
        BY <2>2, <3>1, <3>2, Zenon
    <2>4. u \o d \o (m \o e) \in Seq(Telling)
      BY <2>1, <2>2, Zenon
    <2>5. u \o d \o (m \o e) \o v \o i = u \o d \o (m \o e) \o (v \o i)
      <3> DEFINE told == u \o d \o (m \o e)
      <3>1. told \in Seq(Telling) /\ v \in Seq(Telling) /\ i \in Seq(Telling)
        BY <1>4, <2>4
      <3> HIDE DEF told
      <3>2. (told \o v) \o i = told \o (v \o i)
        BY <3>1, TellingConcat
      <3> QED
        BY <3>2, Zenon DEF told
    <2> QED
      BY <2>3, <2>5, Zenon
  <1> QED
    BY <1>10, <1>11, <1>13, <1>14, <1>16, Zenon

-----------------------------------------------------------------------------
(***************************************************************************)
(* Several members one after the other.                                    *)
(***************************************************************************)
LEMMA TellsAnd ==
    ASSUME NEW told \in Seq(Telling), NEW p \in Seq(Telling), NEW text, Tells(text, told \o p),
           NEW b, NEW q, Adds(b, q)
    PROVE  p \o q \in Seq(Telling) /\ Tells(text \o b, told \o (p \o q))
PROOF
  <1>1. q \in Seq(Telling)
    BY Zenon DEF Adds
  <1>2. p \o q \in Seq(Telling) /\ (told \o p) \o q = told \o (p \o q)
    BY <1>1, TellingConcat
  <1>3. Tells(text \o b, (told \o p) \o q)
    BY TellsMore, Zenon
  <1> QED
    BY <1>2, <1>3, Zenon

LEMMA TellsTwo ==
    ASSUME NEW text, NEW told \in Seq(Telling), Tells(text, told),
           NEW a, NEW p, Adds(a, p), NEW b, NEW q, Adds(b, q)
    PROVE  p \o q \in Seq(Telling) /\ Tells(text \o a \o b, told \o (p \o q))
PROOF
  <1>1. p \in Seq(Telling)
    BY Zenon DEF Adds
  <1> DEFINE t == text \o a
  <1>2. Tells(t, told \o p)
    BY TellsMore, Zenon
  <1> HIDE DEF t
  <1>3. p \o q \in Seq(Telling) /\ Tells(t \o b, told \o (p \o q))
    BY <1>1, <1>2, TellsAnd
  <1> QED
    BY <1>3 DEF t

LEMMA TellsFour ==
    ASSUME NEW text, NEW told \in Seq(Telling), Tells(text, told),
           NEW a, NEW p, Adds(a, p), NEW b, NEW q, Adds(b, q),
           NEW c, NEW r, Adds(c, r), NEW d, NEW v, Adds(d, v)
    PROVE  p \o q \o r \o v \in Seq(Telling)
           /\ Tells(text \o a \o b \o c \o d, told \o (p \o q \o r \o v))
PROOF
  <1> DEFINE t == text \o a \o b
             x == p \o q
             u == t \o c
             y == x \o r
  <1>1. x \in Seq(Telling) /\ Tells(t, told \o x)
    BY TellsTwo
  <1> HIDE DEF t, x
  <1>2. y \in Seq(Telling) /\ Tells(u, told \o y)
    BY <1>1, TellsAnd
  <1> HIDE DEF u, y
  <1>3. y \o v \in Seq(Telling) /\ Tells(u \o d, told \o (y \o v))
    BY <1>2, TellsAnd
  <1> QED
    BY <1>3 DEF u, y, t, x

LEMMA HeadersAfter ==
    ASSUME NEW e, WithHeaderTexts(e), NEW p \in Seq(Telling)
    PROVE  p \o HeadersShown(e) =
               p \o IfPresent("from", e.from) \o IfPresent("snippet", e.snippet)
               \o IfPresent("subject", e.subject) \o IfPresent("to", e.to)
PROOF
  <1> DEFINE f == IfPresent("from", e.from)
             n == IfPresent("snippet", e.snippet)
             u == IfPresent("subject", e.subject)
             t == IfPresent("to", e.to)
  <1>1. \A key \in Keys : \A text \in Optional(Texts) : IfPresent(key, text) \in Seq(Telling)
    BY KeySigns, OptionalAdds, Zenon DEF Adds
  <1>2. f \in Seq(Telling) /\ n \in Seq(Telling) /\ u \in Seq(Telling) /\ t \in Seq(Telling)
    BY <1>1, KeyNames, Zenon DEF WithHeaderTexts
  <1>3. HeadersShown(e) = f \o n \o u \o t
    BY Zenon DEF HeadersShown
  <1>4. \A a, b, c \in Seq(Telling) : a \o b \in Seq(Telling) /\ (a \o b) \o c = a \o (b \o c)
    BY TellingConcat
  <1> HIDE DEF f, n, u, t
  <1>5. f \o n \in Seq(Telling) /\ f \o n \o u \in Seq(Telling)
    BY <1>2, <1>4, Zenon
  <1>6. p \o (f \o n \o u \o t) = p \o (f \o n \o u) \o t
    BY <1>2, <1>4, <1>5, Zenon
  <1>7. p \o (f \o n \o u) = p \o (f \o n) \o u
    BY <1>2, <1>4, <1>5, Zenon
  <1>8. p \o (f \o n) = p \o f \o n
    BY <1>2, <1>4, Zenon
  <1>9. p \o (f \o n \o u \o t) = p \o f \o n \o u \o t
    BY <1>6, <1>7, <1>8, Zenon
  <1> QED
    BY <1>3, <1>9, Zenon DEF f, n, u, t
-----------------------------------------------------------------------------
(***************************************************************************)
(* The events of a mailbox that carry data: the event's name is closed     *)
(* together with it.                                                       *)
(***************************************************************************)
LEMMA OneAfter ==
    ASSUME NEW S, NEW a \in S, NEW b \in S, NEW c \in S, NEW d \in S
    PROVE  /\ <<a, b>> \o <<c>> = <<a, b, c>>
           /\ <<a, b, c>> \o <<d>> = <<a, b, c, d>>
PROOF
  <1> DEFINE two   == <<a, b>>
             three == <<a, b, c>>
             four  == <<a, b, c, d>>
  <1>1. /\ two \in Seq(S) /\ three \in Seq(S) /\ Len(three) = Len(two) + 1
        /\ \A i \in 1..Len(two) : three[i] = two[i]
        /\ three[Len(two) + 1] = c
    OBVIOUS
  <1>2. /\ four \in Seq(S) /\ Len(four) = Len(three) + 1
        /\ \A i \in 1..Len(three) : four[i] = three[i]
        /\ four[Len(three) + 1] = d
    OBVIOUS
  <1> HIDE DEF two, three, four
  <1>3. three = Append(two, c) /\ four = Append(three, d)
    BY <1>1, <1>2, OneMore
  <1>4. two \o <<c>> = three /\ three \o <<d>> = four
    BY <1>1, <1>3, AppendIsConcat
  <1> QED
    BY <1>4 DEF two, three, four

LEMMA TextsAssociative ==
    ASSUME NEW a \in Texts, NEW b \in Texts, NEW c \in Texts
    PROVE  (a \o b) \o c = a \o (b \o c)
BY ConcatProperties, ConcatAssociative DEF Texts

LEMMA NameClosed ==
    ASSUME NEW name \in Tokens, NEW text \in Texts, NEW more \in Texts
    PROVE  text \o Member("event", <<Quote, name>>) \o (<<Quote, ",">> \o more)
               = text \o Member("event", <<Quote, name, Quote>>) \o <<",">> \o more
PROOF
  <1> DEFINE k == <<Quote, "event", Quote, ":">>
             n == <<Quote, name>>
             close == <<Quote>>
             c == <<",">>
             s == <<Quote, name, Quote>>
             z == <<Quote, ",">>
  <1>1. k \in Texts /\ n \in Texts /\ close \in Texts /\ c \in Texts /\ z \in Texts
    BY PunctuationTokens, KeyTokens, ShortTexts, Zenon
  <1>2. n \o close = s
    <2>1. Quote \in Tokens
      BY PunctuationTokens
    <2> QED
      BY <2>1, OneAfter
  <1>3. close \o c = z
    BY TwoConcat, Zenon
  <1>4. Member("event", n) = k \o n /\ Member("event", s) = k \o s
    BY Zenon DEF Member
  <1> HIDE DEF k, n, close, c, s, z
  <1>5. (k \o n) \o close = k \o (n \o close)
    <2>1. \A w \in Texts : (k \o n) \o w = k \o (n \o w)
      BY <1>1, TextsAssociative
    <2> QED
      BY <1>1, <2>1, Zenon
  <1> DEFINE open == k \o n
  <1>6. open \in Texts
    BY <1>1, ConcatType
  <1> HIDE DEF open
  <1>7. (text \o open) \o close = text \o (open \o close)
    <2>1. \A w \in Texts : (text \o open) \o w = text \o (open \o w)
      BY <1>6, TextsAssociative
    <2> QED
      BY <1>1, <2>1, Zenon
  <1> DEFINE u == text \o open
  <1>8. u \in Texts
    BY <1>6, ConcatType
  <1> HIDE DEF u
  <1>9. (u \o close) \o c = u \o (close \o c)
    BY <1>1, <1>8, TextsAssociative
  <1>10. (u \o z) \o more = u \o (z \o more)
    BY <1>1, <1>8, TextsAssociative
  <1>11. u \o (z \o more) = text \o (k \o s) \o c \o more
    BY <1>2, <1>3, <1>5, <1>7, <1>9, <1>10, Zenon DEF u, open
  <1> QED
    BY <1>4, <1>11, Zenon DEF n, s, z, c, u, open

LEMMA MailboxTells ==
    ASSUME NEW user \in Texts, NEW mailbox \in Texts,
           NEW event_name \in Tokens, event_name \notin {Quote, Backslash},
           NEW key \in Keys, NEW value \in Texts, NEW part \in Texts, ReadAs(value, <<part>>)
    PROVE  Tells(<<"{">> \o Member("user", EscapedString(user)) \o <<",">>
                 \o Member("mailbox", EscapedString(mailbox)) \o <<",">>
                 \o Member("event", <<Quote, event_name>>)
                 \o (<<Quote, ",">> \o Member(key, value)),
                 << <<<<"user">>, <<user>>>>, <<<<"mailbox">>, <<mailbox>>>>,
                    <<<<"event">>, <<<<event_name>>>>>>, <<<<key>>, <<part>>>> >>)
PROOF
  <1> DEFINE c    == <<",">>
             name == <<event_name>>
             sign == <<Quote, event_name, Quote>>
             mu   == Member("user", EscapedString(user))
             mm   == Member("mailbox", EscapedString(mailbox))
             me   == Member("event", sign)
             mk   == Member(key, value)
             u    == One("user", user)
             m    == One("mailbox", mailbox)
             e    == One("event", name)
             p    == One(key, part)
             open == <<"{">>
  <1>1. /\ name \in Texts /\ sign \in Texts /\ c \in Texts /\ open \in Texts
        /\ EscapedString(user) \in Texts /\ EscapedString(mailbox) \in Texts
    BY PunctuationTokens, ShortTexts, EscapedType, Zenon
  <1>2. /\ ReadAs(EscapedString(user), <<user>>)
        /\ ReadAs(EscapedString(mailbox), <<mailbox>>)
        /\ ReadAs(sign, <<name>>)
    <2>1. sign = EscapedString(name)
      BY PlainSign
    <2> HIDE DEF sign, name
    <2> QED
      BY <1>1, <2>1, StringReadAs
  <1>3. mk \in Texts
    BY KeySigns, MemberType, Zenon
  <1> HIDE DEF sign, name
  <1>4. Tells(open \o mu, u)
    <2>1. Tells(open \o mu, <<>> \o u)
      <3> DEFINE none == <<>>
      <3>1. Awaiting(open, none)
        BY AwaitingFirst, Zenon
      <3> HIDE DEF none, open
      <3>2. Tells(open \o mu, none \o u)
        BY <1>1, <1>2, <3>1, KeyNames, TellsOne, Zenon
      <3> QED
        BY <3>2 DEF none
    <2>2. u \in Seq(Telling)
      BY KeyTokens, OneType
    <2>3. <<>> \o u = u
      <3> HIDE DEF u
      <3> QED
        BY <2>2, ConcatEmptySeq
    <2> QED
      BY <2>1, <2>3, Zenon
  <1> HIDE DEF open
  <1> DEFINE t1 == open \o mu \o c
  <1>5. Awaiting(t1, u)
    <2> HIDE DEF mu, u
    <2> QED
      BY <1>4, AwaitingMore
  <1> HIDE DEF t1, u
  <1> DEFINE t2 == t1 \o mm \o c
  <1>6. Awaiting(t2, u \o m)
    <2>1. Tells(t1 \o mm, u \o m)
      BY <1>1, <1>2, <1>5, KeyNames, TellsOne, Zenon
    <2> HIDE DEF mm, m
    <2> QED
      BY <2>1, AwaitingMore
  <1> HIDE DEF t2, m
  <1> DEFINE t3 == t2 \o me \o c
  <1>7. Awaiting(t3, u \o m \o e)
    <2>1. Tells(t2 \o me, u \o m \o e)
      BY <1>1, <1>2, <1>6, KeyNames, TellsOne, Zenon
    <2> HIDE DEF me, e
    <2> QED
      BY <2>1, AwaitingMore
  <1> HIDE DEF t3, e
  <1>8. Tells(t3 \o mk, u \o m \o e \o p)
    BY <1>7, TellsOne, Zenon
  <1>9. t2 \o Member("event", <<Quote, event_name>>) \o (<<Quote, ",">> \o mk) = t3 \o mk
    <2>1. t2 \in Texts
      BY <1>6, Zenon DEF Awaiting
    <2> HIDE DEF mk
    <2>2. t2 \o Member("event", <<Quote, event_name>>) \o (<<Quote, ",">> \o mk)
              = t2 \o Member("event", <<Quote, event_name, Quote>>) \o <<",">> \o mk
      BY <1>3, <2>1, NameClosed
    <2> QED
      BY <2>2, Zenon DEF t3, sign
  <1>10. u \o m \o e \o p =
             << <<<<"user">>, <<user>>>>, <<<<"mailbox">>, <<mailbox>>>>,
                <<<<"event">>, <<<<event_name>>>>>>, <<<<key>>, <<part>>>> >>
    <2> DEFINE a1 == <<<<"user">>, <<user>>>>
               a2 == <<<<"mailbox">>, <<mailbox>>>>
               a3 == <<<<"event">>, <<<<event_name>>>>>>
               a4 == <<<<key>>, <<part>>>>
               S  == {a1, a2, a3, a4}
    <2>1. u = <<a1>> /\ m = <<a2>> /\ e = <<a3>> /\ p = <<a4>>
      BY Zenon DEF u, m, e, One, name
    <2> HIDE DEF a1, a2, a3, a4, p
    <2>2. a1 \in S /\ a2 \in S /\ a3 \in S /\ a4 \in S
      OBVIOUS
    <2> HIDE DEF S
    <2>3. u \o m = <<a1, a2>>
      BY <2>1, TwoConcat, Zenon
    <2>4. <<a1, a2>> \o <<a3>> = <<a1, a2, a3>> /\ <<a1, a2, a3>> \o <<a4>> = <<a1, a2, a3, a4>>
      BY <2>2, OneAfter
    <2> QED
      BY <2>1, <2>3, <2>4, Zenon DEF a1, a2, a3, a4
  <1> QED
    BY <1>8, <1>9, <1>10, Zenon DEF t2, t1, open
=============================================================================
