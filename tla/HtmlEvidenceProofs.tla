--------------------------- MODULE HtmlEvidenceProofs ---------------------------
(***************************************************************************)
(* Proofs about the page parser and what is read from its pages, for pages *)
(* of any tokens and all limits: what the parser counts is what is open,   *)
(* so hidden text is never kept, and what it keeps lies in the page's text *)
(* end to end; and a fact is what its page states about the part it is of. *)
(***************************************************************************)
EXTENDS HtmlEvidence, FiniteSetTheorems, SequenceTheorems, WellFoundedInduction, TLAPS

------------------------------------------------------------------------------
(* The least and the greatest of some numbers. *)

\* The least element of a set, from the order as a relation.
LEMMA LeastOf ==
    ASSUME NEW R, NEW T \in SUBSET Nat,
           \A x, y \in Nat : <<x, y>> \in R <=> x < y,
           \E x \in T : \A y \in T : <<y, x>> \notin R
    PROVE  \E m \in T : \A n \in T : m <= n
<1>1. PICK x \in T : \A y \in T : <<y, x>> \notin R
  OBVIOUS
<1>2. \A y \in T : x \in Nat /\ y \in Nat /\ ~ (y < x)
  BY <1>1
<1>3. \A y \in T : x <= y
  BY <1>2
<1> QED BY <1>3

LEMMA LeastNatural ==
    ASSUME NEW T \in SUBSET Nat, T # {}
    PROVE  \E m \in T : \A n \in T : m <= n
<1> DEFINE R == OpToRel(<, Nat)
<1>1. IsWellFoundedOn(R, Nat)
  BY NatLessThanWellFounded
<1>2. \A x, y \in Nat : <<x, y>> \in R <=> x < y
  BY DEF OpToRel
<1> HIDE DEF R
<1>3. \E x \in T : \A y \in T : <<y, x>> \notin R
  BY <1>1, WFMin
<1> QED BY <1>2, <1>3, LeastOf

LEMMA GreatestChosen ==
    ASSUME NEW N \in Nat, NEW T \in SUBSET (1 .. N), T # {}
    PROVE  (CHOOSE n \in T : \A m \in T : m <= n) \in T
<1> DEFINE U == {n \in Nat : \E m \in T : n = N - m}
<1>1. \A m \in T : m \in Nat /\ N - m \in Nat
  OBVIOUS
<1>2. U \in SUBSET Nat /\ U # {}
  BY <1>1
<1>3. PICK u \in U : \A v \in U : u <= v
  <2> HIDE DEF U
  <2> QED BY <1>2, LeastNatural
<1>4. PICK m \in T : u = N - m
  OBVIOUS
<1>5. \A n \in T : N - n \in U
  BY <1>1
<1>6. \A n \in T : N - m <= N - n
  BY <1>3, <1>4, <1>5
<1>7. \A n \in T : n <= m
  BY <1>1, <1>6
<1> QED BY <1>7


------------------------------------------------------------------------------
(* The ignored elements on a stack. *)

IgnoredAt(frames) == {n \in DOMAIN frames : frames[n].ignored}

LEMMA IgnoredAreCounted ==
    ASSUME NEW S, NEW s \in Seq(S)
    PROVE  /\ IsFiniteSet(IgnoredAt(s)) /\ IgnoredFrames(s) = Cardinality(IgnoredAt(s))
           /\ IgnoredFrames(s) \in Nat
<1>1. IsFiniteSet(1 .. Len(s))
  BY FS_Interval
<1>2. IgnoredAt(s) \in SUBSET (1 .. Len(s))
  BY DEF IgnoredAt
<1>3. IsFiniteSet(IgnoredAt(s))
  BY <1>1, <1>2, FS_Subset
<1>4. IgnoredFrames(s) = Cardinality(IgnoredAt(s))
  BY DEF IgnoredFrames, IgnoredAt
<1> QED BY <1>3, <1>4, FS_CardinalityType

LEMMA NoFrames == IgnoredFrames(<< >>) = 0
BY FS_EmptySet DEF IgnoredFrames

LEMMA OneMoreFrame ==
    ASSUME NEW S, NEW s \in Seq(S), NEW e \in S
    PROVE  IgnoredFrames(Append(s, e)) = IgnoredFrames(s) + (IF e.ignored THEN 1 ELSE 0)
<1> DEFINE t == Append(s, e)
           top == Len(s) + 1
<1>1. /\ DOMAIN s = 1 .. Len(s) /\ DOMAIN t = 1 .. top /\ Len(s) \in Nat
      /\ t[top] = e /\ \A n \in DOMAIN s : t[n] = s[n]
  OBVIOUS
<1>2. top \notin IgnoredAt(s)
  BY <1>1 DEF IgnoredAt
<1>3. IgnoredAt(t) = IF e.ignored THEN IgnoredAt(s) \cup {top} ELSE IgnoredAt(s)
  <2>1. \A n \in DOMAIN t : n \in DOMAIN s \/ n = top
    BY <1>1
  <2>2. DOMAIN s \subseteq DOMAIN t /\ top \in DOMAIN t /\ top \notin DOMAIN s
    BY <1>1
  <2> HIDE DEF t, top
  <2> QED BY <1>1, <2>1, <2>2 DEF IgnoredAt
<1>4. t \in Seq(S)
  OBVIOUS
<1>5. /\ IsFiniteSet(IgnoredAt(s)) /\ IgnoredFrames(s) = Cardinality(IgnoredAt(s))
      /\ IgnoredFrames(s) \in Nat
      /\ IgnoredFrames(t) = Cardinality(IgnoredAt(t))
  BY <1>4, IgnoredAreCounted
<1> HIDE DEF t, top
<1>6. CASE e.ignored
  <2>1. Cardinality(IgnoredAt(s) \cup {top}) = Cardinality(IgnoredAt(s)) + 1
    BY <1>2, <1>5, FS_AddElement
  <2>2. IgnoredFrames(t) = IgnoredFrames(s) + 1
    BY <1>3, <1>5, <1>6, <2>1
  <2> QED BY <1>6, <2>2 DEF t
<1>7. CASE ~e.ignored
  <2>1. IgnoredFrames(t) = IgnoredFrames(s) + 0
    BY <1>3, <1>5, <1>7
  <2> QED BY <1>7, <2>1 DEF t
<1> QED BY <1>6, <1>7

\* What is cut off a stack takes its ignored elements with it.
LEMMA FewerFrames ==
    ASSUME NEW S, NEW s \in Seq(S), NEW top \in 1 .. Len(s)
    PROVE  /\ SubSeq(s, 1, top - 1) \in Seq(S)
           /\ IgnoredFrames(SubSeq(s, 1, top - 1)) =
                  IgnoredFrames(s) - IgnoredFrames(SubSeq(s, top, Len(s)))
<1> DEFINE kept == SubSeq(s, 1, top - 1)
           cut == SubSeq(s, top, Len(s))
           above == {n \in IgnoredAt(s) : n >= top}
           shift == [n \in IgnoredAt(cut) |-> n + (top - 1)]
<1>1. /\ Len(s) \in Nat /\ DOMAIN s = 1 .. Len(s) /\ top \in Nat /\ 1 <= top /\ top <= Len(s)
      /\ kept \in Seq(S) /\ Len(kept) = top - 1 /\ DOMAIN kept = 1 .. top - 1
      /\ cut \in Seq(S) /\ Len(cut) = Len(s) - top + 1 /\ DOMAIN cut = 1 .. Len(s) - top + 1
  OBVIOUS
<1>2. /\ \A n \in DOMAIN kept : kept[n] = s[n]
      /\ \A n \in DOMAIN cut : cut[n] = s[n + (top - 1)]
  BY <1>1
<1> HIDE DEF kept, cut
<1>3. IgnoredAt(kept) = {n \in IgnoredAt(s) : n < top}
  BY <1>1, <1>2 DEF IgnoredAt
<1>4. /\ \A n \in IgnoredAt(cut) : n \in Nat /\ n + (top - 1) \in above
      /\ \A m \in above : m \in Nat /\ m - (top - 1) \in IgnoredAt(cut)
  <2>1. ASSUME NEW n \in IgnoredAt(cut)
        PROVE  n \in Nat /\ n + (top - 1) \in above
    <3>1. n \in DOMAIN cut /\ cut[n].ignored
      BY DEF IgnoredAt
    <3>2. n \in Nat /\ n + (top - 1) \in 1 .. Len(s) /\ n + (top - 1) >= top
      BY <1>1, <3>1
    <3>3. cut[n] = s[n + (top - 1)]
      BY <1>2, <3>1
    <3> QED BY <1>1, <3>1, <3>2, <3>3 DEF IgnoredAt
  <2>2. ASSUME NEW m \in above
        PROVE  m \in Nat /\ m - (top - 1) \in IgnoredAt(cut)
    <3>1. m \in DOMAIN s /\ s[m].ignored /\ m >= top
      BY DEF IgnoredAt
    <3>2. /\ m \in Nat /\ m - (top - 1) \in 1 .. Len(s) - top + 1
          /\ (m - (top - 1)) + (top - 1) = m
      BY <1>1, <3>1
    <3>3. cut[m - (top - 1)] = s[m]
      BY <1>1, <1>2, <3>2
    <3> QED BY <1>1, <3>1, <3>2, <3>3 DEF IgnoredAt
  <2> QED BY <2>1, <2>2
<1>5. shift \in Bijection(IgnoredAt(cut), above)
  <2>1. shift \in [IgnoredAt(cut) -> above]
    BY <1>4
  <2>2. \A m, n \in IgnoredAt(cut) : shift[m] = shift[n] => m = n
    BY <1>1, <1>4
  <2>3. \A m \in above : \E n \in IgnoredAt(cut) : shift[n] = m
    <3> TAKE m \in above
    <3>1. m - (top - 1) \in IgnoredAt(cut) /\ shift[m - (top - 1)] = m
      BY <1>1, <1>4
    <3> QED BY <3>1
  <2> QED BY <2>1, <2>2, <2>3 DEF Bijection, Injection, Surjection, IsInjective
<1>6. /\ IsFiniteSet(IgnoredAt(s)) /\ IgnoredFrames(s) = Cardinality(IgnoredAt(s))
      /\ IsFiniteSet(IgnoredAt(kept)) /\ IgnoredFrames(kept) = Cardinality(IgnoredAt(kept))
      /\ IsFiniteSet(IgnoredAt(cut)) /\ IgnoredFrames(cut) = Cardinality(IgnoredAt(cut))
      /\ IgnoredFrames(kept) \in Nat /\ IgnoredFrames(cut) \in Nat
  BY <1>1, IgnoredAreCounted
<1> HIDE DEF shift, above
<1>7. IsFiniteSet(above) /\ Cardinality(above) = IgnoredFrames(cut)
  <2>1. ExistsBijection(IgnoredAt(cut), above)
    BY <1>5 DEF ExistsBijection
  <2> QED BY <1>6, <2>1, FS_Bijection
<1>8. IgnoredAt(s) = IgnoredAt(kept) \cup above /\ IgnoredAt(kept) \cap above = {}
  BY <1>1, <1>3 DEF above, IgnoredAt
<1>9. Cardinality(IgnoredAt(kept) \cap above) = 0
  BY <1>8, FS_EmptySet
<1>10. IgnoredFrames(s) = IgnoredFrames(kept) + IgnoredFrames(cut) - 0
  BY <1>6, <1>7, <1>8, <1>9, FS_Union
<1> QED BY <1>1, <1>6, <1>10 DEF kept, cut

------------------------------------------------------------------------------
(* The parser. *)

Fields == DOMAIN Parser

IsSequence(s) == \E S : s \in Seq(S)

\* What the fragments are, the bound on them aside.
Tiled(visible, chars) ==
    /\ IsSequence(visible) /\ chars \in Nat
    /\ visible = << >> => chars = 0
    /\ \A n \in DOMAIN visible :
          /\ visible[n].stop = visible[n].start + Len(visible[n].text)
          /\ visible[n].start = IF n = 1 THEN 0 ELSE visible[n - 1].stop + 1
          /\ n = Len(visible) => chars = visible[n].stop

Counted(stack, depth) == IsSequence(stack) /\ depth = IgnoredFrames(stack)

ParserInv(p) ==
    /\ DOMAIN p = Fields
    /\ Counted(p.stack, p.depth)
    /\ Tiled(p.visible, p.chars) /\ p.chars <= MaxVisibleChars

WellTyped(t) ==
    /\ t.type \in {"start", "end", "data"}
    /\ t.type = "start" => t.hidden \in BOOLEAN
    /\ t.type = "data" => IsSequence(t.text)

LEMMA ParserIsSound == ParserInv(Parser)
<1>1. << >> \in Seq({}) /\ DOMAIN << >> = {}
  OBVIOUS
<1>2. /\ Parser.stack = << >> /\ Parser.depth = 0 /\ Parser.visible = << >>
      /\ Parser.chars = 0
  BY DEF Parser
<1>3. Counted(<< >>, 0)
  BY <1>1, NoFrames DEF Counted, IsSequence
<1>4. Tiled(<< >>, 0)
  BY <1>1 DEF Tiled, IsSequence
<1>5. 0 <= MaxVisibleChars
  BY HtmlLimits
<1> QED BY <1>2, <1>3, <1>4, <1>5 DEF ParserInv, Fields

\* A frame is pushed and counted, or neither.
LEMMA PushedIsCounted ==
    ASSUME NEW stack, NEW depth, Counted(stack, depth), NEW e
    PROVE  Counted(Append(stack, e), IF e.ignored THEN depth + 1 ELSE depth)
<1>1. PICK S : stack \in Seq(S)
  BY DEF Counted, IsSequence
<1> DEFINE T == S \cup {e}
<1>2. stack \in Seq(T) /\ e \in T
  BY <1>1
<1>3. Append(stack, e) \in Seq(T)
  BY <1>2
<1> HIDE DEF T
<1>4. /\ IgnoredFrames(Append(stack, e)) =
              IgnoredFrames(stack) + (IF e.ignored THEN 1 ELSE 0)
      /\ IgnoredFrames(stack) \in Nat
  BY <1>2, OneMoreFrame, IgnoredAreCounted
<1>5. (IF e.ignored THEN depth + 1 ELSE depth) = IgnoredFrames(Append(stack, e))
  BY <1>4 DEF Counted
<1> QED BY <1>3, <1>5 DEF Counted, IsSequence

\* What a start tag does to the four fields the invariant is about.
LEMMA StartTagFields ==
    ASSUME NEW p, NEW token, DOMAIN p = Fields
    PROVE  LET q == StartTag(p, token)
               e == [tag |-> token.tag, element |-> p.elements, ignored |-> Ignored(token)]
           IN  /\ DOMAIN q = Fields /\ q.visible = p.visible /\ q.chars = p.chars
               /\ \/ q.stack = p.stack /\ q.depth = p.depth
                  \/ /\ q.stack = Append(p.stack, e)
                     /\ q.depth = IF e.ignored THEN p.depth + 1 ELSE p.depth
BY DEF StartTag, Failed, Fields, Parser, Empty, Ignored

LEMMA StartTagIsSound ==
    ASSUME NEW p, NEW token, ParserInv(p)
    PROVE  ParserInv(StartTag(p, token))
<1> DEFINE q == StartTag(p, token)
           e == [tag |-> token.tag, element |-> p.elements, ignored |-> Ignored(token)]
<1>1. /\ DOMAIN q = Fields /\ q.visible = p.visible /\ q.chars = p.chars
      /\ \/ q.stack = p.stack /\ q.depth = p.depth
         \/ /\ q.stack = Append(p.stack, e)
            /\ q.depth = IF e.ignored THEN p.depth + 1 ELSE p.depth
  BY StartTagFields DEF ParserInv
<1> HIDE DEF q, e
<1>2. Counted(q.stack, q.depth)
  BY <1>1, PushedIsCounted DEF ParserInv
<1>3. ParserInv(q)
  BY <1>1, <1>2 DEF ParserInv
<1> QED BY <1>3 DEF q

\* What an end tag does to them: nothing, or it cuts the stack at a frame.
LEMMA EndTagFields ==
    ASSUME NEW p, NEW token, DOMAIN p = Fields
    PROVE  LET q == EndTag(p, token)
               named == {n \in DOMAIN p.stack : p.stack[n].tag = token.tag}
               top == CHOOSE n \in named : \A m \in named : m <= n
           IN  /\ DOMAIN q = Fields /\ q.visible = p.visible /\ q.chars = p.chars
               /\ q.depth = IF named = {} THEN p.depth
                            ELSE p.depth - IgnoredFrames(SubSeq(p.stack, top, Len(p.stack)))
               /\ q.stack = IF named = {} THEN p.stack ELSE SubSeq(p.stack, 1, top - 1)
BY DEF EndTag, CloseBlock, Fields, Parser

LEMMA CutIsCounted ==
    ASSUME NEW stack, NEW depth, Counted(stack, depth), NEW top \in DOMAIN stack
    PROVE  Counted(SubSeq(stack, 1, top - 1),
                   depth - IgnoredFrames(SubSeq(stack, top, Len(stack))))
<1>1. PICK S : stack \in Seq(S)
  BY DEF Counted, IsSequence
<1>2. top \in 1 .. Len(stack)
  BY <1>1
<1>3. /\ SubSeq(stack, 1, top - 1) \in Seq(S)
      /\ IgnoredFrames(SubSeq(stack, 1, top - 1)) =
             IgnoredFrames(stack) - IgnoredFrames(SubSeq(stack, top, Len(stack)))
  BY <1>1, <1>2, FewerFrames
<1> QED BY <1>3 DEF Counted, IsSequence

LEMMA EndTagIsSound ==
    ASSUME NEW p, NEW token, ParserInv(p)
    PROVE  ParserInv(EndTag(p, token))
<1> DEFINE q == EndTag(p, token)
           named == {n \in DOMAIN p.stack : p.stack[n].tag = token.tag}
           top == CHOOSE n \in named : \A m \in named : m <= n
<1>1. /\ DOMAIN q = Fields /\ q.visible = p.visible /\ q.chars = p.chars
      /\ q.depth = IF named = {} THEN p.depth
                   ELSE p.depth - IgnoredFrames(SubSeq(p.stack, top, Len(p.stack)))
      /\ q.stack = IF named = {} THEN p.stack ELSE SubSeq(p.stack, 1, top - 1)
  BY EndTagFields DEF ParserInv
<1>2. ASSUME named # {} PROVE top \in DOMAIN p.stack
  <2>1. PICK S : p.stack \in Seq(S)
    BY DEF ParserInv, Counted, IsSequence
  <2>2. Len(p.stack) \in Nat /\ named \in SUBSET (1 .. Len(p.stack))
    BY <2>1
  <2> HIDE DEF named
  <2>3. top \in named
    BY <1>2, <2>2, GreatestChosen
  <2> USE DEF named
  <2> QED BY <2>3
<1> HIDE DEF q, named, top
<1>3. Counted(q.stack, q.depth)
  <2>1. CASE named = {}
    BY <1>1, <2>1 DEF ParserInv
  <2>2. CASE named # {}
    BY <1>1, <1>2, <2>2, CutIsCounted DEF ParserInv
  <2> QED BY <2>1, <2>2
<1>4. ParserInv(q)
  BY <1>1, <1>3 DEF ParserInv
<1> QED BY <1>4 DEF q

\* Where the next fragment ends, in numbers.
LEMMA EndsAtANatural ==
    ASSUME NEW chars \in Nat, NEW length \in Nat, NEW gap \in {0, 1},
           NEW start, NEW stop, start = chars + gap, stop = start + length
    PROVE  stop \in Nat
OBVIOUS

LEMMA NextTile ==
    ASSUME NEW visible, NEW chars, Tiled(visible, chars), NEW f, IsSequence(f.text),
           f.start = chars + (IF visible = << >> THEN 0 ELSE 1),
           f.stop = f.start + Len(f.text)
    PROVE  Tiled(Append(visible, f), f.stop)
<1> DEFINE next == Append(visible, f)
           last == Len(visible) + 1
<1>1. PICK V : visible \in Seq(V)
  BY DEF Tiled, IsSequence
<1>2. PICK W : f.text \in Seq(W)
  BY DEF IsSequence
<1>3. f.stop \in Nat /\ chars \in Nat
  <2>1. chars \in Nat
    BY DEF Tiled
  <2>2. Len(f.text) \in Nat
    BY <1>2
  <2>3. (IF visible = << >> THEN 0 ELSE 1) \in {0, 1}
    OBVIOUS
  <2>4. f.stop \in Nat
    BY <2>1, <2>2, <2>3, EndsAtANatural
  <2> QED BY <2>1, <2>4
<1>4. next \in Seq(V \cup {f}) /\ next # << >>
  BY <1>1
<1>5. /\ Len(visible) \in Nat /\ DOMAIN visible = 1 .. Len(visible)
      /\ DOMAIN next = 1 .. last /\ Len(next) = last /\ next[last] = f
      /\ \A n \in DOMAIN visible : next[n] = visible[n]
      /\ visible = << >> <=> Len(visible) = 0
  BY <1>1
<1> HIDE DEF next
<1>6. ASSUME NEW n \in DOMAIN next
      PROVE  /\ next[n].stop = next[n].start + Len(next[n].text)
             /\ next[n].start = IF n = 1 THEN 0 ELSE next[n - 1].stop + 1
             /\ n = Len(next) => f.stop = next[n].stop
  <2>1. CASE n = last
    <3>1. CASE Len(visible) = 0
      BY <1>3, <1>5, <2>1, <3>1 DEF Tiled
    <3>2. CASE Len(visible) # 0
      <4>1. Len(visible) \in DOMAIN visible
        BY <1>5, <3>2
      <4>2. chars = visible[Len(visible)].stop
        BY <4>1 DEF Tiled
      <4>3. n # 1 /\ n - 1 = Len(visible) /\ next[n] = f /\ f.start = chars + 1
        BY <1>5, <2>1, <3>2
      <4> QED BY <1>5, <4>1, <4>2, <4>3
    <3> QED BY <3>1, <3>2
  <2>2. CASE n # last
    <3>1. /\ n \in DOMAIN visible /\ next[n] = visible[n] /\ n # Len(next)
          /\ n # 1 => n - 1 \in DOMAIN visible /\ next[n - 1] = visible[n - 1]
      BY <1>5, <2>2
    <3> QED BY <3>1 DEF Tiled
  <2> QED BY <2>1, <2>2
<1>7. Tiled(next, f.stop)
  BY <1>3, <1>4, <1>6 DEF Tiled, IsSequence
<1> QED BY <1>7 DEF next

LEMMA TextFields ==
    ASSUME NEW p, NEW token, DOMAIN p = Fields
    PROVE  LET q == Text(p, token)
               start == p.chars + (IF p.visible = << >> THEN 0 ELSE 1)
               stop == start + Len(token.text)
               element == IF p.stack = << >> THEN 0 ELSE Last(p.stack).element
           IN  /\ DOMAIN q = Fields /\ q.stack = p.stack /\ q.depth = p.depth
               /\ \/ q.visible = p.visible /\ q.chars = p.chars
                  \/ /\ ~ (p.depth = 0 /\ token.text # << >> /\ stop > MaxVisibleChars)
                     /\ ~ (p.depth > 0 \/ token.text = << >>)
                     /\ q.chars = stop
                     /\ q.visible = Append(p.visible, [text |-> token.text,
                            element |-> element, start |-> start, stop |-> stop])
BY DEF Text, Failed, Fields, Parser

LEMMA TextIsSound ==
    ASSUME NEW p, NEW token, ParserInv(p), IsSequence(token.text)
    PROVE  ParserInv(Text(p, token))
<1> DEFINE q == Text(p, token)
           start == p.chars + (IF p.visible = << >> THEN 0 ELSE 1)
           stop == start + Len(token.text)
           element == IF p.stack = << >> THEN 0 ELSE Last(p.stack).element
           f == [text |-> token.text, element |-> element, start |-> start, stop |-> stop]
<1>1. /\ DOMAIN q = Fields /\ q.stack = p.stack /\ q.depth = p.depth
      /\ \/ q.visible = p.visible /\ q.chars = p.chars
         \/ /\ ~ (p.depth = 0 /\ token.text # << >> /\ stop > MaxVisibleChars)
            /\ ~ (p.depth > 0 \/ token.text = << >>)
            /\ q.chars = stop /\ q.visible = Append(p.visible, f)
  BY TextFields DEF ParserInv
<1>2. f.text = token.text /\ f.start = start /\ f.stop = stop /\ stop = start + Len(token.text)
  OBVIOUS
<1>3. Tiled(Append(p.visible, f), stop)
  <2>1. Tiled(p.visible, p.chars)
    BY DEF ParserInv
  <2>2. f.start = p.chars + (IF p.visible = << >> THEN 0 ELSE 1)
    BY <1>2
  <2>3. IsSequence(f.text) /\ f.stop = f.start + Len(f.text)
    BY <1>2
  <2>4. f.stop = stop
    BY <1>2
  <2> HIDE DEF f
  <2> QED BY <2>1, <2>2, <2>3, <2>4, NextTile
<1>4. stop \in Nat /\ p.depth \in Nat /\ MaxVisibleChars \in Nat
  <2>1. PICK W : token.text \in Seq(W)
    BY DEF IsSequence
  <2>2. PICK S : p.stack \in Seq(S)
    BY DEF ParserInv, Counted, IsSequence
  <2>3. p.depth \in Nat
    BY <2>2, IgnoredAreCounted DEF ParserInv, Counted
  <2>4. stop \in Nat
    <3>1. Len(token.text) \in Nat
      BY <2>1
    <3>2. start \in Nat
      <4>1. p.chars \in Nat
        BY DEF ParserInv, Tiled
      <4> QED BY <4>1
    <3> HIDE DEF start
    <3> QED BY <3>1, <3>2
  <2> QED BY <2>3, <2>4, HtmlLimits
<1> HIDE DEF q, start, stop, f
<1>5. Tiled(q.visible, q.chars) /\ q.chars <= MaxVisibleChars
  <2>1. CASE q.visible = p.visible /\ q.chars = p.chars
    BY <2>1 DEF ParserInv
  <2>2. CASE ~ (q.visible = p.visible /\ q.chars = p.chars)
    <3>1. /\ ~ (p.depth = 0 /\ token.text # << >> /\ stop > MaxVisibleChars)
          /\ ~ (p.depth > 0 \/ token.text = << >>)
          /\ q.chars = stop /\ q.visible = Append(p.visible, f)
      BY <1>1, <2>2
    <3>2. p.depth = 0 /\ ~ (stop > MaxVisibleChars)
      BY <1>4, <3>1
    <3>3. stop <= MaxVisibleChars
      BY <1>4, <3>2
    <3> QED BY <1>3, <3>1, <3>3
  <2> QED BY <2>1, <2>2
<1>6. ParserInv(q)
  BY <1>1, <1>5 DEF ParserInv
<1> QED BY <1>6 DEF q

LEMMA FeedIsSound ==
    ASSUME NEW p, NEW token, ParserInv(p), WellTyped(token)
    PROVE  ParserInv(Feed(p, token))
<1> DEFINE fed == CASE token.type = "start" -> StartTag(p, token)
                    [] token.type = "end" -> EndTag(p, token)
                    [] token.type = "data" -> Text(p, token)
<1>1. ParserInv(fed)
  <2>1. CASE token.type = "start"
    BY <2>1, StartTagIsSound
  <2>2. CASE token.type = "end"
    BY <2>2, EndTagIsSound
  <2>3. CASE token.type = "data"
    BY <2>3, TextIsSound DEF WellTyped
  <2> QED BY <2>1, <2>2, <2>3 DEF WellTyped
<1>2. Feed(p, token) = [fed EXCEPT !.verbatim = Verbatim(p, token)]
  BY Zenon DEF Feed
<1> HIDE DEF fed
<1> QED BY <1>1, <1>2 DEF ParserInv, Fields, Parser

------------------------------------------------------------------------------
(* The page being parsed. *)

FeedInv ==
    feed # None =>
        /\ DOMAIN feed = {"source", "parser", "rest"}
        /\ feed.source \in Sources
        /\ feed.rest \in Seq(ToSet(feed.source.tokens))
        /\ ParserInv(feed.parser)

LEMMA TokensAreWellTyped ==
    ASSUME NEW source \in Sources, NEW t \in ToSet(source.tokens)
    PROVE  WellTyped(t)
BY SourceAssumption DEF WellTyped, IsSequence

LEMMA FeedInvInitially == Init => FeedInv
BY DEF Init, FeedInv

LEMMA FeedInvPreserved == FeedInv /\ [Next]_vars => FeedInv'
<1> SUFFICES ASSUME FeedInv, [Next]_vars PROVE FeedInv'
  OBVIOUS
<1>1. ASSUME NEW source \in Sources, Fetch(source) PROVE FeedInv'
  <2>1. feed' = [source |-> source, parser |-> Parser, rest |-> source.tokens]
    BY <1>1 DEF Fetch
  <2>2. source.tokens \in Seq(ToSet(source.tokens))
    BY SourceAssumption
  <2> QED BY <2>1, <2>2, ParserIsSound DEF FeedInv
<1>2. CASE Read
  <2>1. /\ feed # None /\ feed.rest # << >>
        /\ feed' = [feed EXCEPT !.parser = Feed(@, Head(feed.rest)), !.rest = Tail(@)]
    BY <1>2 DEF Read
  <2>2. /\ DOMAIN feed = {"source", "parser", "rest"} /\ feed.source \in Sources
        /\ feed.rest \in Seq(ToSet(feed.source.tokens)) /\ ParserInv(feed.parser)
    BY <2>1 DEF FeedInv
  <2>3. /\ Head(feed.rest) \in ToSet(feed.source.tokens)
        /\ Tail(feed.rest) \in Seq(ToSet(feed.source.tokens))
    BY <2>1, <2>2
  <2>4. ParserInv(Feed(feed.parser, Head(feed.rest)))
    BY <2>2, <2>3, TokensAreWellTyped, FeedIsSound
  <2>5. /\ DOMAIN feed' = {"source", "parser", "rest"}
        /\ feed'.source = feed.source /\ feed'.rest = Tail(feed.rest)
        /\ feed'.parser = Feed(feed.parser, Head(feed.rest))
    BY <2>1, <2>2
  <2> QED BY <2>2, <2>3, <2>4, <2>5 DEF FeedInv
<1>3. CASE Refuse
  BY <1>3 DEF Refuse, FeedInv
<1>4. CASE Store
  BY <1>4 DEF Store, FeedInv
<1>5. ASSUME UNCHANGED feed PROVE FeedInv'
  BY <1>5 DEF FeedInv
<1>6. ASSUME NEW artifact \in shelf, Load(artifact) PROVE UNCHANGED feed
  BY <1>6 DEF Load
<1>7. ASSUME NEW request \in Requests, Resolve(request) PROVE UNCHANGED feed
  BY <1>7 DEF Resolve
<1>8. ASSUME NEW answer \in Answers, Extract(answer) PROVE UNCHANGED feed
  BY <1>8 DEF Extract
<1>9. CASE Verify
  BY <1>5, <1>9 DEF Verify
<1>10. CASE UNCHANGED vars
  BY <1>5, <1>10 DEF vars
<1> QED BY <1>1, <1>2, <1>3, <1>4, <1>5, <1>6, <1>7, <1>8, <1>9, <1>10 DEF Next

\* While any page is parsed, the count by which the parser tells visible text is
\* that of the ignored elements open, and the fragments it kept tile the page's
\* text within its bound (ingest/html.py ignored_depth, stack, _content).
THEOREM SnapshotsAreSound == Spec => []SnapshotIsSound
<1>1. FeedInv => SnapshotIsSound
  BY DEF FeedInv, SnapshotIsSound, ParserInv, Counted, Tiled, DepthCountsTheStack,
         FragmentsTileTheText
<1> QED BY <1>1, FeedInvInitially, FeedInvPreserved, PTL DEF Spec

------------------------------------------------------------------------------
(* What is stored of a page. *)

Kept(p) ==
    /\ IsSequence(p.blocks)
    /\ \A n \in DOMAIN p.visible :
          IsSequence(p.visible[n].text) /\ p.visible[n].text # << >>

LEMMA AppendedIsASequence ==
    ASSUME NEW s, IsSequence(s), NEW e
    PROVE  /\ IsSequence(Append(s, e))
           /\ DOMAIN Append(s, e) = DOMAIN s \cup {Len(s) + 1}
           /\ Append(s, e)[Len(s) + 1] = e
           /\ \A n \in DOMAIN s : Append(s, e)[n] = s[n]
<1>1. PICK S : s \in Seq(S)
  BY DEF IsSequence
<1>2. s \in Seq(S \cup {e}) /\ e \in S \cup {e}
  BY <1>1
<1>3. Append(s, e) \in Seq(S \cup {e})
  BY <1>2
<1> QED BY <1>1, <1>3 DEF IsSequence

LEMMA StartTagKeeps ==
    ASSUME NEW p, NEW token, DOMAIN p = Fields
    PROVE  LET q == StartTag(p, token) IN q.blocks = p.blocks /\ q.visible = p.visible
BY DEF StartTag, Failed, Fields, Parser, Empty, Ignored

LEMMA EndTagKeeps ==
    ASSUME NEW p, NEW token, DOMAIN p = Fields
    PROVE  LET q == EndTag(p, token)
           IN  q.blocks \in {p.blocks, Append(p.blocks, p.open)} /\ q.visible = p.visible
BY DEF EndTag, CloseBlock, Fields, Parser

LEMMA TextKeeps ==
    ASSUME NEW p, NEW token, DOMAIN p = Fields
    PROVE  LET q == Text(p, token)
           IN  /\ q.blocks = p.blocks
               /\ \/ q.visible = p.visible
                  \/ /\ token.text # << >>
                     /\ \E f : f.text = token.text /\ q.visible = Append(p.visible, f)
<1> DEFINE q == Text(p, token)
           start == p.chars + (IF p.visible = << >> THEN 0 ELSE 1)
           stop == start + Len(token.text)
           element == IF p.stack = << >> THEN 0 ELSE Last(p.stack).element
           f == [text |-> token.text, element |-> element, start |-> start, stop |-> stop]
<1>1. q.blocks = p.blocks
  BY DEF Text, Failed, Fields, Parser
<1>2. \/ q.visible = p.visible
      \/ ~ (p.depth > 0 \/ token.text = << >>) /\ q.visible = Append(p.visible, f)
  BY TextFields
<1>3. f.text = token.text
  OBVIOUS
<1> HIDE DEF q, f
<1>4. /\ q.blocks = p.blocks
      /\ \/ q.visible = p.visible
         \/ /\ token.text # << >>
            /\ \E g : g.text = token.text /\ q.visible = Append(p.visible, g)
  BY <1>1, <1>2, <1>3
<1> QED BY <1>4 DEF q

LEMMA FeedKeeps ==
    ASSUME NEW p, NEW token, ParserInv(p), Kept(p), WellTyped(token)
    PROVE  Kept(Feed(p, token))
<1> DEFINE fed == CASE token.type = "start" -> StartTag(p, token)
                    [] token.type = "end" -> EndTag(p, token)
                    [] token.type = "data" -> Text(p, token)
<1>1. DOMAIN p = Fields /\ IsSequence(p.visible) /\ IsSequence(p.blocks)
  BY DEF ParserInv, Tiled, Kept
<1>2. Kept(fed)
  <2>1. CASE token.type = "start"
    <3>1. fed = StartTag(p, token)
      BY <2>1
    <3> HIDE DEF fed
    <3> QED BY <1>1, <3>1, StartTagKeeps DEF Kept
  <2>2. CASE token.type = "end"
    <3>1. fed = EndTag(p, token)
      BY <2>2
    <3>2. IsSequence(Append(p.blocks, p.open))
      BY <1>1, AppendedIsASequence
    <3> HIDE DEF fed
    <3> QED BY <1>1, <3>1, <3>2, EndTagKeeps DEF Kept
  <2>3. CASE token.type = "data"
    <3>1. fed = Text(p, token) /\ IsSequence(token.text)
      BY <2>3 DEF WellTyped
    <3> HIDE DEF fed
    <3>2. /\ fed.blocks = p.blocks
          /\ \/ fed.visible = p.visible
             \/ /\ token.text # << >>
                /\ \E f : f.text = token.text /\ fed.visible = Append(p.visible, f)
      BY <1>1, <3>1, TextKeeps
    <3>3. ASSUME fed.visible # p.visible PROVE Kept(fed)
      <4>1. PICK f : f.text = token.text /\ fed.visible = Append(p.visible, f)
        BY <3>2, <3>3
      <4>2. token.text # << >>
        BY <3>2, <3>3
      <4>3. \A n \in DOMAIN fed.visible :
              IsSequence(fed.visible[n].text) /\ fed.visible[n].text # << >>
        BY <1>1, <3>1, <4>1, <4>2, AppendedIsASequence DEF Kept
      <4> QED BY <1>1, <3>2, <4>3 DEF Kept
    <3> QED BY <1>1, <3>2, <3>3 DEF Kept
  <2> QED BY <2>1, <2>2, <2>3 DEF WellTyped
<1>3. Feed(p, token) = [fed EXCEPT !.verbatim = Verbatim(p, token)]
  BY Zenon DEF Feed
<1> HIDE DEF fed
<1> QED BY <1>2, <1>3 DEF Kept

\* What the store has of a page: finitely many blocks, the structures of their
\* texts, and texts with words in them.
StoredPage(a) ==
    /\ IsFiniteSet(DOMAIN a.content.blocks)
    /\ \A b \in DOMAIN a.content.blocks :
          a.content.blocks[b] \in {Malformed} \cup {JsonLd[text] : text \in DOMAIN JsonLd}
    /\ \A n \in DOMAIN a.content.fragments :
          /\ IsSequence(a.content.fragments[n].text)
          /\ a.content.fragments[n].text # << >>

LEMMA ArtifactsAreStoredPages ==
    ASSUME NEW source, NEW p, ParserInv(p), Kept(p)
    PROVE  StoredPage(Artifact(source, p))
<1> DEFINE a == Artifact(source, p)
           q == Finish(p)
<1>1. IsSequence(q.blocks)
  <2>1. IsSequence(p.blocks) /\ IsSequence(Append(p.blocks, p.open))
    BY AppendedIsASequence DEF Kept
  <2>2. q.blocks \in {p.blocks, Append(p.blocks, p.open)}
    BY DEF Finish, CloseBlock, ParserInv, Fields, Parser
  <2> QED BY <2>1, <2>2
<1>2. PICK S : q.blocks \in Seq(S)
  BY <1>1 DEF IsSequence
<1>3. /\ a.content.fragments = p.visible /\ a.content.blocks = Blocks(q)
  BY DEF Artifact, Content
<1> HIDE DEF a, q
<1>4. IsFiniteSet(DOMAIN q.blocks)
  <2>1. DOMAIN q.blocks = 1 .. Len(q.blocks) /\ Len(q.blocks) \in Nat
    BY <1>2
  <2> QED BY <2>1, FS_Interval
<1>5. /\ DOMAIN Blocks(q) = DOMAIN q.blocks
      /\ \A b \in DOMAIN q.blocks :
            Blocks(q)[b] \in {Malformed} \cup {JsonLd[text] : text \in DOMAIN JsonLd}
  BY DEF Blocks
<1>6. StoredPage(a)
  BY <1>3, <1>4, <1>5 DEF StoredPage, Kept
<1> QED BY <1>6 DEF a

\* What is left of the tokens is their end.
EndOf(rest, tokens) ==
    /\ IsSequence(rest) /\ IsSequence(tokens) /\ Len(rest) <= Len(tokens)
    /\ \A n \in 1 .. Len(rest) : rest[n] = tokens[Len(tokens) - Len(rest) + n]

LEMMA TailIsTheEnd ==
    ASSUME NEW rest, NEW tokens, EndOf(rest, tokens), rest # << >>
    PROVE  EndOf(Tail(rest), tokens)
<1>1. PICK R : rest \in Seq(R)
  BY DEF EndOf, IsSequence
<1>2. PICK T : tokens \in Seq(T)
  BY DEF EndOf, IsSequence
<1>3. /\ Tail(rest) \in Seq(R) /\ Len(rest) \in Nat /\ Len(rest) > 0
      /\ Len(Tail(rest)) = Len(rest) - 1
      /\ \A n \in 1 .. Len(rest) - 1 : Tail(rest)[n] = rest[n + 1]
  BY <1>1
<1>4. Len(tokens) \in Nat
  BY <1>2
<1>5. ASSUME NEW n \in 1 .. Len(Tail(rest))
      PROVE  Tail(rest)[n] = tokens[Len(tokens) - Len(Tail(rest)) + n]
  <2>1. /\ n \in 1 .. Len(rest) - 1 /\ n + 1 \in 1 .. Len(rest)
        /\ Len(tokens) - Len(Tail(rest)) + n = Len(tokens) - Len(rest) + (n + 1)
    BY <1>3, <1>4
  <2> QED BY <1>3, <2>1 DEF EndOf
<1>6. Len(Tail(rest)) <= Len(tokens)
  BY <1>3, <1>4 DEF EndOf
<1> QED BY <1>2, <1>3, <1>5, <1>6 DEF EndOf, IsSequence

LEMMA ReversedIsReversed ==
    ASSUME NEW s, IsSequence(s)
    PROVE  /\ IsSequence(Reverse(s)) /\ Len(Reverse(s)) = Len(s)
           /\ \A n \in 1 .. Len(s) : Reverse(s)[n] = s[Len(s) - n + 1]
<1>1. PICK S : s \in Seq(S)
  BY DEF IsSequence
<1>2. Len(s) \in Nat /\ DOMAIN s = 1 .. Len(s) /\ \A n \in 1 .. Len(s) : s[n] \in S
  BY <1>1
<1>3. \A n \in 1 .. Len(s) : Len(s) - n + 1 \in 1 .. Len(s)
  BY <1>2
<1>4. Reverse(s) \in [1 .. Len(s) -> S]
  BY <1>2, <1>3 DEF Reverse
<1>5. \A n \in 1 .. Len(s) : Reverse(s)[n] = s[Len(s) - n + 1]
  BY DEF Reverse
<1> HIDE DEF Reverse
<1>6. Reverse(s) \in Seq(S)
  BY <1>2, <1>4
<1>7. Len(Reverse(s)) = Len(s)
  BY <1>2, <1>4, <1>6
<1> QED BY <1>5, <1>6, <1>7 DEF IsSequence

LEMMA TheEndIsASuffix ==
    ASSUME NEW rest, NEW tokens, EndOf(rest, tokens)
    PROVE  IsSuffix(rest, tokens)
<1> DEFINE r == Reverse(rest)
           t == Reverse(tokens)
<1>1. /\ IsSequence(r) /\ Len(r) = Len(rest)
      /\ \A n \in 1 .. Len(rest) : r[n] = rest[Len(rest) - n + 1]
      /\ IsSequence(t) /\ Len(t) = Len(tokens)
      /\ \A n \in 1 .. Len(tokens) : t[n] = tokens[Len(tokens) - n + 1]
  BY ReversedIsReversed DEF EndOf
<1> HIDE DEF r, t
<1>2. PICK R : r \in Seq(R)
  BY <1>1 DEF IsSequence
<1>3. PICK T : t \in Seq(T)
  BY <1>1 DEF IsSequence
<1>4. Len(rest) \in Nat /\ Len(tokens) \in Nat /\ Len(rest) <= Len(tokens)
  <2>1. Len(r) \in Nat /\ Len(t) \in Nat
    BY <1>2, <1>3
  <2> QED BY <1>1, <2>1 DEF EndOf
<1>5. ASSUME NEW n \in 1 .. Len(r) PROVE r[n] = t[n]
  <2> DEFINE m == Len(rest) - n + 1
  <2>1. /\ n \in 1 .. Len(rest) /\ n \in 1 .. Len(tokens) /\ m \in 1 .. Len(rest)
        /\ Len(tokens) - Len(rest) + m = Len(tokens) - n + 1
    BY <1>1, <1>4
  <2>2. rest[m] = tokens[Len(tokens) - Len(rest) + m]
    BY <2>1 DEF EndOf
  <2>3. r[n] = rest[m] /\ t[n] = tokens[Len(tokens) - n + 1]
    BY <1>1, <2>1
  <2> QED BY <2>1, <2>2, <2>3
<1>6. SubSeq(r, 1, Len(r)) = SubSeq(t, 1, Len(r))
  <2>1. Len(r) \in Nat /\ Len(r) <= Len(t) /\ Len(t) \in Nat
    BY <1>1, <1>4
  <2>2. /\ SubSeq(r, 1, Len(r)) \in Seq(R) /\ SubSeq(t, 1, Len(r)) \in Seq(T)
        /\ Len(SubSeq(r, 1, Len(r))) = Len(r) /\ Len(SubSeq(t, 1, Len(r))) = Len(r)
        /\ \A n \in 1 .. Len(r) :
              SubSeq(r, 1, Len(r))[n] = r[n] /\ SubSeq(t, 1, Len(r))[n] = t[n]
    BY <1>2, <1>3, <2>1
  <2>3. \A n \in 1 .. Len(r) : SubSeq(r, 1, Len(r))[n] = SubSeq(t, 1, Len(r))[n]
    BY <1>5, <2>2
  <2>4. SubSeq(r, 1, Len(r)) \in Seq(R \cup T) /\ SubSeq(t, 1, Len(r)) \in Seq(R \cup T)
    BY <2>2
  <2> QED BY <2>2, <2>3, <2>4, SeqEqual
<1>7. IsPrefix(r, t)
  BY <1>1, <1>4, <1>6 DEF IsPrefix
<1> QED BY <1>7 DEF IsSuffix, r, t

------------------------------------------------------------------------------
(* A run of the pipeline. *)

\* The page being parsed came through the gate, and its end is left to read.
ReadInv ==
    feed # None =>
        /\ Ingestible(feed.source)
        /\ Kept(feed.parser)
        /\ EndOf(feed.rest, feed.source.tokens)

LEMMA NewParserKeeps == Kept(Parser)
<1>1. Parser.blocks = << >> /\ Parser.visible = << >>
  BY DEF Parser
<1>2. << >> \in Seq({}) /\ DOMAIN << >> = {}
  OBVIOUS
<1> QED BY <1>1, <1>2 DEF Kept, IsSequence

LEMMA TheWholeIsTheEnd ==
    ASSUME NEW tokens, IsSequence(tokens)
    PROVE  EndOf(tokens, tokens)
<1>1. PICK S : tokens \in Seq(S)
  BY DEF IsSequence
<1>2. Len(tokens) \in Nat /\ \A n \in 1 .. Len(tokens) : Len(tokens) - Len(tokens) + n = n
  BY <1>1
<1> QED BY <1>2 DEF EndOf

LEMMA ReadInvPreserved == FeedInv /\ ReadInv /\ [Next]_vars => ReadInv'
<1> SUFFICES ASSUME FeedInv, ReadInv, [Next]_vars PROVE ReadInv'
  OBVIOUS
<1>1. ASSUME NEW source \in Sources, Fetch(source) PROVE ReadInv'
  <2>1. /\ Ingestible(source)
        /\ feed' = [source |-> source, parser |-> Parser, rest |-> source.tokens]
    BY <1>1 DEF Fetch
  <2>2. IsSequence(source.tokens)
    BY SourceAssumption DEF IsSequence
  <2>3. EndOf(source.tokens, source.tokens)
    BY <2>2, TheWholeIsTheEnd
  <2> QED BY <2>1, <2>3, NewParserKeeps DEF ReadInv
<1>2. CASE Read
  <2>1. /\ feed # None /\ feed.rest # << >>
        /\ feed' = [feed EXCEPT !.parser = Feed(@, Head(feed.rest)), !.rest = Tail(@)]
    BY <1>2 DEF Read
  <2>2. /\ DOMAIN feed = {"source", "parser", "rest"} /\ feed.source \in Sources
        /\ feed.rest \in Seq(ToSet(feed.source.tokens)) /\ ParserInv(feed.parser)
        /\ Kept(feed.parser) /\ EndOf(feed.rest, feed.source.tokens)
        /\ Ingestible(feed.source)
    BY <2>1 DEF FeedInv, ReadInv
  <2>3. Head(feed.rest) \in ToSet(feed.source.tokens)
    BY <2>1, <2>2
  <2>4. Kept(Feed(feed.parser, Head(feed.rest)))
    BY <2>2, <2>3, TokensAreWellTyped, FeedKeeps
  <2>5. EndOf(Tail(feed.rest), feed.source.tokens)
    BY <2>1, <2>2, TailIsTheEnd
  <2>6. /\ feed'.source = feed.source /\ feed'.rest = Tail(feed.rest)
        /\ feed'.parser = Feed(feed.parser, Head(feed.rest))
    BY <2>1, <2>2
  <2>7. Ingestible(feed'.source)
    BY <2>2, <2>6
  <2> QED BY <2>4, <2>5, <2>6, <2>7 DEF ReadInv, Ingestible
<1>3. CASE Refuse
  BY <1>3 DEF Refuse, ReadInv
<1>4. CASE Store
  BY <1>4 DEF Store, ReadInv
<1>5. ASSUME UNCHANGED feed PROVE ReadInv'
  BY <1>5 DEF ReadInv, Ingestible
<1>6. ASSUME NEW artifact \in shelf, Load(artifact) PROVE UNCHANGED feed
  BY <1>6 DEF Load
<1>7. ASSUME NEW request \in Requests, Resolve(request) PROVE UNCHANGED feed
  BY <1>7 DEF Resolve
<1>8. ASSUME NEW answer \in Answers, Extract(answer) PROVE UNCHANGED feed
  BY <1>8 DEF Extract
<1>9. CASE Verify
  BY <1>5, <1>9 DEF Verify
<1>10. CASE UNCHANGED vars
  BY <1>5, <1>10 DEF vars
<1> QED BY <1>1, <1>2, <1>3, <1>4, <1>5, <1>6, <1>7, <1>8, <1>9, <1>10 DEF Next

ResolvedFrom(result, a) ==
    \E request \in Requests : result = ResolveHtmlIdentity(a, request.brand, request.mpn)

\* A fact is a candidate bound to a stored page, verified with what the page was
\* found to be about.
Evidenced(f) ==
    /\ StoredPage(f.page) /\ ResolvedFrom(f.identity, f.page)
    /\ \E answer \in Answers : \E c \in BoundCandidates(answer, f.page, f.identity.target) :
          /\ VerifyCandidate(c, f.page, f.identity) = FactVerified
          /\ f.fact = Fact(c, f.page, f.identity)

ShelfInv ==
    /\ \A a \in shelf : StoredPage(a)
    /\ \A a, b \in shelf : a.sha = b.sha => a = b

RunInv ==
    /\ page # None => StoredPage(page)
    /\ identity # None => page # None /\ ResolvedFrom(identity, page)
    /\ run # None =>
          /\ identity # None
          /\ \E answer \in Answers : run = BoundCandidates(answer, page, identity.target)

FactsInv == \A f \in facts : Evidenced(f)

EvidenceInv == ShelfInv /\ RunInv /\ FactsInv

LEMMA ShelfInvPreserved == FeedInv /\ ReadInv /\ ShelfInv /\ [Next]_vars => ShelfInv'
<1> SUFFICES ASSUME FeedInv, ReadInv, ShelfInv, [Next]_vars PROVE ShelfInv'
  OBVIOUS
<1>1. CASE Store
  <2> DEFINE a == Artifact(feed.source, feed.parser)
  <2>1. feed # None /\ shelf' = {b \in shelf : b.sha # feed.source.sha} \cup {a}
    BY <1>1 DEF Store
  <2>2. StoredPage(a)
    BY <2>1, ArtifactsAreStoredPages DEF FeedInv, ReadInv
  <2>3. a.sha = feed.source.sha
    BY DEF Artifact
  <2> HIDE DEF a
  <2> QED BY <2>1, <2>2, <2>3 DEF ShelfInv
<1>2. ASSUME UNCHANGED shelf PROVE ShelfInv'
  BY <1>2 DEF ShelfInv
<1>3. ASSUME ~Store PROVE UNCHANGED shelf
  BY <1>3 DEF Next, vars, Fetch, Read, Refuse, Load, Resolve, Extract, Verify
<1> QED BY <1>1, <1>2, <1>3

LEMMA RunInvPreserved == ShelfInv /\ RunInv /\ [Next]_vars => RunInv'
<1> SUFFICES ASSUME ShelfInv, RunInv, [Next]_vars PROVE RunInv'
  OBVIOUS
<1>1. ASSUME NEW artifact \in shelf, Load(artifact) PROVE RunInv'
  BY <1>1 DEF Load, RunInv, ShelfInv
<1>2. ASSUME NEW request \in Requests, Resolve(request) PROVE RunInv'
  <2>1. /\ page # None /\ identity = None /\ UNCHANGED <<page, run>>
        /\ identity' = ResolveHtmlIdentity(page, request.brand, request.mpn)
    BY <1>2 DEF Resolve
  <2>2. ResolvedFrom(identity', page)
    BY <2>1 DEF ResolvedFrom
  <2> QED BY <2>1, <2>2 DEF RunInv
<1>3. ASSUME NEW answer \in Answers, Extract(answer) PROVE RunInv'
  <2>1. /\ identity # None /\ UNCHANGED <<page, identity>>
        /\ run' = BoundCandidates(answer, page, identity.target)
    BY <1>3 DEF Extract
  <2> QED BY <2>1 DEF RunInv
<1>4. CASE Verify
  BY <1>4 DEF Verify, RunInv
<1>5. ASSUME UNCHANGED <<page, identity, run>> PROVE RunInv'
  BY <1>5 DEF RunInv
<1>6. ASSUME NEW source \in Sources, Fetch(source) PROVE UNCHANGED <<page, identity, run>>
  BY <1>6 DEF Fetch
<1>7. CASE Read \/ Refuse \/ Store
  BY <1>5, <1>7 DEF Read, Refuse, Store
<1>8. CASE UNCHANGED vars
  BY <1>5, <1>8 DEF vars
<1> QED BY <1>1, <1>2, <1>3, <1>4, <1>5, <1>6, <1>7, <1>8 DEF Next

LEMMA FactsInvPreserved == RunInv /\ FactsInv /\ [Next]_vars => FactsInv'
<1> SUFFICES ASSUME RunInv, FactsInv, [Next]_vars PROVE FactsInv'
  OBVIOUS
<1>1. CASE Verify
  <2>1. /\ run # None
        /\ facts' = facts \cup
              {[fact |-> Fact(c, page, identity), page |-> page, identity |-> identity] :
                  c \in Verified}
    BY <1>1 DEF Verify
  <2>2. /\ StoredPage(page) /\ ResolvedFrom(identity, page)
        /\ \E answer \in Answers : run = BoundCandidates(answer, page, identity.target)
    BY <2>1 DEF RunInv
  <2>3. PICK answer \in Answers : run = BoundCandidates(answer, page, identity.target)
    BY <2>2
  <2>4. ASSUME NEW c \in Verified
        PROVE  Evidenced([fact |-> Fact(c, page, identity), page |-> page,
                          identity |-> identity])
    <3> DEFINE f == [fact |-> Fact(c, page, identity), page |-> page, identity |-> identity]
    <3>1. c \in run /\ VerifyCandidate(c, page, identity) = FactVerified
      BY DEF Verified
    <3>2. f.fact = Fact(c, page, identity) /\ f.page = page /\ f.identity = identity
      OBVIOUS
    <3> HIDE DEF f
    <3>3. Evidenced(f)
      BY <2>2, <2>3, <3>1, <3>2 DEF Evidenced
    <3> QED BY <3>3 DEF f
  <2> QED BY <2>1, <2>4 DEF FactsInv
<1>2. ASSUME UNCHANGED facts PROVE FactsInv'
  BY <1>2 DEF FactsInv
<1>3. ASSUME ~Verify PROVE UNCHANGED facts
  BY <1>3 DEF Next, vars, Fetch, Read, Refuse, Store, Load, Resolve, Extract
<1> QED BY <1>1, <1>2, <1>3

EveryInv == FeedInv /\ ReadInv /\ EvidenceInv

LEMMA EveryInvInitially == Init => EveryInv
BY FeedInvInitially DEF Init, EveryInv, ReadInv, EvidenceInv, ShelfInv, RunInv, FactsInv

LEMMA EveryInvPreserved == EveryInv /\ [Next]_vars => EveryInv'
BY FeedInvPreserved, ReadInvPreserved, ShelfInvPreserved, RunInvPreserved, FactsInvPreserved
   DEF EveryInv, EvidenceInv

LEMMA FactsAreForTheProfile ==
    ASSUME NEW f, Evidenced(f)
    PROVE  f.fact.key \in ToSet(Profile) /\ f.fact.sha = f.page.sha
<1> PICK answer \in Answers :
      \E c \in BoundCandidates(answer, f.page, f.identity.target) :
          f.fact = Fact(c, f.page, f.identity)
  BY DEF Evidenced
<1>1. PICK c \in BoundCandidates(answer, f.page, f.identity.target) :
         f.fact = Fact(c, f.page, f.identity)
  OBVIOUS
<1>2. c.key \in ToSet(Profile)
  BY <1>1 DEF BoundCandidates, Candidate
<1>3. f.fact.key = c.key /\ f.fact.sha = f.page.sha
  BY <1>1 DEF Fact
<1> QED BY <1>2, <1>3

\* Only what passed the gate is parsed, one artifact is stored for a sha, nothing
\* is extracted before the page is identified, and a fact is for an attribute of
\* the profile and cites the page it came from (ingest/html.py, build_kichler).
THEOREM EvidenceIsTyped == Spec => []TypeOK
<1>1. EveryInv => TypeOK
  BY TheEndIsASuffix, FactsAreForTheProfile
     DEF EveryInv, ReadInv, EvidenceInv, ShelfInv, RunInv, FactsInv, TypeOK
<1> QED BY <1>1, EveryInvInitially, EveryInvPreserved, PTL DEF Spec

------------------------------------------------------------------------------
(* What a page is about. *)

\* One element at most, so the only one.
LEMMA OnlyOne ==
    ASSUME NEW S, IsFiniteSet(S), ~ (Cardinality(S) > 1), NEW x \in S
    PROVE  S = {x}
<1>1. Cardinality(S) \in Nat
  BY FS_CardinalityType
<1>2. IsFiniteSet({x}) /\ Cardinality({x}) = 1
  BY FS_Singleton
<1>3. {x} \subseteq S
  OBVIOUS
<1>4. Cardinality({x}) = Cardinality(S)
  <2>1. Cardinality({x}) <= Cardinality(S)
    BY <1>3, FS_Subset
  <2> QED BY <1>1, <1>2, <2>1
<1> QED BY <1>3, <1>4, FS_Subset

LEMMA BlocksAreStructures ==
    ASSUME NEW a, StoredPage(a), NEW b \in Parsed(a)
    PROVE  a.content.blocks[b] \in {JsonLd[text] : text \in DOMAIN JsonLd}
BY DEF StoredPage, Parsed

LEMMA NodesAreFinite ==
    ASSUME NEW a, StoredPage(a)
    PROVE  IsFiniteSet(Nodes(a))
<1> DEFINE NodesOf(b) == {[block |-> b, at |-> at] : at \in Products(a.content.blocks[b])}
           families == {NodesOf(b) : b \in Parsed(a)}
<1>1. IsFiniteSet(Parsed(a))
  <2>1. Parsed(a) \in SUBSET (DOMAIN a.content.blocks)
    BY DEF Parsed
  <2> QED BY <2>1, FS_Subset DEF StoredPage
<1>2. IsFiniteSet(families)
  <2> DEFINE family == [b \in Parsed(a) |-> NodesOf(b)]
  <2>1. family \in Surjection(Parsed(a), families)
    BY DEF Surjection
  <2> HIDE DEF family, families
  <2> QED BY <1>1, <2>1, FS_Surjection
<1>3. ASSUME NEW b \in Parsed(a) PROVE IsFiniteSet(NodesOf(b))
  <2> DEFINE products == Products(a.content.blocks[b])
             node == [at \in products |-> [block |-> b, at |-> at]]
  <2>1. a.content.blocks[b] \in {JsonLd[text] : text \in DOMAIN JsonLd}
    BY BlocksAreStructures
  <2>2. IsFiniteSet(DOMAIN a.content.blocks[b])
    BY <2>1, StructureAssumption
  <2>3. products \in SUBSET (DOMAIN a.content.blocks[b])
    BY DEF Products
  <2>4. IsFiniteSet(products)
    BY <2>2, <2>3, FS_Subset
  <2>5. node \in Surjection(products, NodesOf(b))
    BY DEF Surjection
  <2> HIDE DEF node, products, NodesOf
  <2> QED BY <2>4, <2>5, FS_Surjection
<1>4. \A T \in families : IsFiniteSet(T)
  <2> HIDE DEF NodesOf
  <2> QED BY <1>3
<1>5. Nodes(a) = UNION families
  BY DEF Nodes
<1> HIDE DEF families
<1> QED BY <1>2, <1>4, <1>5, FS_UNION

LEMMA NodeFacts ==
    ASSUME NEW a, StoredPage(a), NEW node \in Nodes(a)
    PROVE  /\ node.block \in Parsed(a) /\ node.at \in DOMAIN a.content.blocks[node.block]
           /\ IsFiniteSet(Node(a, node).mpn)
<1>1. PICK b \in Parsed(a) : node \in {[block |-> b, at |-> at] : at \in Products(a.content.blocks[b])}
  BY DEF Nodes
<1>2. node.block = b /\ node.at \in DOMAIN a.content.blocks[b]
  BY <1>1 DEF Products
<1>3. a.content.blocks[b] \in {JsonLd[text] : text \in DOMAIN JsonLd}
  BY BlocksAreStructures
<1>4. IsFiniteSet(a.content.blocks[b][node.at].mpn)
  BY <1>2, <1>3, StructureAssumption
<1> QED BY <1>2, <1>4 DEF Node

LEMMA MpnsAreFinite ==
    ASSUME NEW a, StoredPage(a)
    PROVE  IsFiniteSet(Mpns(a, PrimaryNodes(a)))
<1> DEFINE primary == PrimaryNodes(a)
           families == {Node(a, node).mpn : node \in primary}
           family == [node \in primary |-> Node(a, node).mpn]
<1>1. primary \in SUBSET Nodes(a)
  BY DEF PrimaryNodes
<1>2. IsFiniteSet(primary)
  <2> HIDE DEF primary
  <2> QED BY <1>1, NodesAreFinite, FS_Subset
<1>3. \A T \in families : IsFiniteSet(T)
  <2> HIDE DEF primary
  <2> QED BY <1>1, NodeFacts
<1>4. family \in Surjection(primary, families)
  BY DEF Surjection
<1>5. IsFiniteSet(families)
  <2> HIDE DEF primary, families, family
  <2> QED BY <1>2, <1>4, FS_Surjection
<1>6. Mpns(a, primary) = UNION families
  BY DEF Mpns
<1> HIDE DEF families, primary
<1>7. IsFiniteSet(UNION families)
  BY <1>3, <1>5, FS_UNION
<1> QED BY <1>6, <1>7 DEF primary

\* The reasons that have no name in the decision are none of them the exact one.
LEMMA FallbackIsNotExact ==
    ASSUME NEW a, NEW target
    PROVE  FallbackReason(Signals(a, target)) # "EXACT_PRODUCT_MPN"
<1> DEFINE signals == Signals(a, target)
<1>1. signals \in SUBSET {"text", "title", "url"}
  BY DEF Signals
<1> HIDE DEF signals
<1>2. \/ "text" \in signals
      \/ "text" \notin signals /\ "title" \in signals
      \/ signals = {"url"}
      \/ signals = {}
  BY <1>1
<1>3. FallbackReason(signals) \in {"MPN_ONLY_IN_VISIBLE_TEXT", "MPN_ONLY_IN_TITLE",
                                   "MPN_ONLY_IN_URL", "MPN_ABSENT"}
  BY <1>2 DEF FallbackReason
<1>4. FallbackReason(signals) # "EXACT_PRODUCT_MPN"
  BY <1>3
<1> QED BY <1>4 DEF signals

LEMMA ExactReason ==
    ASSUME NEW a, NEW brand, NEW target, Reason(a, brand, target) = "EXACT_PRODUCT_MPN",
           target # Invalid, a.authority = Manufacturer
    PROVE  /\ a.publisher = brand /\ ~HasMalformed(a)
           /\ ~ (Cardinality(Mpns(a, PrimaryNodes(a))) > 1)
           /\ target \in Mpns(a, PrimaryNodes(a))
<1> DEFINE primary == PrimaryNodes(a)
           mpns == Mpns(a, primary)
           signals == Signals(a, target)
           elsewhere == target \in Mpns(a, Nodes(a) \ primary)
           unnamed == \E node \in primary : Node(a, node).mpn = {}
           Or(reason) == IF elsewhere THEN "TARGET_ONLY_IN_NONPRIMARY_PRODUCT" ELSE reason
<1>1. Reason(a, brand, target) =
         IF a.publisher # brand \/ brand = None THEN "PUBLISHER_MISMATCH"
         ELSE IF HasMalformed(a) THEN "MALFORMED_JSONLD"
         ELSE IF primary = {}
              THEN Or(IF signals # {} THEN FallbackReason(signals)
                      ELSE "NO_PRODUCT_IDENTITY_STRUCTURE")
         ELSE IF Cardinality(mpns) > 1 THEN "CONFLICTING_PRODUCT_MPN"
         ELSE IF Cardinality(primary) > 1 /\ unnamed
              THEN "MULTIPLE_PRODUCTS_AMBIGUOUS"
         ELSE IF target \notin mpns
              THEN Or(IF mpns # {} THEN "PRODUCT_MPN_MISMATCH"
                      ELSE FallbackReason(signals))
         ELSE "EXACT_PRODUCT_MPN"
  BY DEF Reason
<1>2. FallbackReason(signals) # "EXACT_PRODUCT_MPN"
  BY FallbackIsNotExact
<1> HIDE DEF primary, mpns, signals, elsewhere, unnamed
<1>3. /\ a.publisher = brand /\ ~HasMalformed(a)
      /\ ~ (Cardinality(mpns) > 1) /\ target \in mpns
  BY <1>1, <1>2
<1> QED BY <1>3 DEF mpns, primary

LEMMA ExactDecision ==
    ASSUME NEW reason, Decision(reason) = "EXACT"
    PROVE  reason = "EXACT_PRODUCT_MPN"
BY DEF Decision

LEMMA VerifiedGates ==
    ASSUME NEW c, NEW a, NEW i, VerifyCandidate(c, a, i) = FactVerified
    PROVE  /\ IdentityIsExact(i) /\ i.sha = a.sha /\ a.authority = Manufacturer
           /\ c.value.kind = KindOf[c.key]
           /\ c.locator.kind = "jsonld" => VerifyJsonLd(c, a, i, Rules[c.key]) = FactVerified
           /\ c.locator.kind # "jsonld" => VerifyText(c, a, Rules[c.key]) = FactVerified
<1>1. \A reason : Unverified(reason) # FactVerified
  BY DEF Unverified, Verdict, FactVerified
<1> QED BY <1>1 DEF VerifyCandidate

LEMMA VerifiedStructure ==
    ASSUME NEW c, NEW a, NEW i, NEW rule, VerifyJsonLd(c, a, i, rule) = FactVerified
    PROVE  /\ c.locator.block \in Parsed(a)
           /\ InPrimaryProduct(i, c.locator) /\ Resolves(a, c.locator)
           /\ Entry(a, c.locator).value = c.excerpt
           /\ Entry(a, c.locator).name \in rule.names
           /\ rule.own => Entry(a, c.locator).owner = i.target
           /\ ~ (Cardinality(ValuesUnderRule(a, c.locator, rule, i.target)) > 1)
           /\ StructuredVerdict(c.value, Entry(a, c.locator)) = FactVerified
<1>1. /\ \A reason : Unverified(reason) # FactVerified
      /\ Verdict("REVIEW", "CONFLICTING_PROPERTY_VALUES") # FactVerified
  BY DEF Unverified, Verdict, FactVerified
<1> QED BY <1>1 DEF VerifyJsonLd

LEMMA ExactlyTheTarget ==
    ASSUME NEW f, Evidenced(f)
    PROVE  /\ f.page.authority = Manufacturer
           /\ f.fact.target = f.identity.target
           /\ \E request \in Requests :
                 request.mpn = f.fact.target /\ request.brand = f.page.publisher
           /\ Mpns(f.page, PrimaryNodes(f.page)) = {f.fact.target}
           /\ f.identity.primary = PrimaryNodes(f.page)
<1> PICK answer \in Answers :
      \E c \in BoundCandidates(answer, f.page, f.identity.target) :
          /\ VerifyCandidate(c, f.page, f.identity) = FactVerified
          /\ f.fact = Fact(c, f.page, f.identity)
  BY DEF Evidenced
<1> PICK c \in BoundCandidates(answer, f.page, f.identity.target) :
          /\ VerifyCandidate(c, f.page, f.identity) = FactVerified
          /\ f.fact = Fact(c, f.page, f.identity)
  OBVIOUS
<1>1. IdentityIsExact(f.identity) /\ f.page.authority = Manufacturer
  BY VerifiedGates
<1>2. PICK request \in Requests :
         f.identity = ResolveHtmlIdentity(f.page, request.brand, request.mpn)
  BY DEF Evidenced, ResolvedFrom
<1>3. /\ f.identity.target = request.mpn
      /\ f.identity.decision = Decision(Reason(f.page, request.brand, request.mpn))
      /\ f.identity.primary =
            IF request.mpn = Invalid THEN {} ELSE PrimaryNodes(f.page)
  BY <1>2 DEF ResolveHtmlIdentity
<1>4. f.fact.target = request.mpn
  BY <1>3 DEF Fact
<1>5. request.mpn # Invalid /\ f.identity.primary = PrimaryNodes(f.page)
  BY <1>1, <1>3 DEF IdentityIsExact
<1>6. Reason(f.page, request.brand, request.mpn) = "EXACT_PRODUCT_MPN"
  BY <1>1, <1>3, ExactDecision DEF IdentityIsExact
<1>7. /\ f.page.publisher = request.brand
      /\ ~ (Cardinality(Mpns(f.page, PrimaryNodes(f.page))) > 1)
      /\ request.mpn \in Mpns(f.page, PrimaryNodes(f.page))
  BY <1>1, <1>5, <1>6, ExactReason
<1>8. IsFiniteSet(Mpns(f.page, PrimaryNodes(f.page)))
  BY MpnsAreFinite DEF Evidenced
<1>9. Mpns(f.page, PrimaryNodes(f.page)) = {request.mpn}
  BY <1>7, <1>8, OnlyOne
<1> QED BY <1>1, <1>3, <1>4, <1>5, <1>7, <1>9

\* A fact about a part number comes from a page of its maker, approved as such,
\* whose main products all carry that part number or none, and a structured fact
\* from one of them (identity/html.py, verification/html_attributes.py).
THEOREM FactsAreOfTheirTarget == Spec => []FactsAreOfTheTarget
<1>1. ASSUME NEW f, Evidenced(f), f.fact.locator.kind = "jsonld"
      PROVE  [block |-> f.fact.locator.block, at |-> f.fact.locator.at]
                \in PrimaryNodes(f.page)
  <2> PICK answer \in Answers :
        \E c \in BoundCandidates(answer, f.page, f.identity.target) :
            /\ VerifyCandidate(c, f.page, f.identity) = FactVerified
            /\ f.fact = Fact(c, f.page, f.identity)
    BY <1>1 DEF Evidenced
  <2> PICK c \in BoundCandidates(answer, f.page, f.identity.target) :
            /\ VerifyCandidate(c, f.page, f.identity) = FactVerified
            /\ f.fact = Fact(c, f.page, f.identity)
    OBVIOUS
  <2>1. c.locator = f.fact.locator
    BY DEF Fact
  <2>2. VerifyJsonLd(c, f.page, f.identity, Rules[c.key]) = FactVerified
    BY <1>1, <2>1, VerifiedGates
  <2>3. InPrimaryProduct(f.identity, c.locator)
    BY <2>2, VerifiedStructure
  <2> QED BY <1>1, <2>1, <2>3, ExactlyTheTarget DEF InPrimaryProduct
<1>2. FactsInv => FactsAreOfTheTarget
  BY <1>1, ExactlyTheTarget DEF FactsInv, FactsAreOfTheTarget
<1>3. EveryInv => FactsAreOfTheTarget
  BY <1>2 DEF EveryInv, EvidenceInv
<1> QED BY <1>3, EveryInvInitially, EveryInvPreserved, PTL DEF Spec

------------------------------------------------------------------------------
(* What a page states. *)

LEMMA ParsedValue ==
    ASSUME NEW kind, NEW words, NEW unit, ParseValue(kind, words, unit) # None
    PROVE  LET parsed == ParseValue(kind, words, unit)
           IN  /\ Parses(kind, words) /\ parsed.kind = kind
               /\ parsed.means = Reads[kind][words].means
BY DEF ParseValue, ParseRange, ParseScalar, Value

LEMMA SameKeyMeansTheSame ==
    ASSUME NEW v, NEW w, SemanticKey(v) = SemanticKey(w)
    PROVE  /\ v.kind = w.kind
           /\ v.means = w.means \/ (w.kind = "ENUM" /\ CaseFold[v.means] = CaseFold[w.means])
BY DEF SemanticKey

\* Words that the source has for a value mean what the fact says.
LEMMA StatedIsMeant ==
    ASSUME NEW value, NEW words, NEW unit, States(value, words, unit), NEW fact,
           KindOf[fact.key] = value.kind, fact.means = value.means
    PROVE  Means(words, fact)
<1> DEFINE parsed == ParseValue(value.kind, words, unit)
<1>1. parsed # None /\ SemanticKey(parsed) = SemanticKey(value)
  BY DEF States
<1>2. /\ Parses(value.kind, words) /\ parsed.kind = value.kind
      /\ parsed.means = Reads[value.kind][words].means
  BY <1>1, ParsedValue
<1> HIDE DEF parsed
<1>3. parsed.means = value.means
      \/ (value.kind = "ENUM" /\ CaseFold[parsed.means] = CaseFold[value.means])
  BY <1>1, SameKeyMeansTheSame
<1> QED BY <1>2, <1>3 DEF Means

\* What is left of a text without its unit word.
LEMMA UnitComesOff ==
    ASSUME NEW raw, IsSequence(raw), NEW unit
    PROVE  /\ Front(Append(raw, unit)) = raw
           /\ Last(Append(raw, unit)) = unit
<1>1. PICK S : raw \in Seq(S)
  BY DEF IsSequence
<1> DEFINE T == S \cup {unit}
           t == Append(raw, unit)
<1>2. raw \in Seq(T) /\ unit \in T
  BY <1>1
<1>3. /\ t \in Seq(T) /\ Len(raw) \in Nat /\ Len(t) = Len(raw) + 1 /\ t[Len(raw) + 1] = unit
      /\ \A n \in 1 .. Len(raw) : t[n] = raw[n]
  BY <1>2
<1> HIDE DEF T, t
<1>4. SubSeq(t, 1, Len(raw)) = raw
  <2>1. /\ SubSeq(t, 1, Len(raw)) \in Seq(T) /\ Len(SubSeq(t, 1, Len(raw))) = Len(raw)
        /\ \A n \in 1 .. Len(raw) : SubSeq(t, 1, Len(raw))[n] = t[n]
    BY <1>3
  <2>2. \A n \in 1 .. Len(raw) : SubSeq(t, 1, Len(raw))[n] = raw[n]
    BY <1>3, <2>1
  <2> QED BY <1>2, <2>1, <2>2, SeqEqual
<1>5. Len(t) - 1 = Len(raw)
  BY <1>3
<1>6. Front(t) = raw /\ Last(t) = unit
  BY <1>3, <1>4, <1>5 DEF Front, Last
<1> QED BY <1>6 DEF t

\* A candidate came from a proposal: what it cites is what the page has there, and
\* its value is a text that parsed.
LEMMA BoundFacts ==
    ASSUME NEW answer \in Answers, NEW a, NEW mpn, NEW c \in BoundCandidates(answer, a, mpn)
    PROVE  /\ c.excerpt # None /\ IsSequence(c.value.raw)
           /\ c.locator.kind \in {"text", "jsonld"}
<1>1. PICK n \in DOMAIN answer :
         c = Candidate(answer[n]) /\ Rejection(answer[n], a, mpn) = None
  BY DEF BoundCandidates
<1> DEFINE p == answer[n]
           text == IF p.locator = None THEN None ELSE BoundText(a, p.locator)
<1>2. /\ IsSequence(p.raw)
      /\ p.locator # None => p.locator.kind \in {"text", "jsonld"}
  BY AnswerAssumption DEF IsSequence
<1>3. Rejection(p, a, mpn) = None
  BY <1>1
<1>4. /\ c.excerpt = p.excerpt /\ c.locator = p.locator
      /\ c.value = ParseValue(p.kind, p.raw, p.uom)
  BY <1>1 DEF Candidate
<1> HIDE DEF p
<1>5. text # None /\ p.excerpt = text /\ ParseValue(p.kind, p.raw, p.uom) # None
  BY <1>3, NoneIsNoReason DEF Rejection
<1>6. c.value.raw = p.raw
  BY <1>4, <1>5 DEF ParseValue, ParseRange, ParseScalar, Value
<1> QED BY <1>2, <1>4, <1>5, <1>6

LEMMA VerdictOfStructure ==
    ASSUME NEW value, NEW entry, StructuredVerdict(value, entry) = FactVerified
    PROVE  LET unit == IF entry.units = << >> THEN None ELSE entry.units[1]
           IN  /\ unit # None => States(value, entry.value, value.rawUom)
               /\ unit = None /\ value.rawUom = None =>
                     States(value, entry.value, value.rawUom)
               /\ unit = None /\ value.rawUom # None =>
                     /\ entry.value = Append(value.raw, value.rawUom)
                     /\ States(value, value.raw, value.rawUom)
<1>1. \A reason : Unverified(reason) # FactVerified
  BY DEF Unverified, Verdict, FactVerified
<1> QED BY <1>1 DEF StructuredVerdict, CombinedValue

\* The words of the cited entry, its unit word left out, mean what the fact says.
LEMMA EntryMeansTheFact ==
    ASSUME NEW value, NEW entry, StructuredVerdict(value, entry) = FactVerified,
           IsSequence(value.raw), IsSequence(entry.units), None \notin ToSet(entry.units),
           NEW fact, KindOf[fact.key] = value.kind, fact.means = value.means,
           fact.rawUom = value.rawUom
    PROVE  Means(Said(entry, fact.rawUom), fact)
<1> DEFINE unit == IF entry.units = << >> THEN None ELSE entry.units[1]
<1>1. unit = None <=> entry.units = << >>
  <2>1. PICK S : entry.units \in Seq(S)
    BY DEF IsSequence
  <2>2. ASSUME entry.units # << >> PROVE entry.units[1] \in ToSet(entry.units)
    <3>1. 1 \in DOMAIN entry.units
      BY <2>1, <2>2
    <3> QED BY <3>1 DEF ToSet
  <2> QED BY <2>2
<1>2. /\ unit # None => States(value, entry.value, value.rawUom)
      /\ unit = None /\ value.rawUom = None => States(value, entry.value, value.rawUom)
      /\ unit = None /\ value.rawUom # None =>
            /\ entry.value = Append(value.raw, value.rawUom)
            /\ States(value, value.raw, value.rawUom)
  BY VerdictOfStructure
<1> HIDE DEF unit
<1>3. CASE unit = None /\ value.rawUom # None
  <2>1. Front(entry.value) = value.raw
    BY <1>2, <1>3, UnitComesOff
  <2>2. Said(entry, fact.rawUom) = value.raw
    BY <1>1, <1>3, <2>1 DEF Said
  <2> QED BY <1>2, <1>3, <2>2, StatedIsMeant
<1>4. CASE ~ (unit = None /\ value.rawUom # None)
  <2>1. Said(entry, fact.rawUom) = entry.value
    BY <1>1, <1>4 DEF Said
  <2>2. States(value, entry.value, value.rawUom)
    BY <1>2, <1>4
  <2> QED BY <2>1, <2>2, StatedIsMeant
<1> QED BY <1>3, <1>4

LEMMA PlacesAreFinite ==
    ASSUME NEW s, IsSequence(s)
    PROVE  IsFiniteSet(DOMAIN s)
<1>1. PICK S : s \in Seq(S)
  BY DEF IsSequence
<1>2. DOMAIN s = 1 .. Len(s) /\ Len(s) \in Nat
  BY <1>1
<1> QED BY <1>2, FS_Interval

\* All the entries of the rule say what the cited one says.
LEMMA EntriesAgree ==
    ASSUME NEW a, StoredPage(a), NEW locator, Resolves(a, locator), NEW target, NEW key,
           Entry(a, locator).name \in Rules[key].names,
           Rules[key].own => Entry(a, locator).owner = target,
           Entry(a, locator).value # None,
           ~ (Cardinality(ValuesUnderRule(a, locator, Rules[key], target)) > 1)
    PROVE  /\ Entry(a, locator) \in EntriesFor(Node(a, locator), key, target)
           /\ \A e \in EntriesFor(Node(a, locator), key, target) :
                 e.value = Entry(a, locator).value /\ e.units = Entry(a, locator).units
<1> DEFINE properties == Node(a, locator).properties
           matching == {m \in DOMAIN properties :
                          /\ properties[m].name \in Rules[key].names
                          /\ Rules[key].own => properties[m].owner = target
                          /\ properties[m].value # None}
           values == {<<properties[n].value, properties[n].units>> : n \in matching}
           valueAt == [n \in matching |-> <<properties[n].value, properties[n].units>>]
           entry == Entry(a, locator)
<1>1. values = ValuesUnderRule(a, locator, Rules[key], target)
  BY DEF ValuesUnderRule, EntryMatchesRule
<1>2. EntriesFor(Node(a, locator), key, target) = {properties[n] : n \in matching}
  BY DEF EntriesFor
<1>3. locator.property \in DOMAIN properties /\ entry = properties[locator.property]
  BY DEF Resolves, Entry, Node
<1>4. locator.property \in matching
  BY <1>3
<1>5. IsFiniteSet(DOMAIN properties)
  <2>1. a.content.blocks[locator.block] \in {JsonLd[text] : text \in DOMAIN JsonLd}
    BY BlocksAreStructures DEF Resolves
  <2>2. locator.at \in DOMAIN a.content.blocks[locator.block]
    BY DEF Resolves
  <2>3. properties \in Seq(ToSet(properties))
    <3> DEFINE block == a.content.blocks[locator.block]
    <3>1. properties = block[locator.at].properties
      BY DEF Node
    <3>2. block[locator.at].properties \in Seq(ToSet(block[locator.at].properties))
      BY <2>1, <2>2, StructureAssumption
    <3> HIDE DEF properties
    <3> QED BY <3>1, <3>2
  <2> HIDE DEF properties
  <2> QED BY <2>3, PlacesAreFinite DEF IsSequence
<1>6. matching \in SUBSET (DOMAIN properties)
  OBVIOUS
<1>7. valueAt \in Surjection(matching, values)
  BY DEF Surjection
<1> HIDE DEF properties, values, valueAt, entry
<1>8. IsFiniteSet(matching)
  <2> HIDE DEF matching
  <2> QED BY <1>5, <1>6, FS_Subset
<1>9. IsFiniteSet(values)
  <2> HIDE DEF matching
  <2> QED BY <1>7, <1>8, FS_Surjection
<1> HIDE DEF matching
<1>10. <<entry.value, entry.units>> \in values
  BY <1>3, <1>4 DEF values
<1>11. values = {<<entry.value, entry.units>>}
  BY <1>1, <1>9, <1>10, OnlyOne
<1>12. ASSUME NEW n \in matching
       PROVE  properties[n].value = entry.value /\ properties[n].units = entry.units
  <2>1. <<properties[n].value, properties[n].units>> \in values
    BY DEF values
  <2> QED BY <1>11, <2>1
<1>13. /\ entry \in EntriesFor(Node(a, locator), key, target)
       /\ \A e \in EntriesFor(Node(a, locator), key, target) :
             e.value = entry.value /\ e.units = entry.units
  BY <1>2, <1>3, <1>4, <1>12
<1> QED BY <1>13 DEF entry

LEMMA UnitsAreSpellings ==
    ASSUME NEW a, StoredPage(a), NEW locator, Resolves(a, locator)
    PROVE  IsSequence(Entry(a, locator).units) /\ None \notin ToSet(Entry(a, locator).units)
<1> DEFINE block == a.content.blocks[locator.block]
           properties == block[locator.at].properties
<1>1. /\ block \in {JsonLd[text] : text \in DOMAIN JsonLd}
      /\ locator.at \in DOMAIN block /\ locator.property \in DOMAIN properties
  BY BlocksAreStructures DEF Resolves
<1>2. \A n \in DOMAIN properties :
         /\ properties[n].units \in Seq(ToSet(properties[n].units))
         /\ None \notin ToSet(properties[n].units)
  BY <1>1, StructureAssumption
<1>3. Entry(a, locator) = properties[locator.property]
  BY DEF Entry
<1> HIDE DEF block, properties
<1> QED BY <1>1, <1>2, <1>3 DEF IsSequence

LEMMA StructureStatesTheFact ==
    ASSUME NEW f, Evidenced(f), f.fact.locator.kind = "jsonld"
    PROVE  StructureStates(f)
<1> PICK answer \in Answers :
      \E c \in BoundCandidates(answer, f.page, f.identity.target) :
          /\ VerifyCandidate(c, f.page, f.identity) = FactVerified
          /\ f.fact = Fact(c, f.page, f.identity)
  BY DEF Evidenced
<1> PICK c \in BoundCandidates(answer, f.page, f.identity.target) :
          /\ VerifyCandidate(c, f.page, f.identity) = FactVerified
          /\ f.fact = Fact(c, f.page, f.identity)
  OBVIOUS
<1> DEFINE locator == c.locator
           entry == Entry(f.page, locator)
           entries == EntriesFor(Node(f.page, locator), c.key, f.identity.target)
<1>1. /\ f.fact.locator = locator /\ f.fact.key = c.key /\ f.fact.means = c.value.means
      /\ f.fact.rawUom = c.value.rawUom /\ f.fact.target = f.identity.target
  BY DEF Fact
<1>2. /\ c.value.kind = KindOf[c.key]
      /\ VerifyJsonLd(c, f.page, f.identity, Rules[c.key]) = FactVerified
  BY <1>1, VerifiedGates
<1>3. c.excerpt # None /\ IsSequence(c.value.raw)
  BY BoundFacts
<1>4. /\ Resolves(f.page, locator) /\ entry.value = c.excerpt
      /\ entry.name \in Rules[c.key].names
      /\ Rules[c.key].own => entry.owner = f.identity.target
      /\ ~ (Cardinality(ValuesUnderRule(f.page, locator, Rules[c.key], f.identity.target)) > 1)
      /\ StructuredVerdict(c.value, entry) = FactVerified
  BY <1>2, VerifiedStructure
<1>5. StoredPage(f.page)
  BY DEF Evidenced
<1>6. /\ entry \in entries
      /\ \A e \in entries : e.value = entry.value /\ e.units = entry.units
  BY <1>3, <1>4, <1>5, EntriesAgree
<1>7. IsSequence(entry.units) /\ None \notin ToSet(entry.units)
  BY <1>4, <1>5, UnitsAreSpellings
<1> HIDE DEF locator, entry
<1>8. Means(Said(entry, f.fact.rawUom), f.fact)
  BY <1>1, <1>2, <1>3, <1>4, <1>7, EntryMeansTheFact
<1>9. \A e \in entries : Said(e, f.fact.rawUom) = Said(entry, f.fact.rawUom)
  BY <1>6 DEF Said
<1> HIDE DEF entries
<1>10. entries # {} /\ \A e \in entries : Means(Said(e, f.fact.rawUom), f.fact)
  BY <1>6, <1>8, <1>9
<1>11. entries = EntriesFor(f.page.content.blocks[f.fact.locator.block][f.fact.locator.at],
                            f.fact.key, f.fact.target)
  BY <1>1 DEF entries, Node, locator
<1> QED BY <1>10, <1>11 DEF StructureStates

LEMMA VerdictOfText ==
    ASSUME NEW c, NEW a, NEW rule, VerifyText(c, a, rule) = FactVerified
    PROVE  LET text == BoundText(a, c.locator)
               rest == Tail(text)
               value == c.value
           IN  /\ text # None
               /\ ~ (LabelsIn(text, rule) > 1) /\ text[1] \in rule.labels
               /\ value.rawUom # None =>
                     /\ rest = Append(value.raw, value.rawUom)
                     /\ States(value, value.raw, value.rawUom)
               /\ value.rawUom = None => States(value, rest, value.rawUom)
<1>1. \A reason : Unverified(reason) # FactVerified
  BY DEF Unverified, Verdict, FactVerified
<1> QED BY <1>1 DEF VerifyText, CombinedValue

\* One label in a text, and it is the first word, so none in the rest.
LEMMA NoOtherLabel ==
    ASSUME NEW text, IsSequence(text), text # << >>, NEW rule, text[1] \in rule.labels,
           ~ (LabelsIn(text, rule) > 1)
    PROVE  \A n \in DOMAIN Tail(text) : Tail(text)[n] \notin rule.labels
<1> DEFINE labelled == {n \in DOMAIN text : text[n] \in rule.labels}
<1>1. PICK S : text \in Seq(S)
  BY DEF IsSequence
<1>2. /\ Len(text) \in Nat /\ DOMAIN text = 1 .. Len(text) /\ 1 \in DOMAIN text
      /\ DOMAIN Tail(text) = 1 .. Len(text) - 1
      /\ \A n \in 1 .. Len(text) - 1 : Tail(text)[n] = text[n + 1]
  BY <1>1
<1>3. 1 \in labelled /\ labelled \in SUBSET (1 .. Len(text))
  BY <1>2
<1>4. ~ (Cardinality(labelled) > 1)
  BY DEF LabelsIn
<1> HIDE DEF labelled
<1>5. IsFiniteSet(1 .. Len(text))
  BY <1>2, FS_Interval
<1>6. IsFiniteSet(labelled)
  BY <1>3, <1>5, FS_Subset
<1>7. labelled = {1}
  BY <1>3, <1>4, <1>6, OnlyOne
<1>8. ASSUME NEW n \in DOMAIN Tail(text), Tail(text)[n] \in rule.labels
      PROVE  FALSE
  <2>1. n \in 1 .. Len(text) - 1 /\ n + 1 \in 1 .. Len(text) /\ n + 1 # 1
    BY <1>2
  <2>2. text[n + 1] \in rule.labels
    BY <1>2, <1>8, <2>1
  <2>3. n + 1 \in labelled
    BY <1>2, <2>1, <2>2 DEF labelled
  <2> QED BY <1>7, <2>1, <2>3
<1> QED BY <1>8

LEMMA TextStatesTheFact ==
    ASSUME NEW f, Evidenced(f), f.fact.locator.kind # "jsonld"
    PROVE  TextStates(f)
<1> PICK answer \in Answers :
      \E c \in BoundCandidates(answer, f.page, f.identity.target) :
          /\ VerifyCandidate(c, f.page, f.identity) = FactVerified
          /\ f.fact = Fact(c, f.page, f.identity)
  BY DEF Evidenced
<1> PICK c \in BoundCandidates(answer, f.page, f.identity.target) :
          /\ VerifyCandidate(c, f.page, f.identity) = FactVerified
          /\ f.fact = Fact(c, f.page, f.identity)
  OBVIOUS
<1> DEFINE rule == Rules[f.fact.key]
           fragments == f.page.content.fragments
           text == BoundText(f.page, c.locator)
<1>1. /\ f.fact.locator = c.locator /\ f.fact.key = c.key /\ f.fact.means = c.value.means
      /\ f.fact.rawUom = c.value.rawUom
  BY DEF Fact
<1>2. /\ c.value.kind = KindOf[c.key]
      /\ VerifyText(c, f.page, rule) = FactVerified
  BY <1>1, VerifiedGates
<1>3. /\ text # None /\ ~ (LabelsIn(text, rule) > 1) /\ text[1] \in rule.labels
      /\ c.value.rawUom # None =>
            /\ Tail(text) = Append(c.value.raw, c.value.rawUom)
            /\ States(c.value, c.value.raw, c.value.rawUom)
      /\ c.value.rawUom = None => States(c.value, Tail(text), c.value.rawUom)
  BY <1>2, VerdictOfText
<1>4. IsSequence(c.value.raw) /\ c.locator.kind = "text"
  BY <1>1, BoundFacts
<1>5. PICK fragment \in ToSet(fragments) :
         /\ fragment.start = c.locator.start /\ fragment.stop = c.locator.stop
         /\ fragment.text = text
         /\ IsSequence(fragment.text) /\ fragment.text # << >>
  <2> DEFINE found == FragmentsAt(f.page, c.locator)
  <2>1. text = IF found = {} THEN None ELSE (CHOOSE g \in found : TRUE).text
    BY <1>4 DEF BoundText
  <2>2. PICK g \in found : g.text = text
    <3> HIDE DEF found, text
    <3> QED BY <1>3, <2>1
  <2>3. PICK n \in DOMAIN fragments :
           /\ fragments[n].start = c.locator.start /\ fragments[n].stop = c.locator.stop
           /\ fragments[n].text = text
    BY <2>2 DEF FragmentsAt
  <2> QED BY <2>3 DEF Evidenced, StoredPage, ToSet
<1> DEFINE rest == Tail(fragment.text)
           value == IF f.fact.rawUom = None THEN rest ELSE Front(rest)
<1> HIDE DEF text, rule, fragments
<1>6. \A n \in DOMAIN rest : rest[n] \notin rule.labels
  BY <1>3, <1>5, NoOtherLabel
<1>7. /\ Means(value, f.fact)
      /\ f.fact.rawUom # None => Last(rest) = f.fact.rawUom
  <2>1. CASE f.fact.rawUom = None
    BY <1>1, <1>2, <1>3, <1>5, <2>1, StatedIsMeant
  <2>2. CASE f.fact.rawUom # None
    <3>1. rest = Append(c.value.raw, c.value.rawUom)
      BY <1>1, <1>3, <1>5, <2>2
    <3>2. Front(rest) = c.value.raw /\ Last(rest) = c.value.rawUom
      BY <1>4, <3>1, UnitComesOff
    <3> QED BY <1>1, <1>2, <1>3, <2>2, <3>2, StatedIsMeant
  <2> QED BY <2>1, <2>2
<1> QED BY <1>1, <1>3, <1>5, <1>6, <1>7 DEF TextStates, rule, fragments

\* Whatever a model answers, a fact is what the page states where it is cited: the
\* value every entry of the product gives for the attribute, or the whole of a
\* visible text behind its one label (verification/html_attributes.py).
THEOREM FactsAreWhatPagesState == Spec => []FactsAreStated
<1>1. FactsInv => FactsAreStated
  BY StructureStatesTheFact, TextStatesTheFact DEF FactsInv, FactsAreStated
<1>2. EveryInv => FactsAreStated
  BY <1>1 DEF EveryInv, EvidenceInv
<1> QED BY <1>2, EveryInvInitially, EveryInvPreserved, PTL DEF Spec
=================================================================================
