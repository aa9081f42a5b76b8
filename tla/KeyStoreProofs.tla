---------------------------- MODULE KeyStoreProofs ----------------------------
(***************************************************************************)
(* Proofs about KeyStore, for texts of any length and blocks in any order. *)
(***************************************************************************)
EXTENDS KeyStore, SequenceTheorems, WellFoundedInduction, TLAPS

-----------------------------------------------------------------------------
(***************************************************************************)
(* The first of a set, and texts.                                          *)
(***************************************************************************)

LEMMA FirstIs ==
  ASSUME NEW I, I \subseteq Nat, I # {}
  PROVE  First(I) \in I /\ \A j \in I : First(I) <= j
<1> DEFINE R == OpToRel(<, Nat)
<1>1. IsWellFoundedOn(R, Nat)
  BY NatLessThanWellFounded
<1>2. R = {ss \in Nat \X Nat : ss[1] < ss[2]}
  BY DEF OpToRel
<1> HIDE DEF R
<1>3. PICK i \in I : \A j \in I : <<j, i>> \notin R
  BY <1>1, WFMin
<1>4. \A j \in I : ~ (j < i)
  BY <1>2, <1>3
<1>5. \A j \in I : i <= j
  BY <1>4
<1> QED
  BY <1>3, <1>5 DEF First

LEMMA FirstUnique ==
  ASSUME NEW I, I \subseteq Nat, NEW i \in I, \A j \in I : i <= j
  PROVE  First(I) = i
<1>1. First(I) \in I /\ \A j \in I : First(I) <= j
  BY FirstIs
<1>2. First(I) <= i /\ i <= First(I)
  BY <1>1
<1>3. First(I) \in Nat /\ i \in Nat
  BY <1>1
<1> QED
  BY <1>2, <1>3

\* What is PEM is the text itself, and never from DER.
LEMMA PemIsText ==
  ASSUME text \in Texts, Pem(Bytes)
  PROVE  /\ Bytes = text /\ Bytes \in Seq(Line)
         /\ \A i \in 1..Len(Bytes) : Bytes[i] \in Line
<1>1. text \in Seq(Line)
  BY TextsAssumption
<1>2. \A x : ~ Pem(<<[is |-> "der", object |-> x]>>)
  BY DEF Pem, Is
<1>3. ~ Pem(<<>>)
  BY DEF Pem
<1> QED
  BY <1>1, <1>2, <1>3 DEF Bytes, Material

-----------------------------------------------------------------------------
(***************************************************************************)
(* Types.                                                                  *)
(***************************************************************************)

LEMMA FromDerType ==
  ASSUME NEW ls \in Seq(Line), NEW kind
  PROVE  FromDer(ls, kind) \in Pairs \cup {Error}
<1>1. CASE Whole(ls)
  <2>0. Len(ls) = 1 /\ ls[1].is \in {"base64", "der"}
    BY <1>1 DEF Whole
  <2>1. ls[1] \in Line
    BY <2>0
  <2>2. ls[1].object.pair \in Pairs
    BY <2>0, <2>1 DEF Line, Objects
  <2> QED
    BY <2>2 DEF FromDer
<1> QED
  BY <1>1 DEF FromDer

LEMMA LoadKeyBlockType ==
  ASSUME NEW b \in Block, b.label \in KeyLabels, NEW pw
  PROVE  LoadKeyBlock(b, pw) \in Pairs \cup {Error}
<1>1. b.lines \in Seq(Line)
  BY DEF Block
<1> QED
  BY <1>1, FromDerType DEF LoadKeyBlock, Decrypt, KeyLabels

LEMMA ResultTypes ==
  ASSUME NEW bs \in Seq(Block), NEW pw
  PROVE  CertIn(bs) \in Pairs \cup {Error} /\ KeyIn(bs, pw) \in Pairs \cup {Error}
<1>1. \A L \in SUBSET Labels : Labelled(bs, L) # {} =>
        First(Labelled(bs, L)) \in 1..Len(bs) /\ bs[First(Labelled(bs, L))].label \in L
  BY FirstIs DEF Labelled
<1>2. CertIn(bs) \in Pairs \cup {Error}
  <2> DEFINE n == First(Labelled(bs, {"CERTIFICATE"}))
  <2>1. CASE Labelled(bs, {"CERTIFICATE"}) # {}
    <3>1. n \in 1..Len(bs)
      BY <1>1, <2>1 DEF Labels
    <3> HIDE DEF n
    <3>2. bs[n] \in Block
      BY <3>1
    <3>4. bs[n].lines \in Seq(Line)
      BY <3>2 DEF Block
    <3>3. FromDer(bs[n].lines, "Certificate") \in Pairs \cup {Error}
      BY <3>4, FromDerType
    <3> QED
      BY <2>1, <3>3 DEF CertIn, n
  <2> QED
    BY <2>1 DEF CertIn
<1>3. KeyIn(bs, pw) \in Pairs \cup {Error}
  <2> DEFINE n == First(Labelled(bs, KeyLabels))
  <2>1. CASE Labelled(bs, KeyLabels) # {}
    <3>1. n \in 1..Len(bs) /\ bs[n].label \in KeyLabels
      BY <1>1, <2>1 DEF Labels
    <3>2. bs[n] \in Block
      BY <3>1
    <3> HIDE DEF n
    <3>3. LoadKeyBlock(bs[n], pw) \in Pairs \cup {Error}
      BY <3>1, <3>2, LoadKeyBlockType
    <3> QED
      BY <2>1, <3>3 DEF KeyIn, n
  <2> QED
    BY <2>1 DEF KeyIn
<1> QED
  BY <1>2, <1>3

LEMMA DerTypes ==
  ASSUME NEW ls \in Seq(Line), NEW pw
  PROVE  KeyFromDer(ls, pw) \in Pairs \cup {Error}
<1>1. ASSUME NEW kind, FromDer(ls, kind) # Error PROVE ls[1].object.pair = FromDer(ls, kind)
  BY <1>1 DEF FromDer
<1> QED
  BY <1>1, FromDerType DEF KeyFromDer, Decrypt

LEMMA TypesInit == Init => TypeOK
BY TextsAssumption DEF Init, TypeOK, Block

\* What is parsed is a pair or an error.
LEMMA ParseGives ==
  ASSUME TypeOK, Parse
  PROVE  cert' \in Pairs \cup {Error} /\ key' \in Pairs \cup {Error}
<1>0. Len(text) \in Nat /\ text \in Seq(Line)
  BY TextsAssumption DEF TypeOK
<1>1. CASE Pem(Bytes)
  BY <1>1, ResultTypes DEF Parse, TypeOK
<1>2. CASE ~ Pem(Bytes)
  <2> DEFINE der == IF Len(Bytes) = 1 /\ Is(Bytes, 1, "der") THEN Bytes ELSE <<>>
  <2>1. Bytes \in Seq(Line)
    <3>1. ASSUME Decodes(text), Len(text) = 1
          PROVE  <<[is |-> "der", object |-> text[1].object]>> \in Seq(Line)
      <4>1. text[1] \in Line /\ text[1].is = "base64"
        BY <1>0, <3>1 DEF Decodes, Is
      <4>2. text[1].object \in Objects
        BY <4>1 DEF Line
      <4>3. [is |-> "der", object |-> text[1].object] \in Line
        BY <4>2 DEF Line
      <4> QED
        BY <4>3
    <3> QED
      BY <1>0, <3>1 DEF Bytes, Material
  <2>2. der \in Seq(Line)
    BY <2>1
  <2>3. cert' = FromDer(der, "Certificate") /\ key' = KeyFromDer(der, password)
    BY <1>2 DEF Parse
  <2> QED
    BY <2>2, <2>3, FromDerType, DerTypes
<1> QED
  BY <1>1, <1>2

LEMMA TypesStep == TypeOK /\ [Next]_vars => TypeOK'
<1> SUFFICES ASSUME TypeOK, [Next]_vars PROVE TypeOK'
  OBVIOUS
<1>0. Len(text) \in Nat /\ text \in Seq(Line)
  BY TextsAssumption DEF TypeOK
<1>1. CASE Parse
  BY <1>1, ParseGives DEF Parse, TypeOK
<1>2. CASE UNCHANGED vars
  BY <1>2 DEF vars, TypeOK
<1>3. CASE Reading
  <2>0. /\ Bytes = text
        /\ \A i \in 1..Len(text) : text[i] \in Line
    BY <1>3, PemIsText DEF Reading, TypeOK
  <2>1. CASE SkipLine
    BY <1>0, <2>0, <2>1 DEF SkipLine, Given, TypeOK
  <2>2. CASE BeginBlock
    <3>1. text[at] \in Line /\ text[at].is = "begin"
      BY <2>0, <2>2 DEF BeginBlock, Is, TypeOK
    <3>2. text[at].label \in Labels
      BY <3>1 DEF Line
    <3> QED
      BY <1>0, <2>0, <2>2, <3>2 DEF BeginBlock, Given, TypeOK
  <2>3. CASE TakeLine
    BY <1>0, <2>0, <2>3 DEF TakeLine, Given, TypeOK
  <2>4. CASE EndBlock
    <3>1. [label |-> label, lines |-> lines] \in Block
      BY <2>4 DEF EndBlock, Block, TypeOK
    <3>2. blocks' \in Seq(Block)
      BY <2>4, <3>1 DEF EndBlock, Closed, TypeOK
    <3> QED
      BY <1>0, <2>0, <2>4, <3>2 DEF EndBlock, Given, TypeOK
  <2> QED
    BY <1>1, <1>2, <2>1, <2>2, <2>3, <2>4 DEF Next
<1>4. CASE ~ Reading
  BY <1>4, <1>1, <1>2 DEF Next, SkipLine, BeginBlock, TakeLine, EndBlock
<1> QED
  BY <1>3, <1>4

\* TypeOK: what is read stays within the text, and what comes of it is a pair
\* or an error.
THEOREM TypesCorrect == Spec => []TypeOK
BY TypesInit, TypesStep, PTL DEF Spec
-----------------------------------------------------------------------------
(***************************************************************************)
(* The blocks read are those that begin before a line, as far as the first *)
(* block of any set of labels goes.                                        *)
(***************************************************************************)

BlockAt(t, i) == [label |-> t[i].label, lines |-> Body(t, i)]

Before(t, L, n) == {i \in Found(t, L) : i < n}

Matches(bs, t, L, n) ==
  /\ Labelled(bs, L) = {} <=> Before(t, L, n) = {}
  /\ Before(t, L, n) # {} => bs[First(Labelled(bs, L))] = BlockAt(t, First(Before(t, L, n)))

Read(bs, t, n) == \A L \in SUBSET Labels : Matches(bs, t, L, n)

\* Before the line n no block is open, or one, which began at s.
NoneOpen(t, n) ==
  n > Len(t) \/ \A j \in 1..(n - 1) : Is(t, j, "begin") => \E k \in j..(n - 1) : Is(t, k, "end")

Open(t, s, n) ==
  s \in Starts(t) /\ s < n /\ \A k \in s..(n - 1) : ~ Is(t, k, "end")

\* The next block, kept or dropped.
LEMMA ReadOneMore ==
  ASSUME NEW t \in Seq(Line), NEW bs \in Seq(Block), NEW s \in Starts(t), Read(bs, t, s),
         NEW n \in Nat, s < n, \A i \in Starts(t) : i < n => i <= s
  PROVE  Read(Closed(bs, BlockAt(t, s)), t, n)
<1> DEFINE b == BlockAt(t, s)
           cs == Closed(bs, b)
           m == Len(bs) + 1
<1>0. /\ s \in 1..Len(t) /\ m \in Nat /\ Starts(t) \subseteq Nat
      /\ b.label = t[s].label /\ b.lines = Body(t, s)
  BY DEF Starts, BlockAt
<1> SUFFICES ASSUME NEW L \in SUBSET Labels PROVE Matches(cs, t, L, n)
  BY DEF Read
<1> DEFINE old == Before(t, L, s)
           new == Before(t, L, n)
           lold == Labelled(bs, L)
           lnew == Labelled(cs, L)
<1>1. Matches(bs, t, L, s)
  BY DEF Read
<1>2. /\ old \subseteq Nat /\ \A i \in old : i < s
      /\ lold \subseteq Nat /\ \A i \in lold : i \in 1..Len(bs)
  BY <1>0 DEF Before, Found, Labelled
<1>3. new = old \cup (IF b.label \in L /\ Decodes(b.lines) THEN {s} ELSE {})
  BY <1>0 DEF Before, Found
<1>4. lnew = lold \cup (IF b.label \in L /\ Decodes(b.lines) THEN {m} ELSE {})
  <2>1. CASE Decodes(b.lines)
    <3>1. cs = Append(bs, b)
      BY <2>1 DEF Closed
    <3>2. Len(cs) = m /\ cs[m] = b /\ \A i \in 1..Len(bs) : cs[i] = bs[i]
      BY <3>1
    <3> HIDE DEF cs, b
    <3> QED
      BY <2>1, <3>2 DEF Labelled
  <2>2. CASE ~ Decodes(b.lines)
    BY <2>2 DEF Closed
  <2> QED
    BY <2>1, <2>2
<1>5. \A i \in 1..Len(bs) : cs[i] = bs[i]
  BY DEF Closed
<1>6. Decodes(b.lines) => cs[m] = b
  BY DEF Closed
<1> HIDE DEF cs, b
<1>7. CASE ~ (b.label \in L /\ Decodes(b.lines))
  <2>1. new = old /\ lnew = lold
    BY <1>3, <1>4, <1>7
  <2>2. old # {} => First(lold) \in 1..Len(bs)
    BY <1>1, <1>2, FirstIs DEF Matches
  <2> QED
    BY <1>1, <1>5, <2>1, <2>2 DEF Matches
<1>8. CASE b.label \in L /\ Decodes(b.lines)
  <2>1. new = old \cup {s} /\ lnew = lold \cup {m}
    BY <1>3, <1>4, <1>8
  <2> HIDE DEF old, new, lold, lnew
  <2>2. CASE old = {}
    <3>1. lold = {}
      BY <1>1, <2>2 DEF Matches, old, lold
    <3>2. new = {s} /\ lnew = {m}
      BY <2>1, <2>2, <3>1
    <3>3. First(new) = s /\ First(lnew) = m
      BY <1>0, <3>2 DEF First
    <3> QED
      BY <1>6, <1>8, <3>2, <3>3 DEF Matches, new, lnew, b
  <2>3. CASE old # {}
    <3>1. lold # {}
      BY <1>1, <2>3 DEF Matches, old, lold
    <3>2. First(old) \in old /\ First(lold) \in lold
          /\ (\A j \in old : First(old) <= j) /\ (\A j \in lold : First(lold) <= j)
      BY <1>2, <2>3, <3>1, FirstIs
    <3>3. First(new) = First(old)
      <4>1. First(old) \in new /\ new \subseteq Nat
        BY <1>0, <1>2, <2>1, <3>2
      <4>2. First(old) < s /\ First(old) \in Nat /\ s \in Nat
        BY <1>0, <1>2, <3>2
      <4>3. \A j \in new : First(old) <= j
        BY <2>1, <3>2, <4>2
      <4> QED
        BY <4>1, <4>3, FirstUnique
    <3>4. First(lnew) = First(lold)
      <4>1. First(lold) \in lnew /\ lnew \subseteq Nat
        BY <1>0, <1>2, <2>1, <3>2
      <4>0. First(lold) \in 1..Len(bs)
        BY <1>2, <3>2, Zenon
      <4>2. First(lold) < m /\ First(lold) \in Nat /\ m \in Nat
        BY <1>0, <4>0
      <4>3. \A j \in lnew : First(lold) <= j
        BY <2>1, <3>2, <4>2
      <4> QED
        BY <4>1, <4>3, FirstUnique
    <3>5. bs[First(lold)] = BlockAt(t, First(old))
      BY <1>1, <2>3 DEF Matches, old, lold
    <3>6. cs[First(lold)] = bs[First(lold)]
      BY <1>2, <1>5, <3>2
    <3>7. new # {} /\ lnew # {}
      BY <2>1
    <3> QED
      BY <3>3, <3>4, <3>5, <3>6, <3>7 DEF Matches, new, lnew
  <2> QED
    BY <2>2, <2>3
<1> QED
  BY <1>7, <1>8

\* Where no block begins, nothing more is read.
LEMMA ReadNothing ==
  ASSUME NEW t \in Seq(Line), NEW bs, NEW n \in Nat, Read(bs, t, n), n \notin Starts(t)
  PROVE  Read(bs, t, n + 1)
<1>1. \A L : Before(t, L, n + 1) = Before(t, L, n)
  BY DEF Before, Found, Starts
<1> QED
  BY <1>1 DEF Read, Matches

\* The block that is open ends at the first line that ends one, or with the
\* text, and no other one begins before that.
LEMMA OpenEnds ==
  ASSUME NEW t \in Seq(Line), NEW s, NEW n \in 1..(Len(t) + 1), Open(t, s, n),
         n <= Len(t) => Is(t, n, "end")
  PROVE  /\ First(Ends(t, s)) = n
         /\ \A i \in Starts(t) : i < n + 1 => i <= s
<1>0. s \in 1..Len(t) /\ s < n /\ Is(t, s, "begin") /\ Len(t) \in Nat
  BY DEF Open, Starts
<1>1. First(Ends(t, s)) = n
  <2>1. n \in Ends(t, s) /\ Ends(t, s) \subseteq Nat
    BY <1>0 DEF Ends
  <2>2. \A k \in Ends(t, s) : n <= k
    BY <1>0 DEF Ends, Open
  <2> QED
    BY <2>1, <2>2, FirstUnique
<1>2. ASSUME NEW i \in Starts(t), i < n + 1, s < i PROVE FALSE
  <2>1. i \in 1..Len(t) /\ Is(t, i, "begin")
    BY DEF Starts
  <2>2. PICK k \in s..i : Is(t, k, "end")
    BY <1>0, <1>2, <2>1 DEF Starts
  <2>3. k = n /\ k = i
    BY <1>0, <1>2, <2>1, <2>2 DEF Open
  <2> QED
    BY <2>1, <2>2, <2>3 DEF Is
<1> QED
  BY <1>0, <1>1, <1>2 DEF Starts
-----------------------------------------------------------------------------
(***************************************************************************)
(* The loop.                                                               *)
(***************************************************************************)

OpenBlock(s) ==
  /\ Open(Bytes, s, at) /\ label = Bytes[s].label /\ lines = SubSeq(Bytes, s + 1, at - 1)
  /\ Read(blocks, Bytes, s)

LoopInv ==
  (cert = NoLabel /\ Pem(Bytes)) =>
    /\ label = NoLabel => NoneOpen(Bytes, at) /\ Read(blocks, Bytes, at)
    /\ label # NoLabel => \E s \in Starts(Bytes) : OpenBlock(s)

IInv == TypeOK /\ LoopInv /\ FirstOfEachDecides

LEMMA InvInit == Init => IInv
<1> SUFFICES ASSUME Init PROVE IInv
  OBVIOUS
<1>1. TypeOK
  BY TypesInit
<1>2. LoopInv
  <2>1. \A t, L : Before(t, L, 1) = {}
    BY DEF Before, Found, Starts
  <2>2. \A L : Labelled(<<>>, L) = {}
    BY DEF Labelled
  <2>3. \A t : Read(<<>>, t, 1) /\ NoneOpen(t, 1)
    BY <2>1, <2>2 DEF Read, Matches, NoneOpen
  <2> QED
    BY <2>3 DEF LoopInv, Init
<1>3. FirstOfEachDecides
  BY DEF FirstOfEachDecides, Init
<1> QED
  BY <1>1, <1>2, <1>3 DEF IInv

\* What holds while the lines are read.
LEMMA ReadingFacts ==
  ASSUME TypeOK, Reading
  PROVE  /\ Bytes = text /\ Bytes \in Seq(Line) /\ Len(Bytes) \in Nat
         /\ at \in 1..(Len(Bytes) + 1) /\ blocks \in Seq(Block)
         /\ cert = NoLabel /\ Pem(Bytes)
         /\ \A i \in 1..Len(Bytes) : Bytes[i] \in Line
<1>1. text \in Texts /\ Pem(Bytes) /\ cert = NoLabel
  BY DEF TypeOK, Reading
<1>2. Bytes = text /\ Bytes \in Seq(Line) /\ \A i \in 1..Len(Bytes) : Bytes[i] \in Line
  BY <1>1, PemIsText
<1> QED
  BY <1>1, <1>2 DEF TypeOK

LEMMA LoopSkips == TypeOK /\ LoopInv /\ SkipLine => LoopInv'
<1> SUFFICES ASSUME TypeOK, LoopInv, SkipLine PROVE LoopInv'
  OBVIOUS
<1>1. /\ Bytes \in Seq(Line) /\ at \in 1..Len(Bytes) /\ cert = NoLabel /\ Pem(Bytes)
      /\ label = NoLabel /\ ~ Is(Bytes, at, "begin")
  BY ReadingFacts DEF SkipLine
<1>2. /\ Bytes' = Bytes /\ at' = at + 1
      /\ UNCHANGED <<label, blocks>>
  BY DEF SkipLine, Given, Bytes
<1>3. at \notin Starts(Bytes)
  BY <1>1 DEF Starts
<1>4. Read(blocks, Bytes, at + 1)
  BY <1>1, <1>3, ReadNothing DEF LoopInv
<1>5. NoneOpen(Bytes, at + 1)
  BY <1>1 DEF LoopInv, NoneOpen
<1> QED
  BY <1>1, <1>2, <1>4, <1>5 DEF LoopInv

LEMMA LoopBegins == TypeOK /\ LoopInv /\ BeginBlock => LoopInv'
<1> SUFFICES ASSUME TypeOK, LoopInv, BeginBlock PROVE LoopInv'
  OBVIOUS
<1>1. /\ Bytes \in Seq(Line) /\ at \in 1..Len(Bytes) /\ cert = NoLabel /\ Pem(Bytes)
      /\ label = NoLabel /\ Is(Bytes, at, "begin") /\ Bytes[at] \in Line
  BY ReadingFacts DEF BeginBlock
<1>2. /\ Bytes' = Bytes /\ at' = at + 1 /\ label' = Bytes[at].label /\ lines' = <<>>
      /\ UNCHANGED blocks
  BY DEF BeginBlock, Given, Bytes
<1>3. Bytes[at].label # NoLabel
  <2>1. Bytes[at].label \in Labels
    BY <1>1 DEF Line, Is
  <2> QED
    BY <2>1, NoLabelAssumption
<1>4. NoneOpen(Bytes, at) /\ Read(blocks, Bytes, at)
  BY <1>1 DEF LoopInv
<1>5. at \in Starts(Bytes)
  BY <1>1, <1>4 DEF NoneOpen, Starts
<1>6. Open(Bytes, at, at + 1)
  BY <1>1, <1>5 DEF Open, Is
<1>7. SubSeq(Bytes, at + 1, at + 1 - 1) = <<>>
  BY <1>1, SubSeqEmpty
<1>8. ASSUME NEW s \in Starts(Bytes), s = at PROVE OpenBlock(s)'
  BY <1>2, <1>4, <1>6, <1>7, <1>8 DEF OpenBlock
<1> QED
  BY <1>2, <1>3, <1>5, <1>8 DEF LoopInv

LEMMA LoopTakes == TypeOK /\ LoopInv /\ TakeLine => LoopInv'
<1> SUFFICES ASSUME TypeOK, LoopInv, TakeLine PROVE LoopInv'
  OBVIOUS
<1>1. /\ Bytes \in Seq(Line) /\ at \in 1..Len(Bytes) /\ cert = NoLabel /\ Pem(Bytes)
      /\ label # NoLabel /\ ~ Is(Bytes, at, "end")
  BY ReadingFacts DEF TakeLine
<1>2. /\ Bytes' = Bytes /\ at' = at + 1 /\ lines' = Append(lines, Bytes[at])
      /\ UNCHANGED <<label, blocks>>
  BY DEF TakeLine, Given, Bytes
<1>3. PICK s \in Starts(Bytes) : OpenBlock(s)
  BY <1>1 DEF LoopInv
<1>4. s \in 1..Len(Bytes) /\ s < at
  BY <1>3 DEF OpenBlock, Open, Starts
<1>5. Open(Bytes, s, at + 1)
  BY <1>1, <1>3, <1>4 DEF OpenBlock, Open
<1>6. Append(lines, Bytes[at]) = SubSeq(Bytes, s + 1, at)
  <2>1. SubSeq(Bytes, s + 1, at) = SubSeq(Bytes, s + 1, at - 1) \o <<Bytes[at]>>
    BY <1>1, <1>4, SubSeqRecursiveSecond
  <2>2. lines = SubSeq(Bytes, s + 1, at - 1) /\ lines \in Seq(Line) /\ Bytes[at] \in Line
    BY <1>1, <1>3 DEF OpenBlock, TypeOK
  <2>3. lines \o <<Bytes[at]>> = Append(lines, Bytes[at])
    BY <2>2, AppendIsConcat
  <2> QED
    BY <2>1, <2>2, <2>3
<1>7. OpenBlock(s)'
  <2>1. label = Bytes[s].label /\ Read(blocks, Bytes, s)
    BY <1>3 DEF OpenBlock
  <2>2. at' - 1 = at
    BY <1>1, <1>2
  <2>3. lines' = SubSeq(Bytes', s + 1, at' - 1)
    BY <1>2, <1>6, <2>2
  <2> QED
    BY <1>2, <1>5, <2>1, <2>3 DEF OpenBlock
<1> QED
  BY <1>1, <1>2, <1>7 DEF LoopInv

LEMMA LoopEnds == TypeOK /\ LoopInv /\ EndBlock => LoopInv'
<1> SUFFICES ASSUME TypeOK, LoopInv, EndBlock PROVE LoopInv'
  OBVIOUS
<1>1. /\ Bytes \in Seq(Line) /\ at \in 1..(Len(Bytes) + 1) /\ cert = NoLabel /\ Pem(Bytes)
      /\ label # NoLabel /\ (at <= Len(Bytes) => Is(Bytes, at, "end")) /\ blocks \in Seq(Block)
      /\ Len(Bytes) \in Nat
  BY ReadingFacts DEF EndBlock
<1>2. /\ Bytes' = Bytes /\ at' = (IF at > Len(Bytes) THEN at ELSE at + 1) /\ label' = NoLabel
      /\ blocks' = Closed(blocks, [label |-> label, lines |-> lines])
  BY DEF EndBlock, Given, Bytes
<1>3. PICK s \in Starts(Bytes) : OpenBlock(s)
  BY <1>1 DEF LoopInv
<1>4. s < at /\ Open(Bytes, s, at)
  BY <1>3 DEF OpenBlock, Open
<1>5. First(Ends(Bytes, s)) = at /\ \A i \in Starts(Bytes) : i < at + 1 => i <= s
  BY <1>1, <1>4, OpenEnds
<1>6. [label |-> label, lines |-> lines] = BlockAt(Bytes, s)
  BY <1>3, <1>5 DEF OpenBlock, BlockAt, Body
<1>7. Read(blocks', Bytes, at')
  <2>1. at' \in Nat /\ s < at' /\ \A i \in Starts(Bytes) : i < at' => i <= s
    BY <1>1, <1>2, <1>4, <1>5 DEF Starts
  <2>2. Read(blocks, Bytes, s)
    BY <1>3 DEF OpenBlock
  <2> QED
    BY <1>1, <1>2, <1>6, <2>1, <2>2, ReadOneMore
<1>8. NoneOpen(Bytes, at')
  BY <1>1, <1>2 DEF NoneOpen
<1> QED
  BY <1>2, <1>7, <1>8 DEF LoopInv

LEMMA LoopIsParsed == TypeOK /\ LoopInv /\ Parse => FirstOfEachDecides'
<1> SUFFICES ASSUME TypeOK, LoopInv, Parse PROVE FirstOfEachDecides'
  OBVIOUS
<1>0. UNCHANGED <<source, password, text>>
  BY DEF Parse
<1> SUFFICES ASSUME Pem(Bytes) PROVE FirstOfEachDecides'
  <2>1. Bytes' = Bytes
    BY <1>0 DEF Bytes
  <2> QED
    BY <2>1 DEF FirstOfEachDecides
<1>1. /\ Bytes' = Bytes /\ password' = password
      /\ label = NoLabel /\ at > Len(Bytes) /\ cert = NoLabel
      /\ cert' = CertIn(blocks) /\ key' = KeyIn(blocks, password)
  BY <1>0 DEF Parse, Bytes
<1>2. Read(blocks, Bytes, at)
  BY <1>1 DEF LoopInv
<1>3. at \in Nat /\ Len(Bytes) \in Nat
  BY ReadingFacts, <1>1 DEF Reading
<1>4. \A L : Before(Bytes, L, at) = Found(Bytes, L)
  BY <1>1, <1>3 DEF Before, Found, Starts
<1>5. \A L \in SUBSET Labels :
        /\ Labelled(blocks, L) = {} <=> Found(Bytes, L) = {}
        /\ Found(Bytes, L) # {} => blocks[First(Labelled(blocks, L))] = BlockAt(Bytes, First(Found(Bytes, L)))
  BY <1>2, <1>4 DEF Read, Matches
<1>6. \A i : BlockAt(Bytes, i).lines = Body(Bytes, i)
  BY DEF BlockAt
<1>7. cert' = IF Found(Bytes, {"CERTIFICATE"}) = {} THEN Error
              ELSE FromDer(Body(Bytes, First(Found(Bytes, {"CERTIFICATE"}))), "Certificate")
  <2>1. {"CERTIFICATE"} \in SUBSET Labels
    BY DEF Labels
  <2> QED
    BY <1>1, <1>5, <1>6, <2>1 DEF CertIn
<1>8. key' = IF Found(Bytes, KeyLabels) = {} THEN Error
             ELSE LoadKeyBlock(BlockAt(Bytes, First(Found(Bytes, KeyLabels))), password)
  <2>1. KeyLabels \in SUBSET Labels
    BY DEF Labels
  <2> QED
    BY <1>1, <1>5, <2>1 DEF KeyIn
<1> QED
  BY <1>1, <1>7, <1>8 DEF FirstOfEachDecides, BlockAt

LEMMA InvStep == IInv /\ [Next]_vars => IInv'
<1> SUFFICES ASSUME IInv, [Next]_vars PROVE IInv'
  OBVIOUS
<1>0. TypeOK /\ LoopInv /\ FirstOfEachDecides /\ TypeOK'
  BY TypesStep DEF IInv
<1>1. CASE SkipLine \/ BeginBlock \/ TakeLine \/ EndBlock
  <2>1. cert' = cert /\ cert = NoLabel
    BY <1>1 DEF SkipLine, BeginBlock, TakeLine, EndBlock, Given, Reading
  <2>2. LoopInv'
    BY <1>0, <1>1, LoopSkips, LoopBegins, LoopTakes, LoopEnds
  <2> QED
    BY <1>0, <2>1, <2>2 DEF IInv, FirstOfEachDecides
<1>2. CASE Parse
  <2>1. cert' # NoLabel
    BY <1>0, <1>2, NoLabelAssumption, ParseGives
  <2> QED
    BY <1>0, <1>2, <2>1, LoopIsParsed DEF IInv, LoopInv
<1>3. CASE UNCHANGED vars
  BY <1>0, <1>3 DEF vars, IInv, LoopInv, FirstOfEachDecides, OpenBlock, Bytes
<1> QED
  BY <1>1, <1>2, <1>3 DEF Next

LEMMA InvHolds == Spec => []IInv
BY InvInit, InvStep, PTL DEF Spec

\* FirstOfEachDecides: for any text, the loop over its lines comes to the same
\* certificate and key as looking for the first block of each label.
THEOREM FirstDecides == Spec => []FirstOfEachDecides
<1>1. IInv => FirstOfEachDecides
  BY DEF IInv
<1> QED
  BY <1>1, InvHolds, PTL
-----------------------------------------------------------------------------
(***************************************************************************)
(* What is left of a bundle.                                               *)
(***************************************************************************)

Begins(l) == [is |-> "begin", label |-> l]

Of(kind, p) == [is |-> "base64", object |-> [kind |-> kind, pair |-> p, whole |-> TRUE]]

Stop == [is |-> "end"]

LEMMA BundleLines ==
  ASSUME NEW p
  PROVE  /\ Len(Bundle(p)) = 6
         /\ Bundle(p)[1] = Begins("CERTIFICATE")
         /\ Bundle(p)[2] = Of("Certificate", p)
         /\ Bundle(p)[3] = Stop
         /\ Bundle(p)[4] = Begins("PRIVATE KEY")
         /\ Bundle(p)[5] = Of("PKCS8", p)
         /\ Bundle(p)[6] = Stop
BY DEF Bundle, Begins, Of, Stop

LEMMA BundleKinds ==
  ASSUME NEW p
  PROVE  /\ Bundle(p)[1].is = "begin" /\ Bundle(p)[1].label = "CERTIFICATE"
         /\ Bundle(p)[2].is = "base64"
         /\ Bundle(p)[3].is = "end"
         /\ Bundle(p)[4].is = "begin" /\ Bundle(p)[4].label = "PRIVATE KEY"
         /\ Bundle(p)[5].is = "base64"
         /\ Bundle(p)[6].is = "end"
<1>1. \A l : Begins(l).is = "begin" /\ Begins(l).label = l
  BY DEF Begins
<1>2. Of("Certificate", p).is = "base64" /\ Of("PKCS8", p).is = "base64"
  BY DEF Of
<1>3. Stop.is = "end"
  BY DEF Stop
<1> QED
  BY <1>1, <1>2, <1>3, BundleLines

\* A line that is left begins a block where the bundle does, and a whole
\* object is one of the bundle.
LEMMA LeftLines ==
  ASSUME NEW p, NEW t \in Seq(Line), LeftOf(t, Bundle(p)), NEW i \in 1..Len(t)
  PROVE  /\ i \in 1..6
         /\ t[i].is = "begin" => t[i] = Bundle(p)[i] /\ i \in {1, 4}
         /\ t[i].is = "base64" /\ t[i].object.whole => t[i] = Bundle(p)[i] /\ i \in {2, 5}
         /\ t[i].is # "der"
<1>1. i \in 1..6 /\ Len(t) \in Nat /\ (t[i] = Bundle(p)[i] \/ t[i] \in Pieces(Bundle(p)[i]))
  <2>1. Len(Bundle(p)) = 6
    BY BundleLines
  <2>2. Len(t) <= 6 /\ Len(t) \in Nat
    BY <2>1 DEF LeftOf
  <2> QED
    BY <2>2 DEF LeftOf
<1>2. CASE t[i] = Bundle(p)[i]
  <2>1. i = 1 \/ i = 2 \/ i = 3 \/ i = 4 \/ i = 5 \/ i = 6
    BY <1>1
  <2> QED
    BY <1>1, <1>2, <2>1, BundleKinds
<1>3. CASE t[i] \in Pieces(Bundle(p)[i])
  BY <1>1, <1>3 DEF Pieces
<1> QED
  BY <1>1, <1>2, <1>3

\* A block of what is left that is read with success holds the object that
\* follows its first line in the bundle.
LEMMA LeftBlocks ==
  ASSUME NEW p, NEW t \in Seq(Line), LeftOf(t, Bundle(p)), NEW i \in Starts(t), NEW kind,
         FromDer(Body(t, i), kind) # Error
  PROVE  i \in {1, 4} /\ t[i] = Bundle(p)[i] /\ FromDer(Body(t, i), kind) = p
<1> DEFINE e == First(Ends(t, i))
<1>1. i \in 1..Len(t) /\ t[i].is = "begin" /\ Len(t) \in Nat
  BY DEF Starts, Is
<1>2. i \in {1, 4} /\ t[i] = Bundle(p)[i]
  BY <1>1, LeftLines
<1>3. e \in i..(Len(t) + 1)
  <2>1. Ends(t, i) # {} /\ Ends(t, i) \subseteq Nat /\ Ends(t, i) \subseteq i..(Len(t) + 1)
    BY <1>1 DEF Ends
  <2> QED
    BY <2>1, FirstIs
<1>4. Whole(Body(t, i))
  BY DEF FromDer
<1> HIDE DEF e
<1>5. /\ Len(Body(t, i)) = (IF i + 1 <= e - 1 THEN e - 1 - (i + 1) + 1 ELSE 0)
      /\ \A j \in 1..(e - 1 - (i + 1) + 1) : Body(t, i)[j] = t[i + 1 + j - 1]
  <2>1. \A j \in (i + 1)..(e - 1) : t[j] \in Line
    BY <1>1, <1>3
  <2>2. Body(t, i) = SubSeq(t, i + 1, e - 1)
    BY DEF Body, e
  <2>3. i + 1 \in Int /\ e - 1 \in Int
    BY <1>1, <1>3
  <2> QED
    BY <2>1, <2>2, <2>3, SubSeqProperties
<1>6. e = i + 2 /\ Body(t, i)[1] = t[i + 1] /\ i + 1 \in 1..Len(t)
  <2>1. Len(Body(t, i)) = 1
    BY <1>4 DEF Whole
  <2>0. e \in Int /\ i \in Int
    BY <1>1, <1>3
  <2>5. i + 1 <= e - 1 /\ e - 1 - (i + 1) + 1 = 1
    BY <1>5, <2>1
  <2>2. e = i + 2
    BY <2>0, <2>5
  <2>3. Body(t, i)[1] = t[i + 1 + 1 - 1]
    BY <1>1, <1>5, <2>2
  <2>4. i + 1 + 1 - 1 = i + 1
    BY <1>1
  <2> QED
    BY <1>1, <1>3, <2>2, <2>3, <2>4
<1>7. t[i + 1].is = "base64" /\ t[i + 1].object.whole
  BY <1>4, <1>6, LeftLines DEF Whole
<1>8. t[i + 1] = Bundle(p)[i + 1]
  BY <1>6, <1>7, LeftLines
<1>9. t[i + 1].object.pair = p
  <2>0. Bundle(p)[2] = Of("Certificate", p) /\ Bundle(p)[5] = Of("PKCS8", p)
    BY BundleLines
  <2>1. CASE i = 1
    <3>1. t[i + 1] = Bundle(p)[2]
      BY <1>8, <2>1
    <3> QED
      BY <2>0, <3>1 DEF Of
  <2>2. CASE i = 4
    <3>1. t[i + 1] = Bundle(p)[5]
      BY <1>8, <2>2
    <3> QED
      BY <2>0, <3>1 DEF Of
  <2> QED
    BY <1>2, <2>1, <2>2
<1> QED
  BY <1>2, <1>6, <1>9 DEF FromDer

\* A block of one line.
LEMMA OneLine ==
  ASSUME NEW t \in Seq(Line), NEW i \in 1..Len(t), i + 2 <= Len(t),
         Is(t, i, "begin"), Is(t, i + 1, "base64"), Is(t, i + 2, "end")
  PROVE  Len(Body(t, i)) = 1 /\ Body(t, i)[1] = t[i + 1] /\ Decodes(Body(t, i))
<1>0. Len(t) \in Nat
  OBVIOUS
<1>1. First(Ends(t, i)) = i + 2
  <2>1. i + 2 \in Ends(t, i) /\ Ends(t, i) \subseteq Nat
    BY <1>0 DEF Ends
  <2>2. ASSUME NEW k \in Ends(t, i) PROVE i + 2 <= k
    <3>1. k \in Nat /\ i <= k /\ k # i /\ k # i + 1
      BY <1>0 DEF Ends, Is
    <3> QED
      BY <3>1
  <2> QED
    BY <2>1, <2>2, FirstUnique
<1>2. Body(t, i) = SubSeq(t, i + 1, i + 1)
  <2>1. i + 2 - 1 = i + 1
    BY <1>0
  <2> QED
    BY <1>1, <2>1 DEF Body
<1>3. \A j \in (i + 1)..(i + 1) : t[j] \in Line
  BY <1>0
<1>4. i + 1 \in Int /\ i + 1 - (i + 1) + 1 = 1 /\ i + 1 + 1 - 1 = i + 1
  BY <1>0
<1>5. /\ Len(SubSeq(t, i + 1, i + 1)) = 1
      /\ \A j \in 1..1 : SubSeq(t, i + 1, i + 1)[j] = t[i + 1 + j - 1]
  BY <1>3, <1>4, SubSeqProperties
<1>6. Len(Body(t, i)) = 1 /\ Body(t, i)[1] = t[i + 1]
  BY <1>2, <1>4, <1>5
<1> QED
  BY <1>6 DEF Decodes, Is

\* A whole bundle has two blocks, which hold what was written.
LEMMA WholeBundle ==
  ASSUME NEW p, NEW t \in Seq(Line), t = Bundle(p)
  PROVE  /\ Pem(t)
         /\ Found(t, {"CERTIFICATE"}) = {1} /\ FromDer(Body(t, 1), "Certificate") = p
         /\ Found(t, KeyLabels) = {4} /\ FromDer(Body(t, 4), "PKCS8") = p
         /\ t[4].label = "PRIVATE KEY"
<1>0. Len(t) = 6
  BY BundleLines
<1>1. /\ Is(t, 1, "begin") /\ Is(t, 2, "base64") /\ Is(t, 3, "end")
      /\ Is(t, 4, "begin") /\ Is(t, 5, "base64") /\ Is(t, 6, "end")
      /\ t[1].label = "CERTIFICATE" /\ t[4].label = "PRIVATE KEY"
      /\ t[2] = Of("Certificate", p) /\ t[5] = Of("PKCS8", p)
  BY BundleLines, BundleKinds DEF Is
<1>2. 1 \in 1..Len(t) /\ 4 \in 1..Len(t)
  BY <1>0
<1>3. Starts(t) = {1, 4}
  <2>1. \A i \in 1..6 : Is(t, i, "begin") => i \in {1, 4}
    <3>1. \A i \in 1..6 : i = 1 \/ i = 2 \/ i = 3 \/ i = 4 \/ i = 5 \/ i = 6
      OBVIOUS
    <3> QED
      BY <1>1, <3>1 DEF Is
  <2>2. 1 \in Starts(t)
    <3>1. 1..(1 - 1) = {}
      OBVIOUS
    <3> QED
      BY <1>1, <1>2, <3>1, Zenon DEF Starts
  <2>3. 4 \in Starts(t)
    <3>2. \A j \in 1..(4 - 1) : 3 \in j..4
      OBVIOUS
    <3> QED
      BY <1>1, <1>2, <3>2, Zenon DEF Starts
  <2> QED
    BY <1>0, <2>1, <2>2, <2>3 DEF Starts
<1>4. Len(Body(t, 1)) = 1 /\ Body(t, 1)[1] = t[2] /\ Decodes(Body(t, 1))
  <2>1. 1 \in 1..Len(t) /\ 1 + 1 = 2 /\ 1 + 2 = 3 /\ 3 <= Len(t)
    BY <1>0
  <2> QED
    BY <1>1, <2>1, OneLine
<1>5. Len(Body(t, 4)) = 1 /\ Body(t, 4)[1] = t[5] /\ Decodes(Body(t, 4))
  <2>1. 4 \in 1..Len(t) /\ 4 + 1 = 5 /\ 4 + 2 = 6 /\ 6 <= Len(t)
    BY <1>0
  <2> QED
    BY <1>1, <2>1, OneLine
<1>6. Found(t, {"CERTIFICATE"}) = {1} /\ Found(t, KeyLabels) = {4}
  BY <1>1, <1>3, <1>4, <1>5 DEF Found, KeyLabels
<1>7. \A kind : /\ Of(kind, p).is = "base64" /\ Of(kind, p).object.whole
                /\ Of(kind, p).object.kind = kind /\ Of(kind, p).object.pair = p
  BY DEF Of
<1>8. FromDer(Body(t, 1), "Certificate") = p /\ FromDer(Body(t, 4), "PKCS8") = p
  <2>1. ASSUME NEW ls, NEW kind, Len(ls) = 1, ls[1] = Of(kind, p)
        PROVE  FromDer(ls, kind) = p
    BY <1>7, <2>1 DEF FromDer, Whole
  <2> QED
    BY <1>1, <1>4, <1>5, <2>1
<1>9. Pem(t)
  <2>1. ASSUME NEW i \in 1..Len(t) PROVE ~ Is(t, i, "der")
    <3>1. LeftOf(t, Bundle(p))
      BY <1>0 DEF LeftOf
    <3> QED
      BY <3>1, LeftLines DEF Is
  <2> QED
    BY <1>1, <1>2, <2>1, Zenon DEF Pem
<1> QED
  BY <1>1, <1>6, <1>8, <1>9

\* Bytes that are neither PEM nor DER are refused.
NeitherIsRefused ==
  (cert # NoLabel /\ ~ Pem(Bytes) /\ ~ (Len(Bytes) = 1 /\ Is(Bytes, 1, "der"))) => cert = Error

LEMMA NeitherInit == Init => NeitherIsRefused
BY DEF Init, NeitherIsRefused

LEMMA NeitherStep == NeitherIsRefused /\ [Next]_vars => NeitherIsRefused'
<1> SUFFICES ASSUME NeitherIsRefused, [Next]_vars PROVE NeitherIsRefused'
  OBVIOUS
<1>1. CASE SkipLine \/ BeginBlock \/ TakeLine \/ EndBlock
  BY <1>1 DEF SkipLine, BeginBlock, TakeLine, EndBlock, Given, Reading, NeitherIsRefused
<1>2. CASE Parse
  <2>1. Bytes' = Bytes
    BY <1>2 DEF Parse, Bytes
  <2>2. FromDer(<<>>, "Certificate") = Error
    BY DEF FromDer, Whole
  <2> QED
    BY <1>2, <2>1, <2>2 DEF Parse, NeitherIsRefused
<1>3. CASE UNCHANGED vars
  BY <1>3 DEF vars, NeitherIsRefused, Bytes
<1> QED
  BY <1>1, <1>2, <1>3 DEF Next

LEMMA LeftIsRefused == IInv /\ NeitherIsRefused => HalfWrittenFilesAreRefused
<1> SUFFICES ASSUME IInv, NeitherIsRefused, NEW p \in Pairs,
                    cert # NoLabel, source = "file", LeftOf(text, Bundle(p))
             PROVE  /\ (cert = p /\ key = p) \/ Error \in {cert, key}
                    /\ text = Bundle(p) => cert = p /\ key = p
  BY DEF HalfWrittenFilesAreRefused
<1>1. Bytes = text /\ text \in Seq(Line) /\ FirstOfEachDecides
  BY TextsAssumption DEF IInv, TypeOK, Bytes, Material
<1>2. \A i \in 1..Len(text) : ~ Is(text, i, "der")
  BY <1>1, LeftLines DEF Is
<1>3. CASE ~ Pem(text)
  <2>1. cert = Error
    BY <1>1, <1>2, <1>3 DEF NeitherIsRefused
  <2>2. text # Bundle(p)
    BY <1>1, <1>3, WholeBundle
  <2> QED
    BY <2>1, <2>2
<1>4. CASE Pem(text)
  <2> DEFINE certs == Found(text, {"CERTIFICATE"})
             keys == Found(text, KeyLabels)
             i == First(certs)
             j == First(keys)
  <2>1. /\ cert = IF certs = {} THEN Error ELSE FromDer(Body(text, i), "Certificate")
        /\ key = IF keys = {} THEN Error
                 ELSE LoadKeyBlock([label |-> text[j].label, lines |-> Body(text, j)], password)
    BY <1>1, <1>4 DEF FirstOfEachDecides
  <2>2. /\ certs \subseteq Starts(text) /\ certs \subseteq Nat
        /\ keys \subseteq Starts(text) /\ keys \subseteq Nat
    BY <1>1 DEF Found, Starts
  <2>3. cert = Error \/ cert = p
    <3>1. CASE cert # Error
      <4>1. i \in Starts(text)
        BY <2>1, <2>2, <3>1, FirstIs
      <4> HIDE DEF i
      <4> QED
        BY <1>1, <2>1, <3>1, <4>1, LeftBlocks
    <3> QED
      BY <3>1
  <2>4. key = Error \/ key = p
    <3>1. CASE key # Error
      <4>1. j \in Starts(text)
        BY <2>1, <2>2, <3>1, FirstIs
      <4>0. text[j].label \in KeyLabels
        <5>1. j \in keys
          BY <2>1, <2>2, <3>1, FirstIs
        <5> QED
          BY <5>1 DEF Found
      <4> DEFINE b == [label |-> text[j].label, lines |-> Body(text, j)]
      <4>2. b.lines = Body(text, j) /\ b.label \in KeyLabels
        BY <4>0
      <4>3. key = LoadKeyBlock(b, password)
        BY <2>1, <3>1
      <4> HIDE DEF j, b
      <4>4. \E kind : key = FromDer(b.lines, kind)
        BY <3>1, <4>2, <4>3 DEF LoadKeyBlock, Decrypt, KeyLabels
      <4>5. PICK kind : key = FromDer(Body(text, j), kind)
        BY <4>2, <4>4
      <4> QED
        BY <1>1, <3>1, <4>1, <4>5, LeftBlocks
    <3> QED
      BY <3>1
  <2>5. CASE text = Bundle(p)
    <3>1. certs = {1} /\ keys = {4} /\ text[4].label = "PRIVATE KEY"
          /\ FromDer(Body(text, 1), "Certificate") = p /\ FromDer(Body(text, 4), "PKCS8") = p
      BY <1>1, <2>5, WholeBundle
    <3>2. First({1}) = 1 /\ First({4}) = 4
      BY FirstUnique
    <3>3. LoadKeyBlock([label |-> "PRIVATE KEY", lines |-> Body(text, 4)], password) = p
      BY <3>1 DEF LoadKeyBlock
    <3> QED
      BY <2>1, <3>1, <3>2, <3>3
  <2> QED
    BY <2>3, <2>4, <2>5
<1> QED
  BY <1>3, <1>4

\* HalfWrittenFilesAreRefused: whatever is left of the file that write_ca_pem
\* was writing, it is refused or gives the CA that was being written.
THEOREM HalfWrittenRefused == Spec => []HalfWrittenFilesAreRefused
BY InvHolds, NeitherInit, NeitherStep, LeftIsRefused, PTL DEF Spec
=============================================================================
