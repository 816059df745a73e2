-------------------------- MODULE HttpParserProofs --------------------------
(***************************************************************************)
(* The safety properties of HttpParser for any number of header lines, any *)
(* length of the body and any size of the buffer.                          *)
(***************************************************************************)
EXTENDS HttpParser, Induction, SequenceTheorems

Names == {"length", "other"}
HeadUnits == {"request", "invalid", "length", "other", CR, LF}
Units == HeadUnits \cup {"byte"}

\* The lines of a header section: a name, CR or not, LF.
Section(h) ==
    /\ h \in Seq(HeadUnits)
    /\ h # <<>> => h[1] \in Names /\ h[Len(h)] = LF
    /\ \A i \in 1..Len(h) - 1 :
        /\ h[i] \in Names => h[i + 1] \in {CR, LF}
        /\ h[i] = CR => h[i + 1] = LF
        /\ h[i] = LF => h[i + 1] \in Names
    /\ \A i \in 1..Len(h) : h[i] \notin {"request", "invalid"}

LEMMA LineUnits ==
    ASSUME NEW k \in {"length", "other", "broken"}
    PROVE  Section(Line(k)) /\ Line(k) # <<>>
<1>1. CASE k = "broken"
  BY <1>1 DEF Line, Section, Names, HeadUnits, CR, LF
<1>2. CASE k \in {"length", "other"}
  <2>1. Line(k) = <<k, CR, LF>>
    BY <1>2 DEF Line
  <2> QED
    BY <1>2, <2>1 DEF Section, Names, HeadUnits, CR, LF
<1> QED
  BY <1>1, <1>2

LEMMA SectionLine ==
    ASSUME NEW h, Section(h), NEW l, Section(l), l # <<>>
    PROVE  Section(h \o l)
<1>1. /\ h \in Seq(HeadUnits) /\ l \in Seq(HeadUnits)
      /\ Len(h) \in Nat /\ Len(l) \in Nat \ {0}
  BY EmptySeq, LenProperties DEF Section
<1>2. /\ h \o l \in Seq(HeadUnits) /\ Len(h \o l) = Len(h) + Len(l)
      /\ \A i \in 1..Len(h) + Len(l) :
            (h \o l)[i] = IF i <= Len(h) THEN h[i] ELSE l[i - Len(h)]
  BY <1>1, ConcatProperties
<1>3. h \o l # <<>>
  BY <1>1, <1>2
<1>4. CASE h = <<>>
  BY <1>1, <1>4, ConcatEmptySeq
<1>5. CASE h # <<>>
  <2> DEFINE s == h \o l
             n == Len(h)
  <2> HIDE DEF s
  <2>1. n >= 1
    BY <1>1, <1>5, EmptySeq
  <2>2. s[1] \in Names /\ s[n + Len(l)] = LF
    BY <1>1, <1>2, <1>5, <2>1 DEF Section, s
  <2>3. ASSUME NEW i \in 1..n + Len(l) - 1
        PROVE  /\ s[i] \in Names => s[i + 1] \in {CR, LF}
               /\ s[i] = CR => s[i + 1] = LF
               /\ s[i] = LF => s[i + 1] \in Names
    <3>1. CASE i < n
      <4>1. i \in 1..Len(h) - 1 /\ s[i] = h[i] /\ s[i + 1] = h[i + 1]
        BY <1>1, <1>2, <3>1 DEF s
      <4> QED
        BY <4>1 DEF Section
    <3>2. CASE i = n
      <4>1. s[i] = LF /\ s[i + 1] = l[1] /\ l[1] \in Names
        BY <1>1, <1>2, <1>5, <2>1, <3>2 DEF s, Section
      <4> QED
        BY <4>1 DEF Names, CR, LF
    <3>3. CASE i > n
      <4>1. i - n \in 1..Len(l) - 1 /\ s[i] = l[i - n] /\ s[i + 1] = l[(i - n) + 1]
        BY <1>1, <1>2, <3>3 DEF s
      <4> QED
        BY <4>1 DEF Section
    <3> QED
      BY <1>1, <3>1, <3>2, <3>3
  <2>4. \A i \in 1..n + Len(l) : s[i] \notin {"request", "invalid"}
    BY <1>1, <1>2 DEF Section, s
  <2> QED
    BY <1>2, <2>2, <2>3, <2>4 DEF Section, s
<1> QED
  BY <1>4, <1>5

Sections == {h \in Seq(HeadUnits) : Section(h)}

LEMMA LongerSections ==
    ASSUME NEW H \in SUBSET Sections
    PROVE  Longer(H) \in SUBSET Sections
<1>1. ASSUME NEW h \in H, NEW k \in {"length", "other", "broken"}
      PROVE  h \o Line(k) \in Sections
  <2>1. Section(h)
    BY DEF Sections
  <2>2. Section(h \o Line(k))
    BY <2>1, LineUnits, SectionLine
  <2> QED
    BY <2>2 DEF Section, Sections
<1>2. ASSUME NEW x \in Longer(H) PROVE x \in Sections
  <2>1. x \in H \/ \E h \in H, k \in {"length", "other", "broken"} : x = h \o Line(k)
    BY DEF Longer
  <2> QED
    BY <1>1, <2>1
<1> QED
  BY <1>2

\* Header sections are built line by line.
LEMMA HeadersAreSections == \A h \in Headers : Section(h)
<1> DEFINE V == SUBSET Sections
           G == [H \in V |-> Longer(H)]
           IsHeaders(g) == g = [n \in 0..MaxHeaders |-> IF n = 0 THEN {<<>>} ELSE Longer(g[n - 1])]
           c == CHOOSE g : IsHeaders(g)
<1>1. MaxHeaders \in Nat
  BY ParserAssumption
<1>2. {<<>>} \in V
  <2>1. <<>> \in Seq(HeadUnits) /\ Section(<<>>)
    BY EmptySeq DEF Section
  <2> QED
    BY <2>1 DEF Sections
<1>3. G \in [V -> V]
  BY LongerSections
<1>4. PICK f \in [0..MaxHeaders -> V] :
        f[0] = {<<>>} /\ \A n \in 1..MaxHeaders : f[n] = G[f[n - 1]]
  <2> DEFINE a == {<<>>}
  <2>1. a \in V
    BY <1>2
  <2>2. \E f \in [0..MaxHeaders -> V] : Iterates(f, a, G, MaxHeaders)
    <3> HIDE DEF a, V, G
    <3> QED
      BY <1>1, <1>3, <2>1, BoundedRecursion
  <2> QED
    BY <2>2 DEF Iterates
<1>5. ASSUME NEW n \in 1..MaxHeaders PROVE f[n] = Longer(f[n - 1])
  <2>1. n - 1 \in 0..MaxHeaders
    BY <1>1
  <2>2. f[n - 1] \in V
    BY <2>1
  <2> QED
    BY <1>4, <2>2
<1>6. IsHeaders(f)
  <2>1. \A n \in 0..MaxHeaders : n # 0 => n \in 1..MaxHeaders
    BY <1>1
  <2> QED
    BY <1>4, <1>5, <2>1
<1>7. IsHeaders(c)
  <2> HIDE DEF IsHeaders
  <2> QED
    BY <1>6
<1>8. c[0] = f[0] /\ \A n \in 1..MaxHeaders : c[n] = Longer(c[n - 1])
  <2> HIDE DEF c
  <2>1. ASSUME NEW n \in 0..MaxHeaders
        PROVE  c[n] = IF n = 0 THEN {<<>>} ELSE Longer(c[n - 1])
    BY <1>7
  <2>2. 0 \in 0..MaxHeaders /\ \A n \in 1..MaxHeaders : n \in 0..MaxHeaders /\ n # 0
    BY <1>1
  <2> HIDE DEF IsHeaders
  <2> QED
    BY <1>4, <2>1, <2>2
<1>9. c[MaxHeaders] = f[MaxHeaders]
  <2> HIDE DEF c
  <2>1. SameSteps(c, f, MaxHeaders)
    BY <1>5, <1>8 DEF SameSteps
  <2>2. \A n \in 0..MaxHeaders : c[n] = f[n]
    BY <1>1, <2>1, RecursionUnique
  <2> QED
    BY <1>1, <2>2
<1>10. Headers = c[MaxHeaders]
  BY DEF Headers
<1>11. Headers \in V
  <2> HIDE DEF c, V
  <2> QED
    BY <1>1, <1>9, <1>10
<1> QED
  BY <1>11 DEF Sections

-----------------------------------------------------------------------------

\* What a client sends: lines whose text is followed by the end of the line, the
\* empty line that ends at BodyStart, and the bytes of the body.
Shape ==
    /\ stream \in Seq(Units) /\ length \in 0..MaxBody
    /\ BodyStart \in Nat /\ BodyStart >= 4
    /\ stream[1] \in {"request", "invalid", CR}
    /\ stream[BodyStart - 2] = LF /\ stream[BodyStart - 1] = CR /\ stream[BodyStart] = LF
    /\ \A i \in 1..BodyStart : stream[i] \in HeadUnits
    /\ \A i \in BodyStart + 1..Len(stream) : stream[i] = "byte"
    /\ \A i \in 1..BodyStart - 1 :
        /\ stream[i] \in {"request", "invalid"} => i = 1 /\ stream[2] = CR
        /\ stream[i] \in Names => stream[i + 1] \in {CR, LF}
        /\ stream[i] = CR => stream[i + 1] = LF
        /\ stream[i] = LF => \/ stream[i + 1] \in Names
                             \/ stream[i + 1] = CR /\ i + 1 = BodyStart - 1
    /\ length > 0 => \E i \in 1..BodyStart : stream[i] = "length"

Active == pc \in {"read", "parse"}

\* The lines before m_start_line are parsed: they end with CR LF, and their
\* Content-length is the one kept. In the line that begins there no end of a
\* line has been passed.
InHead ==
    Active /\ m_check_state # "CHECK_STATE_CONTENT" =>
        /\ m_start_line = 0 <=> m_check_state = "CHECK_STATE_REQUESTLINE"
        /\ m_start_line < BodyStart
        /\ m_start_line > 0 => stream[m_start_line] = LF /\ stream[1] = "request"
        /\ \A i \in m_start_line + 1..m_checked_idx : stream[i] \notin {CR, LF}
        /\ \A i \in 2..m_start_line : stream[i] = LF => stream[i - 1] = CR
        /\ m_content_length =
               IF \E i \in 1..m_start_line : stream[i] = "length" THEN length ELSE 0

\* The body is searched from behind the empty line.
InBody ==
    Active /\ m_check_state = "CHECK_STATE_CONTENT" =>
        /\ ~FirstBad /\ ~Broken
        /\ m_content_length = length /\ length > 0
        /\ BodyStart <= m_start_line

\* When the body comes in one piece, it is there or not, and m_checked_idx stays
\* where it begins.
WholeBody ==
    /\ m_read_idx \notin BodyStart + 1..Len(stream) - 1
    /\ Active /\ m_check_state = "CHECK_STATE_CONTENT" =>
        /\ m_checked_idx = BodyStart
        /\ pc = "parse" /\ line_status # "LINE_OK" => m_read_idx = BodyStart

LoopStatus == pc = "parse" => \/ line_status = "LINE_OK"
                             \/ m_check_state = "CHECK_STATE_CONTENT"

IInv ==
    /\ TypeOK
    /\ Shape
    /\ InHead
    /\ InBody
    /\ LoopStatus
    /\ NeverEarly
    /\ ~SplitsBody => WholeBody /\ CompleteIsAnswered

-----------------------------------------------------------------------------

\* The units of a stream, by their place.
LEMMA StreamUnits ==
    ASSUME NEW first \in {"request", "invalid", "blank"}, NEW h, Section(h), NEW n \in Nat,
           stream = Line(first) \o h \o Line("blank") \o Body(n)
    PROVE  LET p == Len(Line(first))
               q == Len(h)
           IN  /\ p \in {2, 3} /\ q \in Nat
               /\ stream \in Seq(Units) /\ Len(stream) = p + q + 2 + n
               /\ \A i \in 1..p : stream[i] = Line(first)[i]
               /\ \A i \in 1..q : stream[p + i] = h[i]
               /\ stream[p + q + 1] = CR /\ stream[p + q + 2] = LF
               /\ \A i \in p + q + 3..Len(stream) : stream[i] = "byte"
<1> DEFINE l == Line(first)
           p == Len(l)
           q == Len(h)
           a == l \o h
           e == Line("blank")
           b == a \o e
           y == Body(n)
<1>1. l \in Seq(Units) /\ p \in {2, 3}
  <2>1. l = <<CR, LF>> \/ \E k \in {"request", "invalid"} : l = <<k, CR, LF>>
    BY DEF Line
  <2>2. {CR, LF, "request", "invalid"} \subseteq Units
    BY DEF Units, HeadUnits
  <2> HIDE DEF l
  <2>3. CASE l = <<CR, LF>>
    BY <2>2, <2>3
  <2>4. CASE \E k \in {"request", "invalid"} : l = <<k, CR, LF>>
    <3>1. PICK k \in {"request", "invalid"} : l = <<k, CR, LF>>
      BY <2>4
    <3>2. k \in Units
      BY <2>2
    <3> QED
      BY <2>2, <3>1, <3>2
  <2> QED
    BY <2>1, <2>3, <2>4
<1>2. h \in Seq(Units) /\ q \in Nat
  BY LenProperties DEF Section, Units
<1>3. e \in Seq(Units) /\ Len(e) = 2 /\ e[1] = CR /\ e[2] = LF
  BY DEF Line, Units, HeadUnits, CR, LF
<1>4. y \in Seq(Units) /\ Len(y) = n /\ \A i \in 1..n : y[i] = "byte"
  BY DEF Body, Units, y
<1> HIDE DEF l, e, y
<1>5. /\ a \in Seq(Units) /\ Len(a) = p + q
      /\ \A i \in 1..p + q : a[i] = IF i <= p THEN l[i] ELSE h[i - p]
  BY <1>1, <1>2, ConcatProperties
<1> HIDE DEF a
<1> HIDE DEF p, q
<1>6. /\ b \in Seq(Units) /\ Len(b) = p + q + 2
      /\ \A i \in 1..p + q + 2 : b[i] = IF i <= p + q THEN a[i] ELSE e[i - (p + q)]
  <2>1. /\ b \in Seq(Units) /\ Len(b) = Len(a) + Len(e)
        /\ \A i \in 1..Len(a) + Len(e) : b[i] = IF i <= Len(a) THEN a[i] ELSE e[i - Len(a)]
    BY <1>3, <1>5, ConcatProperties
  <2> QED
    BY <1>3, <1>5, <2>1
<1> HIDE DEF b
<1>7. stream = b \o y
  BY DEF l, a, b, e, y
<1>8. /\ stream \in Seq(Units) /\ Len(stream) = p + q + 2 + n
      /\ \A i \in 1..p + q + 2 + n :
            stream[i] = IF i <= p + q + 2 THEN b[i] ELSE y[i - (p + q + 2)]
  <2>1. /\ (b \o y) \in Seq(Units) /\ Len(b \o y) = Len(b) + Len(y)
        /\ \A i \in 1..Len(b) + Len(y) :
              (b \o y)[i] = IF i <= Len(b) THEN b[i] ELSE y[i - Len(b)]
    BY <1>4, <1>6, ConcatProperties
  <2> QED
    BY <1>4, <1>6, <1>7, <2>1
<1>9. ASSUME NEW i \in 1..p PROVE stream[i] = l[i]
  <2>1. i \in 1..p + q /\ i <= p /\ i \in 1..p + q + 2 /\ i \in 1..p + q + 2 + n
    BY <1>1, <1>2
  <2>2. stream[i] = b[i]
    BY <1>1, <1>2, <1>8, <2>1
  <2>3. b[i] = a[i]
    BY <1>1, <1>2, <1>6, <2>1
  <2> QED
    BY <1>5, <2>1, <2>2, <2>3
<1>10. ASSUME NEW i \in 1..q PROVE stream[p + i] = h[i]
  <2>1. p + i \in 1..p + q /\ ~ (p + i <= p) /\ (p + i) - p = i
    BY <1>1, <1>2
  <2>2. a[p + i] = h[i]
    BY <1>5, <2>1
  <2>3. p + i \in 1..p + q + 2 /\ p + i <= p + q /\ p + i \in 1..p + q + 2 + n /\ p + i <= p + q + 2
    BY <1>1, <1>2, <2>1
  <2> QED
    BY <1>6, <1>8, <2>2, <2>3
<1>11. stream[p + q + 1] = CR /\ stream[p + q + 2] = LF
  <2>1. (p + q + 1) - (p + q) = 1 /\ (p + q + 2) - (p + q) = 2
    BY <1>1, <1>2
  <2>2. \A i \in {p + q + 1, p + q + 2} :
          i \in 1..p + q + 2 /\ i \in 1..p + q + 2 + n /\ ~ (i <= p + q) /\ i <= p + q + 2
    BY <1>1, <1>2
  <2>3. b[p + q + 1] = CR /\ b[p + q + 2] = LF
    BY <1>3, <1>6, <2>1, <2>2
  <2> QED
    BY <1>8, <2>2, <2>3
<1>12. ASSUME NEW i \in p + q + 3..Len(stream) PROVE stream[i] = "byte"
  <2>1. i \in 1..p + q + 2 + n /\ ~ (i <= p + q + 2) /\ i - (p + q + 2) \in 1..n
    BY <1>1, <1>2, <1>8
  <2> QED
    BY <1>4, <1>8, <2>1
<1> QED
  BY <1>1, <1>2, <1>8, <1>9, <1>10, <1>11, <1>12 DEF l, p, q

LEMMA InitShape == Init => Shape
<1> SUFFICES ASSUME Init PROVE Shape
  OBVIOUS
<1>1. PICK first \in {"request", "invalid", "blank"}, h \in Headers, n \in 0..MaxBody :
        /\ n > 0 => Has(h, "length")
        /\ stream = Line(first) \o h \o Line("blank") \o Body(n)
        /\ length = n
  BY DEF Init
<1>2. Section(h) /\ n \in Nat
  BY ParserAssumption, HeadersAreSections
<1> DEFINE l == Line(first)
           p == Len(l)
           q == Len(h)
<1>3. /\ p \in {2, 3} /\ q \in Nat
      /\ stream \in Seq(Units) /\ Len(stream) = p + q + 2 + n
      /\ \A i \in 1..p : stream[i] = l[i]
      /\ \A i \in 1..q : stream[p + i] = h[i]
      /\ stream[p + q + 1] = CR /\ stream[p + q + 2] = LF
      /\ \A i \in p + q + 3..Len(stream) : stream[i] = "byte"
  BY <1>1, <1>2, StreamUnits
<1>4. BodyStart = p + q + 2
  BY <1>1, <1>2, <1>3 DEF BodyStart
<1>5. /\ l[1] \in {"request", "invalid", CR}
      /\ l[p] = LF
      /\ l[1] \in {"request", "invalid"} => p = 3 /\ l[2] = CR
      /\ l[1] = CR => p = 2
  BY DEF Line, CR, LF
<1>6. h \in Seq(HeadUnits) /\ \A i \in 1..q : h[i] \in HeadUnits
  BY <1>2 DEF Section
<1>7. q > 0 => h[1] \in Names /\ h[q] = LF
  BY <1>2, <1>6 DEF Section
<1>8. /\ stream[p] = LF
      /\ p = 3 => stream[1] \in {"request", "invalid"} /\ stream[2] = CR
      /\ p = 2 => stream[1] = CR
  <2> HIDE DEF l, p
  <2>1. 1 \in 1..p /\ p \in 1..p /\ 2 \in 1..p
    BY <1>3
  <2>2. stream[1] = l[1] /\ stream[p] = l[p] /\ stream[2] = l[2]
    BY <1>3, <2>1
  <2> QED
    BY <1>3, <1>5, <2>2
<1> HIDE DEF l, p, q
<1>9. stream[p + q] = LF
  <2>1. CASE q = 0
    BY <1>3, <1>8, <2>1
  <2>2. CASE q > 0
    <3>1. q \in 1..q
      BY <1>3, <2>2
    <3> QED
      BY <1>3, <1>7, <2>2, <3>1
  <2> QED
    BY <1>3, <2>1, <2>2
<1>10. ASSUME NEW i \in 1..p + q + 2
       PROVE  i \in 1..p \/ (\E j \in 1..q : i = p + j) \/ i \in {p + q + 1, p + q + 2}
  <2>1. CASE i > p /\ i <= p + q
    <3>1. i - p \in 1..q /\ i = p + (i - p)
      BY <1>3, <2>1
    <3> QED
      BY <3>1
  <2> QED
    BY <1>3, <2>1
<1>11. ASSUME NEW i \in 1..p + q + 2 PROVE stream[i] \in HeadUnits
  <2>1. CASE i \in 1..p
    BY <1>3, <1>8, <2>1 DEF HeadUnits
  <2>2. CASE \E j \in 1..q : i = p + j
    <3>1. PICK j \in 1..q : i = p + j
      BY <2>2
    <3>2. stream[p + j] = h[j] /\ h[j] \in HeadUnits
      BY <1>3, <1>6
    <3> QED
      BY <3>1, <3>2
  <2>3. CASE i \in {p + q + 1, p + q + 2}
    BY <1>3, <2>3 DEF HeadUnits
  <2> QED
    BY <1>10, <2>1, <2>2, <2>3
<1>12. ASSUME NEW i \in 1..p + q + 1
       PROVE  /\ stream[i] \in {"request", "invalid"} => i = 1 /\ stream[2] = CR
              /\ stream[i] \in Names => stream[i + 1] \in {CR, LF}
              /\ stream[i] = CR => stream[i + 1] = LF
              /\ stream[i] = LF => \/ stream[i + 1] \in Names
                                   \/ stream[i + 1] = CR /\ i + 1 = p + q + 1
  <2>1. CASE i \in 1..p - 1
    BY <1>3, <1>8, <2>1 DEF Names, CR, LF
  <2>2. CASE i = p
    <3>1. stream[i] = LF
      BY <1>8, <2>2
    <3>2. CASE q = 0
      BY <1>3, <2>2, <3>1, <3>2 DEF Names, CR, LF
    <3>3. CASE q > 0
      <4>1. 1 \in 1..q /\ stream[p + 1] = h[1]
        BY <1>3, <3>3
      <4> QED
        BY <1>7, <2>2, <3>1, <3>3, <4>1 DEF Names, CR, LF
    <3> QED
      BY <1>3, <3>2, <3>3
  <2>3. CASE \E j \in 1..q : i = p + j
    <3>1. PICK j \in 1..q : i = p + j
      BY <2>3
    <3>2. stream[i] = h[j] /\ h[j] \notin {"request", "invalid"}
      BY <1>2, <1>3, <3>1 DEF Section, q
    <3>3. CASE j < q
      <4>1. j \in 1..q - 1 /\ j + 1 \in 1..q /\ i + 1 = p + (j + 1)
        BY <1>3, <3>1, <3>3
      <4>2. stream[i + 1] = h[j + 1]
        BY <1>3, <4>1
      <4>3. /\ h[j] \in Names => h[j + 1] \in {CR, LF}
            /\ h[j] = CR => h[j + 1] = LF
            /\ h[j] = LF => h[j + 1] \in Names
        BY <1>2, <4>1 DEF Section, q
      <4> QED
        BY <3>2, <4>2, <4>3
    <3>4. CASE j = q
      <4>1. stream[i] = LF /\ i + 1 = p + q + 1
        BY <1>3, <1>9, <3>1, <3>4
      <4> QED
        BY <1>3, <4>1 DEF Names, CR, LF
    <3> QED
      BY <1>3, <3>3, <3>4
  <2>4. CASE i = p + q + 1
    <3>1. i + 1 = p + q + 2
      BY <1>3, <2>4
    <3> QED
      BY <1>3, <2>4, <3>1 DEF Names, CR, LF
  <2>5. i \in 1..p - 1 \/ i = p \/ i = p + q + 1 \/ \E j \in 1..q : i = p + j
    BY <1>3, <1>10
  <2> QED
    BY <2>1, <2>2, <2>3, <2>4, <2>5
<1>13. ASSUME n > 0 PROVE \E i \in 1..p + q + 2 : stream[i] = "length"
  <2>1. PICK j \in 1..q : h[j] = "length"
    BY <1>1, <1>6, <1>13 DEF Has, q
  <2>2. p + j \in 1..p + q + 2 /\ stream[p + j] = "length"
    BY <1>3, <2>1
  <2> QED
    BY <2>2
<1>14. stream[1] \in {"request", "invalid", CR}
  BY <1>3, <1>8
<1>15. /\ BodyStart \in Nat /\ BodyStart >= 4
       /\ BodyStart - 2 = p + q /\ BodyStart - 1 = p + q + 1
       /\ BodyStart + 1 = p + q + 3
  BY <1>3, <1>4
<1> QED
  BY <1>1, <1>3, <1>4, <1>9, <1>11, <1>12, <1>13, <1>14, <1>15 DEF Shape

-----------------------------------------------------------------------------

\* No end of a line in the units from the place a (counted from 0) up to b.
Clear(a, b) == \A i \in a + 1..b : stream[i] \notin {CR, LF}

(***************************************************************************)
(* parse_line in the head of a request: it finds CR LF; it stops at the    *)
(* end of the units that came, or before a CR that came last; or it stops  *)
(* at an LF without CR.                                                    *)
(***************************************************************************)
FindsLine(e) ==
    /\ parse_line = <<"LINE_OK", e + 2>>
    /\ e + 2 <= m_read_idx
    /\ stream[e + 1] = CR /\ stream[e + 2] = LF

FindsNothing(e) ==
    /\ parse_line = <<"LINE_OPEN", e>>
    /\ \/ e = m_read_idx
       \/ e + 1 = m_read_idx /\ stream[e + 1] = CR

FindsBad(e) ==
    /\ parse_line = <<"LINE_BAD", e>>
    /\ e + 1 <= m_read_idx /\ 1 <= e
    /\ stream[e + 1] = LF /\ stream[e] # CR

LEMMA ParseLine ==
    ASSUME TypeOK, Shape, InHead, pc = "parse", m_check_state # "CHECK_STATE_CONTENT"
    PROVE  \E e \in m_checked_idx..m_read_idx :
              /\ Clear(m_start_line, e)
              /\ FindsLine(e) \/ FindsNothing(e) \/ FindsBad(e)
<1> USE DEF m_read_buf
<1>1. /\ m_start_line \in Nat /\ m_checked_idx \in Nat /\ m_read_idx \in Nat
      /\ m_start_line <= m_checked_idx /\ m_checked_idx <= m_read_idx
      /\ m_read_idx <= Len(stream) /\ Len(stream) \in Nat
  BY LenProperties DEF TypeOK
<1>2. Clear(m_start_line, m_checked_idx) /\ (m_start_line > 0 => stream[m_start_line] = LF)
  BY DEF InHead, Active, Clear
<1>3. CR # LF /\ stream[1] # LF
  BY DEF Shape, CR, LF
<1>4. CASE Ends = {}
  <2>1. \A i \in m_checked_idx..m_read_idx - 1 : stream[i + 1] \notin {CR, LF}
    BY <1>4 DEF Ends
  <2>2. \A i \in m_checked_idx + 1..m_read_idx :
            i - 1 \in m_checked_idx..m_read_idx - 1 /\ (i - 1) + 1 = i
    BY <1>1
  <2>3. Clear(m_checked_idx, m_read_idx)
    BY <2>1, <2>2 DEF Clear
  <2>4. Clear(m_start_line, m_read_idx)
    BY <1>1, <1>2, <2>3 DEF Clear
  <2>5. parse_line = <<"LINE_OPEN", m_read_idx>>
    BY <1>4 DEF parse_line
  <2>6. FindsNothing(m_read_idx)
    BY <2>5 DEF FindsNothing
  <2> QED
    BY <1>1, <2>4, <2>6
<1>5. CASE Ends # {}
  <2> DEFINE e == CHOOSE i \in Ends : \A j \in Ends : i <= j
  <2>1. Ends \subseteq Nat
    BY <1>1 DEF Ends
  <2>2. e \in Ends /\ \A j \in Ends : e <= j
    BY <1>5, <2>1, LeastNatural
  <2>3. /\ e \in Nat /\ m_checked_idx <= e /\ e <= m_read_idx - 1
        /\ stream[e + 1] \in {CR, LF}
    BY <1>1, <2>2 DEF Ends
  <2> HIDE DEF e
  <2>4. Clear(m_checked_idx, e)
    <3> SUFFICES ASSUME NEW i \in m_checked_idx + 1..e, stream[i] \in {CR, LF} PROVE FALSE
      BY DEF Clear
    <3>1. i - 1 \in m_checked_idx..m_read_idx - 1 /\ (i - 1) + 1 = i
      BY <1>1, <2>3
    <3>2. i - 1 \in Ends
      BY <3>1 DEF Ends
    <3> QED
      BY <1>1, <2>2, <2>3, <3>2
  <2>5. Clear(m_start_line, e)
    BY <1>1, <1>2, <2>3, <2>4 DEF Clear
  <2>6. parse_line =
          IF stream[e + 1] = LF
          THEN IF e > 1 /\ stream[(e - 1) + 1] = CR
               THEN <<"LINE_OK", e + 1>> ELSE <<"LINE_BAD", e>>
          ELSE IF e + 1 = m_read_idx THEN <<"LINE_OPEN", e>>
          ELSE IF stream[(e + 1) + 1] = LF THEN <<"LINE_OK", e + 2>>
          ELSE <<"LINE_BAD", e>>
    BY <1>5 DEF parse_line, e
  <2>7. CASE stream[e + 1] = LF
    <3>1. e >= 1
      BY <1>3, <2>3, <2>7
    <3>2. stream[e] # CR
      <4>1. CASE e = m_start_line
        BY <1>2, <1>3, <2>3, <3>1, <4>1
      <4>2. CASE e # m_start_line
        <5>1. e \in m_start_line + 1..e
          BY <1>1, <2>3, <4>2
        <5>2. stream[e] \notin {CR, LF}
          BY <2>5, <5>1 DEF Clear
        <5> QED
          BY <5>2
      <4> QED
        BY <4>1, <4>2
    <3>3. (e - 1) + 1 = e
      BY <2>3
    <3>4. FindsBad(e)
      BY <1>1, <2>3, <2>6, <2>7, <3>1, <3>2, <3>3 DEF FindsBad
    <3> QED
      BY <1>1, <2>3, <2>5, <3>4
  <2>8. CASE stream[e + 1] = CR /\ e + 1 = m_read_idx
    <3>1. FindsNothing(e)
      BY <1>3, <2>6, <2>8 DEF FindsNothing
    <3> QED
      BY <1>1, <2>3, <2>5, <3>1
  <2>9. CASE stream[e + 1] = CR /\ e + 1 # m_read_idx
    <3>1. e + 1 \in 1..Len(stream) /\ BodyStart \in Nat
      BY <1>1, <2>3 DEF Shape
    <3>2. e + 1 \in 1..BodyStart - 1
      <4>1. ~ (e + 1 \in BodyStart + 1..Len(stream))
        BY <2>9 DEF Shape, CR
      <4>2. e + 1 # BodyStart
        BY <1>3, <2>9 DEF Shape
      <4> QED
        BY <3>1, <4>1, <4>2
    <3>3. (e + 1) + 1 = e + 2
      BY <2>3
    <3>4. stream[e + 2] = LF
      BY <2>9, <3>2, <3>3 DEF Shape
    <3>5. FindsLine(e)
      BY <1>1, <1>3, <2>3, <2>6, <2>9, <3>3, <3>4 DEF FindsLine
    <3> QED
      BY <1>1, <2>3, <2>5, <3>5
  <2> QED
    BY <2>3, <2>7, <2>8, <2>9
<1> QED
  BY <1>4, <1>5

\* In the body it finds nothing.
LEMMA ParseBody ==
    ASSUME TypeOK, Shape, InBody, pc = "parse", m_check_state = "CHECK_STATE_CONTENT"
    PROVE  parse_line = <<"LINE_OPEN", m_read_idx>>
<1>1. /\ m_start_line \in Nat /\ m_checked_idx \in Nat /\ m_read_idx \in Nat
      /\ m_start_line <= m_checked_idx /\ m_read_idx <= Len(stream) /\ Len(stream) \in Nat
  BY LenProperties DEF TypeOK
<1>2. BodyStart \in Nat /\ BodyStart <= m_start_line
  BY DEF InBody, Active, Shape
<1>3. ASSUME NEW i \in m_checked_idx..m_read_idx - 1 PROVE stream[i + 1] \notin {CR, LF}
  <2>1. i + 1 \in BodyStart + 1..Len(stream)
    BY <1>1, <1>2
  <2>2. stream[i + 1] = "byte"
    BY <2>1 DEF Shape
  <2> QED
    BY <2>2 DEF CR, LF
<1>4. Ends = {}
  BY <1>3 DEF Ends, m_read_buf
<1> QED
  BY <1>4 DEF parse_line

\* The line that is found, by its first unit, in a request line or header section.
LEMMA LineFound ==
    ASSUME TypeOK, Shape, InHead, pc = "parse", m_check_state # "CHECK_STATE_CONTENT",
           NEW e \in m_checked_idx..m_read_idx, Clear(m_start_line, e), FindsLine(e)
    PROVE  /\ e + 2 <= BodyStart
           /\ \A i \in 2..e + 2 : stream[i] = LF => stream[i - 1] = CR
           /\ text = stream[m_start_line + 1]
           /\ text = CR /\ m_start_line > 0 => m_start_line = e /\ e + 2 = BodyStart
           /\ text # CR => m_start_line < e /\ e + 2 < BodyStart
           /\ text # CR => \A i \in m_start_line + 2..e + 2 : stream[i] # "length"
<1>1. /\ m_start_line \in Nat /\ m_checked_idx \in Nat /\ m_read_idx \in Nat /\ e \in Nat
      /\ m_start_line <= m_checked_idx /\ m_checked_idx <= e
      /\ e + 2 <= m_read_idx /\ m_read_idx <= Len(stream) /\ Len(stream) \in Nat
  BY LenProperties DEF TypeOK, FindsLine
<1>2. stream[e + 1] = CR /\ stream[e + 2] = LF /\ CR # LF
  BY DEF FindsLine, CR, LF
<1>3. /\ BodyStart \in Nat /\ BodyStart >= 4
      /\ stream[BodyStart - 2] = LF /\ stream[BodyStart - 1] = CR /\ stream[BodyStart] = LF
  BY DEF Shape
<1>4. /\ m_start_line < BodyStart
      /\ m_start_line > 0 => stream[m_start_line] = LF
      /\ \A i \in 2..m_start_line : stream[i] = LF => stream[i - 1] = CR
  BY DEF InHead, Active
<1>5. e + 2 <= BodyStart
  <2>1. ~ (e + 1 \in BodyStart + 1..Len(stream))
    BY <1>2 DEF Shape, CR
  <2>2. e + 1 # BodyStart
    BY <1>2, <1>3
  <2> QED
    BY <1>1, <1>3, <2>1, <2>2
<1>6. \A i \in m_start_line + 1..e : stream[i] # LF /\ stream[i] # CR
  BY DEF Clear
<1>7. ASSUME NEW i \in 2..e + 2, stream[i] = LF PROVE stream[i - 1] = CR
  <2>1. CASE i <= m_start_line
    BY <1>1, <1>4, <1>7, <2>1
  <2>2. CASE i > m_start_line
    <3>1. i = e + 2
      BY <1>1, <1>2, <1>6, <1>7, <2>2
    <3>2. i - 1 = e + 1
      BY <1>1, <3>1
    <3> QED
      BY <1>2, <3>2
  <2> QED
    BY <1>1, <2>1, <2>2
<1>8. text = stream[m_start_line + 1]
  BY DEF text, m_read_buf
<1>9. text = CR => m_start_line = e
  <2>1. m_start_line # e => m_start_line + 1 \in m_start_line + 1..e
    BY <1>1
  <2> QED
    BY <1>6, <1>8, <2>1
<1>10. text # CR => m_start_line < e
  BY <1>1, <1>2, <1>8
<1>11. ASSUME text = CR, m_start_line > 0 PROVE e + 2 = BodyStart
  <2>1. m_start_line \in 1..BodyStart - 1 /\ stream[m_start_line] = LF
    BY <1>1, <1>3, <1>4, <1>11
  <2>2. stream[m_start_line + 1] = CR
    BY <1>8, <1>11
  <2>3. stream[m_start_line + 1] \notin Names
    BY <2>2 DEF Names, CR
  <2>4. m_start_line + 1 = BodyStart - 1
    BY <2>1, <2>3 DEF Shape
  <2> QED
    BY <1>1, <1>3, <1>9, <1>11, <2>4
<1>12. ASSUME text # CR PROVE e + 2 < BodyStart
  <2>1. SUFFICES ASSUME e + 2 = BodyStart PROVE FALSE
    BY <1>1, <1>3, <1>5
  <2>2. e = BodyStart - 2 /\ e \in m_start_line + 1..e
    BY <1>1, <1>3, <1>10, <1>12, <2>1
  <2> QED
    BY <1>3, <1>6, <2>2
<1>13. ASSUME text # CR PROVE \A i \in m_start_line + 2..e + 2 : stream[i] # "length"
  <2>1. m_start_line + 1 \in 1..BodyStart - 1 /\ m_start_line + 1 \in m_start_line + 1..e
    BY <1>1, <1>3, <1>5, <1>10, <1>13
  <2>2. text \in {"request", "invalid"} \cup Names
    <3>1. text \in HeadUnits
      BY <1>3, <1>8, <2>1 DEF Shape
    <3>2. text # LF
      BY <1>6, <1>8, <2>1
    <3> QED
      BY <1>13, <3>1, <3>2 DEF HeadUnits, Names
  <2>3. stream[m_start_line + 2] \in {CR, LF}
    <3>1. (m_start_line + 1) + 1 = m_start_line + 2
      BY <1>1
    <3>2. CASE text \in Names
      BY <1>8, <2>1, <3>1, <3>2 DEF Shape
    <3>3. CASE text \in {"request", "invalid"}
      <4>1. m_start_line + 1 = 1 /\ stream[2] = CR
        BY <1>8, <2>1, <3>3 DEF Shape
      <4>2. m_start_line + 2 = 2
        BY <1>1, <4>1
      <4> QED
        BY <4>1, <4>2
    <3> QED
      BY <2>2, <3>2, <3>3
  <2>4. ~ (m_start_line + 2 \in m_start_line + 1..e)
    BY <1>6, <2>3
  <2>5. m_start_line + 2 = e + 1
    BY <1>1, <1>10, <1>13, <2>4
  <2>6. \A i \in m_start_line + 2..e + 2 : i = e + 1 \/ i = e + 2
    BY <1>1, <2>5
  <2> QED
    BY <1>2, <2>6 DEF CR, LF
<1> QED
  BY <1>5, <1>7, <1>8, <1>9, <1>10, <1>11, <1>12, <1>13

-----------------------------------------------------------------------------

LEMMA Indices ==
    ASSUME TypeOK, Shape
    PROVE  /\ m_start_line \in Nat /\ m_checked_idx \in Nat /\ m_read_idx \in Nat
           /\ m_start_line <= m_checked_idx /\ m_checked_idx <= m_read_idx
           /\ m_read_idx <= Len(stream) /\ m_read_idx <= READ_BUFFER_SIZE
           /\ Len(stream) \in Nat /\ READ_BUFFER_SIZE \in Nat
           /\ length \in Nat /\ m_content_length \in Nat /\ BodyStart \in Nat
           /\ Len(stream) = BodyStart + length
  BY LenProperties, ParserAssumption DEF TypeOK, Shape, BodyStart

LEMMA InitIInv == Init => IInv
<1> SUFFICES ASSUME Init PROVE IInv
  OBVIOUS
<1>1. Shape
  BY InitShape
<1>2. /\ stream \in Seq(Units) /\ length \in 0..MaxBody /\ Len(stream) \in Nat
      /\ BodyStart \in Nat /\ BodyStart >= 4 /\ Len(stream) = BodyStart + length
  BY <1>1, LenProperties, ParserAssumption DEF Shape, BodyStart
<1>3. Units = Texts \cup {CR, LF, "byte"}
  BY DEF Units, HeadUnits, Texts
<1>4. TypeOK
  BY <1>2, <1>3, ParserAssumption DEF Init, TypeOK
<1>5. InHead /\ InBody /\ LoopStatus /\ NeverEarly
  BY <1>2 DEF Init, InHead, InBody, LoopStatus, NeverEarly
<1>6. WholeBody
  BY <1>2 DEF Init, WholeBody
<1>7. CompleteIsAnswered
  BY <1>2 DEF Init, CompleteIsAnswered, Due
<1> QED
  BY <1>1, <1>4, <1>5, <1>6, <1>7 DEF IInv

\* The stream, and what is due for it, do not change.
LEMMA RequestStays ==
    ASSUME Shape, UNCHANGED request
    PROVE  /\ Shape' /\ BodyStart' = BodyStart
           /\ stream' = stream /\ length' = length /\ m_TRIGMode' = m_TRIGMode
           /\ FirstBad' = FirstBad /\ Broken' = Broken /\ DueAnswer' = DueAnswer
<1>1. stream' = stream /\ length' = length /\ m_TRIGMode' = m_TRIGMode
  BY DEF request
<1>2. BodyStart' = BodyStart
  BY <1>1 DEF BodyStart
<1>3. Shape'
  BY <1>1, <1>2 DEF Shape
<1>4. FirstBad' = FirstBad /\ Broken' = Broken
  BY <1>1 DEF FirstBad, Broken
<1> QED
  BY <1>1, <1>2, <1>3, <1>4 DEF DueAnswer

\* A piece of the request comes.
LEMMA ReadStep ==
    ASSUME IInv, NEW n \in 1..Len(stream), ReadOnce(n)
    PROVE  IInv'
<1> USE DEF IInv
<1>1. UNCHANGED request
  BY DEF ReadOnce
<1>2. /\ Shape' /\ BodyStart' = BodyStart
      /\ stream' = stream /\ length' = length /\ m_TRIGMode' = m_TRIGMode
      /\ FirstBad' = FirstBad /\ Broken' = Broken
  BY <1>1, RequestStays
<1>3. /\ m_read_idx' = m_read_idx + n /\ n \in Nat \ {0}
      /\ n <= READ_BUFFER_SIZE - m_read_idx /\ m_read_idx + n <= Len(stream)
      /\ ~SplitsBody => m_read_idx + n \notin BodyStart + 1..Len(stream) - 1
      /\ pc = "read" /\ pc' = "parse" /\ line_status' = "LINE_OK"
      /\ UNCHANGED <<m_checked_idx, m_start_line, m_check_state, m_content_length, answer>>
  BY Indices DEF ReadOnce, Receives
<1>4. TypeOK'
  BY <1>2, <1>3, Indices DEF TypeOK
<1>5. InHead'
  BY <1>2, <1>3 DEF InHead, Active
<1>6. InBody'
  BY <1>2, <1>3 DEF InBody, Active
<1>7. LoopStatus' /\ NeverEarly'
  BY <1>3 DEF LoopStatus, NeverEarly
<1>8. ASSUME ~SplitsBody PROVE WholeBody' /\ CompleteIsAnswered'
  <2>1. WholeBody'
    BY <1>2, <1>3, <1>8 DEF WholeBody, Active
  <2> QED
    BY <1>3, <2>1 DEF CompleteIsAnswered
<1> QED
  BY <1>2, <1>4, <1>5, <1>6, <1>7, <1>8

\* The connection is given up.
LEMMA CloseStep ==
    ASSUME IInv, BufferFull \/ \E n \in 1..Len(stream) : ReadFills(n)
    PROVE  IInv'
<1> USE DEF IInv
<1>1. UNCHANGED request
  BY DEF BufferFull, ReadFills
<1>2. /\ Shape' /\ BodyStart' = BodyStart
      /\ stream' = stream /\ length' = length /\ m_TRIGMode' = m_TRIGMode
  BY <1>1, RequestStays
<1>3. PICK n \in Nat :
        /\ m_read_idx' = m_read_idx + n
        /\ m_read_idx + n <= READ_BUFFER_SIZE /\ m_read_idx + n <= Len(stream)
        /\ ~SplitsBody => m_read_idx + n \notin BodyStart + 1..Len(stream) - 1
  <2>1. CASE BufferFull
    <3>1. m_read_idx' = m_read_idx + 0
      BY <2>1, Indices DEF BufferFull
    <3>2. ~SplitsBody => m_read_idx + 0 \notin BodyStart + 1..Len(stream) - 1
      BY Indices DEF WholeBody
    <3> QED
      BY <2>1, <3>1, <3>2, Indices DEF BufferFull
  <2>2. ASSUME NEW n \in 1..Len(stream), ReadFills(n)
        PROVE  /\ n \in Nat /\ m_read_idx' = m_read_idx + n
               /\ m_read_idx + n <= READ_BUFFER_SIZE /\ m_read_idx + n <= Len(stream)
               /\ ~SplitsBody => m_read_idx + n \notin BodyStart + 1..Len(stream) - 1
    BY <2>2, Indices DEF ReadFills, Receives
  <2> QED
    BY <2>1, <2>2
<1>4. /\ pc' = "closed"
      /\ UNCHANGED <<m_checked_idx, m_start_line, m_check_state, m_content_length,
                     line_status, answer>>
  BY DEF BufferFull, ReadFills
<1>5. TypeOK'
  BY <1>2, <1>3, <1>4, Indices DEF TypeOK
<1>6. InHead' /\ InBody' /\ LoopStatus' /\ NeverEarly'
  BY <1>4 DEF InHead, InBody, Active, LoopStatus, NeverEarly
<1>7. ASSUME ~SplitsBody PROVE WholeBody' /\ CompleteIsAnswered'
  BY <1>2, <1>3, <1>4, <1>7 DEF WholeBody, Active, CompleteIsAnswered
<1> QED
  BY <1>2, <1>5, <1>6, <1>7

\* Where parse_line stops without a line, no answer is due.
LEMMA NothingDue ==
    ASSUME IInv, pc = "parse", m_check_state # "CHECK_STATE_CONTENT",
           NEW e \in m_checked_idx..m_read_idx, Clear(m_start_line, e),
           FindsNothing(e) \/ FindsBad(e)
    PROVE  ~Due(m_read_idx)
<1> USE DEF IInv
<1>1. e \in Nat /\ m_start_line <= e /\ e <= m_read_idx
  BY Indices
<1>2. CR # LF /\ BodyStart \in Nat /\ BodyStart >= 4 /\ stream[BodyStart] = LF
  BY DEF Shape, CR, LF
<1>3. m_start_line < BodyStart /\ (m_start_line > 0 => ~FirstBad)
  BY DEF InHead, Active, FirstBad
<1>4. ASSUME NEW i \in m_start_line + 1..m_read_idx, FindsNothing(e) PROVE stream[i] # LF
  <2>1. CASE i <= e
    <3>1. i \in m_start_line + 1..e
      BY <1>1, <2>1, Indices
    <3> QED
      BY <3>1 DEF Clear
  <2>2. CASE i > e
    <3>1. i = e + 1 /\ e + 1 = m_read_idx
      BY <1>1, <1>4, <2>2, Indices DEF FindsNothing
    <3>2. stream[e + 1] = CR
      BY <1>1, <1>4, <3>1, Indices DEF FindsNothing
    <3> QED
      BY <1>2, <3>1, <3>2
  <2> QED
    BY <1>1, <2>1, <2>2, Indices
<1>5. CASE FindsBad(e)
  <2>1. e >= 1 /\ e + 1 <= m_read_idx /\ stream[e + 1] = LF /\ stream[e] # CR
    BY <1>5 DEF FindsBad
  <2>2. Broken
    <3>1. e + 1 \in 2..Len(stream) /\ (e + 1) - 1 = e
      BY <1>1, <2>1, Indices
    <3> QED
      BY <2>1, <3>1 DEF Broken
  <2>3. ~FirstBad
    <3>1. SUFFICES ASSUME m_start_line = 0 PROVE FALSE
      BY <1>3, Indices
    <3>2. \A i \in 1..e : stream[i] # CR /\ stream[i] # LF
      BY <1>1, <3>1 DEF Clear
    <3>3. stream[1] \in {"request", "invalid"}
      BY <1>1, <2>1, <3>2 DEF Shape
    <3>4. stream[2] = CR
      BY <1>2, <3>3 DEF Shape
    <3>5. e = 1
      BY <1>1, <2>1, <3>2, <3>4
    <3> QED
      BY <1>2, <2>1, <3>4, <3>5
  <2> QED
    BY <2>2, <2>3 DEF Due
<1>6. CASE FindsNothing(e)
  <2>1. CASE m_start_line > 0
    <3>1. m_read_idx # Len(stream)
      <4>1. BodyStart \in m_start_line + 1..Len(stream)
        BY <1>3, Indices
      <4> QED
        BY <1>2, <1>4, <1>6, <4>1
    <3> QED
      BY <1>3, <2>1, <3>1 DEF Due
  <2>2. CASE m_start_line = 0
    <3>1. \A i \in 1..m_read_idx : stream[i] # LF
      BY <1>4, <1>6, <2>2
    <3>2. m_read_idx # Len(stream)
      BY <1>2, <3>1, Indices
    <3> QED
      BY <3>1, <3>2 DEF Due
  <2> QED
    BY <2>1, <2>2, Indices
<1> QED
  BY <1>5, <1>6

\* process_read returns NO_REQUEST.
LEMMA NoLineStep ==
    ASSUME IInv, NoLine
    PROVE  IInv'
<1> USE DEF IInv
<1>1. UNCHANGED request
  BY DEF NoLine
<1>2. /\ Shape' /\ BodyStart' = BodyStart
      /\ stream' = stream /\ length' = length /\ m_TRIGMode' = m_TRIGMode
      /\ FirstBad' = FirstBad /\ Broken' = Broken
  BY <1>1, RequestStays
<1>3. /\ pc = "parse" /\ pc' = "read"
      /\ parse_line[1] # "LINE_OK"
      /\ line_status' = parse_line[1] /\ m_checked_idx' = parse_line[2]
      /\ UNCHANGED <<m_read_idx, m_start_line, m_check_state, m_content_length, answer>>
  BY DEF NoLine
<1>4. LoopStatus' /\ NeverEarly'
  BY <1>3 DEF LoopStatus, NeverEarly
<1>5. CASE m_check_state # "CHECK_STATE_CONTENT"
  <2>1. PICK e \in m_checked_idx..m_read_idx :
          Clear(m_start_line, e) /\ (FindsLine(e) \/ FindsNothing(e) \/ FindsBad(e))
    BY <1>3, <1>5, ParseLine
  <2>2. FindsNothing(e) \/ FindsBad(e)
    BY <1>3, <2>1 DEF FindsLine
  <2>3. line_status' \in {"LINE_OPEN", "LINE_BAD"} /\ m_checked_idx' = e
    BY <1>3, <2>2 DEF FindsNothing, FindsBad
  <2>4. e \in Nat /\ m_checked_idx <= e /\ e <= m_read_idx
    BY Indices
  <2>5. TypeOK'
    BY <1>2, <1>3, <2>3, <2>4, Indices DEF TypeOK
  <2>6. InHead'
    BY <1>2, <1>3, <1>5, <2>1, <2>3 DEF InHead, Active, Clear
  <2>7. InBody'
    BY <1>3, <1>5 DEF InBody
  <2>8. ASSUME ~SplitsBody PROVE WholeBody' /\ CompleteIsAnswered'
    <3>1. ~Due(m_read_idx)
      BY <1>3, <1>5, <2>1, <2>2, NothingDue
    <3>2. CompleteIsAnswered'
      BY <1>2, <1>3, <3>1 DEF CompleteIsAnswered, Due
    <3>3. WholeBody'
      BY <1>2, <1>3, <1>5, <2>8 DEF WholeBody
    <3> QED
      BY <3>2, <3>3
  <2> QED
    BY <1>2, <1>4, <2>5, <2>6, <2>7, <2>8
<1>6. CASE m_check_state = "CHECK_STATE_CONTENT"
  <2>1. parse_line = <<"LINE_OPEN", m_read_idx>>
    BY <1>3, <1>6, ParseBody
  <2>2. line_status' = "LINE_OPEN" /\ m_checked_idx' = m_read_idx
    BY <1>3, <2>1
  <2>3. TypeOK'
    BY <1>2, <1>3, <2>2, Indices DEF TypeOK
  <2>4. InHead'
    BY <1>3, <1>6 DEF InHead
  <2>5. InBody'
    BY <1>2, <1>3, <1>6 DEF InBody, Active
  <2>6. ASSUME ~SplitsBody PROVE WholeBody' /\ CompleteIsAnswered'
    <3>1. line_status # "LINE_OK"
      BY <1>6 DEF NoLine, InContent
    <3>2. m_read_idx = BodyStart
      BY <1>3, <1>6, <2>6, <3>1 DEF WholeBody, Active
    <3>3. WholeBody'
      BY <1>2, <1>3, <2>2, <2>6, <3>2 DEF WholeBody
    <3>4. ~FirstBad /\ length > 0
      BY <1>3, <1>6 DEF InBody, Active
    <3>5. ~Due(m_read_idx)
      BY <3>2, <3>4, Indices DEF Due
    <3>6. CompleteIsAnswered'
      BY <1>2, <1>3, <3>5 DEF CompleteIsAnswered, Due
    <3> QED
      BY <3>3, <3>6
  <2> QED
    BY <1>2, <1>4, <2>3, <2>4, <2>5, <2>6
<1> QED
  BY <1>5, <1>6

\* A line ends: what RequestLine and Header have in common.
LEMMA NextLineStep ==
    ASSUME IInv, NextLine, m_check_state # "CHECK_STATE_CONTENT"
    PROVE  \E e \in m_checked_idx..m_read_idx :
              /\ Clear(m_start_line, e) /\ FindsLine(e)
              /\ e + 2 <= m_read_idx
              /\ m_checked_idx' = e + 2 /\ m_start_line' = e + 2
<1> USE DEF IInv
<1>1. /\ pc = "parse" /\ parse_line[1] = "LINE_OK"
      /\ m_checked_idx' = parse_line[2] /\ m_start_line' = parse_line[2]
  BY DEF NextLine
<1>2. PICK e \in m_checked_idx..m_read_idx :
        Clear(m_start_line, e) /\ (FindsLine(e) \/ FindsNothing(e) \/ FindsBad(e))
  BY <1>1, ParseLine
<1>3. FindsLine(e)
  BY <1>1, <1>2 DEF FindsNothing, FindsBad
<1>4. parse_line[2] = e + 2 /\ e + 2 <= m_read_idx
  BY <1>3 DEF FindsLine
<1> QED
  BY <1>1, <1>2, <1>3, <1>4

LEMMA RequestLineStep ==
    ASSUME IInv, RequestLine
    PROVE  IInv'
<1> USE DEF IInv
<1>1. UNCHANGED request /\ NextLine /\ m_check_state = "CHECK_STATE_REQUESTLINE"
  BY DEF RequestLine, NextLine
<1>2. /\ Shape' /\ BodyStart' = BodyStart
      /\ stream' = stream /\ length' = length /\ m_TRIGMode' = m_TRIGMode
      /\ FirstBad' = FirstBad /\ Broken' = Broken /\ DueAnswer' = DueAnswer
  BY <1>1, RequestStays
<1>3. /\ pc = "parse" /\ line_status' = "LINE_OK"
      /\ UNCHANGED <<m_read_idx, m_content_length>>
  BY DEF RequestLine, NextLine
<1>4. PICK e \in m_checked_idx..m_read_idx :
        /\ Clear(m_start_line, e) /\ FindsLine(e)
        /\ e + 2 <= m_read_idx
        /\ m_checked_idx' = e + 2 /\ m_start_line' = e + 2
  BY <1>1, NextLineStep
<1>5. e \in Nat /\ m_start_line = 0 /\ m_content_length = 0
  BY <1>1, <1>3, Indices DEF InHead, Active
<1>6. /\ e + 2 <= BodyStart
      /\ \A i \in 2..e + 2 : stream[i] = LF => stream[i - 1] = CR
      /\ text = stream[1]
      /\ text # CR => e + 2 < BodyStart
      /\ text # CR => \A i \in 2..e + 2 : stream[i] # "length"
  <2>1. m_start_line + 1 = 1 /\ m_start_line + 2 = 2
    BY <1>5
  <2> QED
    BY <1>1, <1>3, <1>4, <2>1, LineFound
<1>7. CASE text = "request"
  <2>1. m_check_state' = "CHECK_STATE_HEADER" /\ UNCHANGED <<pc, answer>>
    BY <1>7 DEF RequestLine, Continues
  <2>2. text # CR /\ text # "length"
    BY <1>7 DEF CR
  <2>3. TypeOK'
    BY <1>2, <1>3, <1>4, <1>5, <2>1, Indices DEF TypeOK
  <2>4. InHead'
    <3>1. stream[e + 2] = LF
      BY <1>4 DEF FindsLine
    <3>2. \A i \in 1..e + 2 : stream[i] # "length"
      BY <1>5, <1>6, <2>2
    <3> QED
      BY <1>2, <1>3, <1>4, <1>5, <1>6, <1>7, <2>1, <2>2, <3>1, <3>2 DEF InHead, Active
  <2>5. InBody' /\ LoopStatus' /\ NeverEarly'
    BY <1>3, <2>1 DEF InBody, LoopStatus, NeverEarly
  <2>6. ASSUME ~SplitsBody PROVE WholeBody' /\ CompleteIsAnswered'
    BY <1>2, <1>3, <2>1, <2>6 DEF WholeBody, CompleteIsAnswered
  <2> QED
    BY <1>2, <2>3, <2>4, <2>5, <2>6
<1>8. CASE text # "request"
  <2>1. pc' = "answered" /\ answer' = "BAD_REQUEST" /\ UNCHANGED m_check_state
    BY <1>8 DEF RequestLine, Answers
  <2>2. TypeOK'
    BY <1>2, <1>3, <1>4, <1>5, <2>1, Indices DEF TypeOK
  <2>3. FirstBad
    BY <1>6, <1>8 DEF FirstBad
  <2>4. Due(m_read_idx)
    <3>1. e + 2 \in 1..m_read_idx /\ stream[e + 2] = LF
      BY <1>4, <1>5, Indices DEF FindsLine
    <3> QED
      BY <2>3, <3>1 DEF Due
  <2>5. NeverEarly'
    BY <1>2, <1>3, <2>1, <2>3, <2>4 DEF NeverEarly, DueAnswer, Due
  <2>6. InHead' /\ InBody' /\ LoopStatus'
    BY <2>1 DEF InHead, InBody, Active, LoopStatus
  <2>7. ASSUME ~SplitsBody PROVE WholeBody' /\ CompleteIsAnswered'
    BY <1>2, <1>3, <2>1, <2>7 DEF WholeBody, Active, CompleteIsAnswered
  <2> QED
    BY <1>2, <2>2, <2>5, <2>6, <2>7
<1> QED
  BY <1>7, <1>8

LEMMA HeaderStep ==
    ASSUME IInv, Header
    PROVE  IInv'
<1> USE DEF IInv
<1>1. UNCHANGED request /\ NextLine /\ m_check_state = "CHECK_STATE_HEADER"
  BY DEF Header, NextLine
<1>2. /\ Shape' /\ BodyStart' = BodyStart
      /\ stream' = stream /\ length' = length /\ m_TRIGMode' = m_TRIGMode
      /\ FirstBad' = FirstBad /\ Broken' = Broken /\ DueAnswer' = DueAnswer
  BY <1>1, RequestStays
<1>3. pc = "parse" /\ line_status' = "LINE_OK" /\ UNCHANGED m_read_idx
  BY <1>1 DEF NextLine
<1>4. PICK e \in m_checked_idx..m_read_idx :
        /\ Clear(m_start_line, e) /\ FindsLine(e)
        /\ e + 2 <= m_read_idx
        /\ m_checked_idx' = e + 2 /\ m_start_line' = e + 2
  BY <1>1, NextLineStep
<1>5. /\ e \in Nat /\ m_start_line > 0 /\ m_start_line < BodyStart /\ m_start_line <= e
      /\ stream[1] = "request"
      /\ m_content_length =
             IF \E i \in 1..m_start_line : stream[i] = "length" THEN length ELSE 0
  BY <1>1, <1>3, Indices DEF InHead, Active
<1>6. /\ e + 2 <= BodyStart
      /\ \A i \in 2..e + 2 : stream[i] = LF => stream[i - 1] = CR
      /\ text = stream[m_start_line + 1]
      /\ text = CR => m_start_line = e /\ e + 2 = BodyStart
      /\ text # CR => m_start_line < e /\ e + 2 < BodyStart
      /\ text # CR => \A i \in m_start_line + 2..e + 2 : stream[i] # "length"
  BY <1>1, <1>3, <1>4, <1>5, LineFound
<1>7. /\ BodyStart \in Nat /\ Len(stream) = BodyStart + length /\ length \in Nat
      /\ m_read_idx <= Len(stream) /\ m_read_idx \in Nat
  BY Indices
<1>8. stream[e + 1] = CR /\ stream[e + 2] = LF
  BY <1>4 DEF FindsLine
<1>9. CASE text = CR
  <2>1. ~FirstBad
    BY <1>5 DEF FirstBad
  <2>2. ~Broken
    <3>1. SUFFICES ASSUME NEW i \in 2..Len(stream), stream[i] = LF PROVE stream[i - 1] = CR
      BY DEF Broken
    <3>2. ~ (i \in BodyStart + 1..Len(stream))
      BY <3>1 DEF Shape, LF
    <3>3. i \in 2..e + 2
      BY <1>6, <1>7, <1>9, <3>2
    <3> QED
      BY <1>6, <3>1, <3>3
  <2>3. m_content_length = length
    <3>1. CASE length > 0
      <4>1. PICK i \in 1..BodyStart : stream[i] = "length"
        BY <3>1 DEF Shape
      <4>2. i # e + 1 /\ i # e + 2
        BY <1>8, <4>1 DEF CR, LF
      <4>3. i \in 1..m_start_line
        BY <1>5, <1>6, <1>9, <4>1, <4>2
      <4> QED
        BY <1>5, <4>1, <4>3
    <3>2. CASE length = 0
      BY <1>5, <3>2
    <3> QED
      BY <1>7, <3>1, <3>2
  <2>4. m_read_idx >= BodyStart
    BY <1>4, <1>6, <1>9
  <2>5. CASE m_content_length # 0
    <3>1. /\ m_check_state' = "CHECK_STATE_CONTENT"
          /\ UNCHANGED <<pc, answer, m_content_length>>
      BY <1>9, <2>5 DEF Header, Continues, CR
    <3>2. TypeOK'
      BY <1>2, <1>3, <1>4, <1>5, <3>1, Indices DEF TypeOK
    <3>3. InHead'
      BY <3>1 DEF InHead
    <3>4. InBody'
      BY <1>2, <1>4, <1>6, <1>7, <1>9, <2>1, <2>2, <2>3, <2>5, <3>1 DEF InBody
    <3>5. LoopStatus' /\ NeverEarly'
      BY <1>3, <3>1 DEF LoopStatus, NeverEarly
    <3>6. ASSUME ~SplitsBody PROVE WholeBody' /\ CompleteIsAnswered'
      BY <1>2, <1>3, <1>4, <1>6, <1>9, <3>1, <3>6 DEF WholeBody, CompleteIsAnswered
    <3> QED
      BY <1>2, <3>2, <3>3, <3>4, <3>5, <3>6
  <2>6. CASE m_content_length = 0
    <3>1. /\ pc' = "answered" /\ answer' = "GET_REQUEST"
          /\ UNCHANGED <<m_check_state, m_content_length>>
      BY <1>9, <2>6 DEF Header, Answers, CR
    <3>2. TypeOK'
      BY <1>2, <1>3, <1>4, <1>5, <3>1, Indices DEF TypeOK
    <3>3. Due(m_read_idx)
      BY <1>7, <2>1, <2>2, <2>3, <2>4, <2>6 DEF Due
    <3>4. NeverEarly'
      BY <1>2, <1>3, <2>1, <3>1, <3>3 DEF NeverEarly, DueAnswer, Due
    <3>5. InHead' /\ InBody' /\ LoopStatus'
      BY <3>1 DEF InHead, InBody, Active, LoopStatus
    <3>6. ASSUME ~SplitsBody PROVE WholeBody' /\ CompleteIsAnswered'
      BY <1>2, <1>3, <3>1, <3>6 DEF WholeBody, Active, CompleteIsAnswered
    <3> QED
      BY <1>2, <3>2, <3>4, <3>5, <3>6
  <2> QED
    BY <2>5, <2>6
<1>10. CASE text # CR
  <2>1. /\ UNCHANGED <<m_check_state, pc, answer>>
        /\ m_content_length' = IF text = "length" THEN length ELSE m_content_length
    BY <1>10 DEF Header, Continues
  <2>2. TypeOK'
    BY <1>2, <1>3, <1>4, <1>5, <2>1, Indices DEF TypeOK
  <2>3. m_content_length' =
           IF \E i \in 1..e + 2 : stream[i] = "length" THEN length ELSE 0
    <3>1. CASE text = "length"
      <4>1. m_start_line + 1 \in 1..e + 2
        BY <1>5, Indices
      <4> QED
        BY <1>6, <2>1, <3>1, <4>1
    <3>2. CASE text # "length"
      <4>1. \A i \in 1..e + 2 : i \in 1..m_start_line \/ i = m_start_line + 1
                                  \/ i \in m_start_line + 2..e + 2
        BY <1>5, Indices
      <4>2. \A i \in 1..m_start_line : i \in 1..e + 2
        BY <1>5, Indices
      <4>3. (\E i \in 1..e + 2 : stream[i] = "length")
              <=> \E i \in 1..m_start_line : stream[i] = "length"
        BY <1>6, <1>10, <3>2, <4>1, <4>2
      <4> QED
        BY <1>5, <2>1, <3>2, <4>3
    <3> QED
      BY <3>1, <3>2
  <2>4. InHead'
    BY <1>1, <1>2, <1>4, <1>5, <1>6, <1>8, <1>10, <2>1, <2>3 DEF InHead, Active
  <2>5. InBody' /\ LoopStatus' /\ NeverEarly'
    BY <1>1, <1>3, <2>1 DEF InBody, LoopStatus, NeverEarly
  <2>6. ASSUME ~SplitsBody PROVE WholeBody' /\ CompleteIsAnswered'
    BY <1>1, <1>2, <1>3, <2>1, <2>6 DEF WholeBody, CompleteIsAnswered
  <2> QED
    BY <1>2, <2>2, <2>4, <2>5, <2>6
<1> QED
  BY <1>9, <1>10

LEMMA ContentStep ==
    ASSUME IInv, Content
    PROVE  IInv'
<1> USE DEF IInv
<1>1. /\ UNCHANGED request /\ pc = "parse" /\ line_status = "LINE_OK"
      /\ m_check_state = "CHECK_STATE_CONTENT" /\ m_start_line' = m_checked_idx
      /\ UNCHANGED <<m_read_idx, m_checked_idx, m_check_state, m_content_length>>
  BY DEF Content, InContent
<1>2. /\ Shape' /\ BodyStart' = BodyStart
      /\ stream' = stream /\ length' = length /\ m_TRIGMode' = m_TRIGMode
      /\ FirstBad' = FirstBad /\ Broken' = Broken /\ DueAnswer' = DueAnswer
  BY <1>1, RequestStays
<1>3. /\ ~FirstBad /\ ~Broken /\ BodyStart <= m_start_line
      /\ m_content_length = length /\ length > 0
  BY <1>1 DEF InBody, Active
<1>4. CASE m_read_idx >= m_content_length + m_checked_idx
  <2>1. pc' = "answered" /\ answer' = "GET_REQUEST" /\ UNCHANGED line_status
    BY <1>4, Indices DEF Content, Answers
  <2>2. TypeOK'
    BY <1>1, <1>2, <2>1, Indices DEF TypeOK
  <2>3. Due(m_read_idx)
    BY <1>3, <1>4, Indices DEF Due
  <2>4. NeverEarly'
    BY <1>1, <1>2, <1>3, <2>1, <2>3 DEF NeverEarly, DueAnswer, Due
  <2>5. InHead' /\ InBody' /\ LoopStatus'
    BY <2>1 DEF InHead, InBody, Active, LoopStatus
  <2>6. ASSUME ~SplitsBody PROVE WholeBody' /\ CompleteIsAnswered'
    BY <1>1, <1>2, <2>1, <2>6 DEF WholeBody, Active, CompleteIsAnswered
  <2> QED
    BY <1>2, <2>2, <2>4, <2>5, <2>6
<1>5. CASE m_read_idx < m_content_length + m_checked_idx
  <2>1. line_status' = "LINE_OPEN" /\ UNCHANGED <<pc, answer>>
    BY <1>5, Indices DEF Content, Continues
  <2>2. TypeOK'
    BY <1>1, <1>2, <2>1, Indices DEF TypeOK
  <2>3. InHead'
    BY <1>1 DEF InHead
  <2>4. InBody'
    BY <1>1, <1>2, <1>3, <2>1, Indices DEF InBody
  <2>5. LoopStatus' /\ NeverEarly'
    BY <1>1, <2>1 DEF LoopStatus, NeverEarly
  <2>6. ASSUME ~SplitsBody PROVE WholeBody' /\ CompleteIsAnswered'
    <3>1. m_checked_idx = BodyStart
      BY <1>1, <2>6 DEF WholeBody, Active
    <3>2. m_read_idx = BodyStart
      BY <1>3, <1>5, <2>6, <3>1, Indices DEF WholeBody
    <3> QED
      BY <1>1, <1>2, <2>1, <2>6, <3>1, <3>2 DEF WholeBody, CompleteIsAnswered
  <2> QED
    BY <1>2, <2>2, <2>3, <2>4, <2>5, <2>6
<1> QED
  BY <1>4, <1>5, Indices

LEMMA NextStep == IInv /\ [Next]_vars => IInv'
<1> SUFFICES ASSUME IInv, [Next]_vars PROVE IInv'
  OBVIOUS
<1>1. CASE UNCHANGED vars
  <2>1. /\ UNCHANGED <<m_read_idx, m_checked_idx, m_start_line, m_check_state>>
        /\ UNCHANGED <<m_content_length, line_status, pc, answer>>
        /\ UNCHANGED request
    BY <1>1 DEF vars
  <2>2. /\ Shape' /\ BodyStart' = BodyStart
        /\ stream' = stream /\ length' = length /\ m_TRIGMode' = m_TRIGMode
        /\ FirstBad' = FirstBad /\ Broken' = Broken /\ DueAnswer' = DueAnswer
    BY <2>1, RequestStays DEF IInv
  <2>3. TypeOK'
    BY <2>1, <2>2 DEF IInv, TypeOK
  <2>4. InHead' /\ InBody' /\ LoopStatus'
    BY <2>1, <2>2 DEF IInv, InHead, InBody, Active, LoopStatus
  <2>5. NeverEarly'
    BY <2>1, <2>2 DEF IInv, NeverEarly, Due
  <2>6. ~SplitsBody => WholeBody' /\ CompleteIsAnswered'
    BY <2>1, <2>2 DEF IInv, WholeBody, Active, CompleteIsAnswered, Due
  <2> QED
    BY <2>2, <2>3, <2>4, <2>5, <2>6 DEF IInv
<1>2. CASE Next
  BY <1>2, ReadStep, CloseStep, NoLineStep, RequestLineStep, HeaderStep, ContentStep DEF Next
<1> QED
  BY <1>1, <1>2

-----------------------------------------------------------------------------

\* The inductive invariant, and with it the type invariant.
THEOREM TypeCorrect == Spec => [](TypeOK /\ IInv)
<1>1. IInv => TypeOK /\ IInv
  BY DEF IInv
<1> QED
  BY <1>1, InitIInv, NextStep, PTL DEF Spec

\* process_read answers a request when all of it has come and not before, and as
\* it would have answered it in one piece, whatever the pieces are.
THEOREM NeverEarlyAlways == Spec => []NeverEarly
<1>1. IInv => NeverEarly
  BY DEF IInv
<1> QED
  BY <1>1, TypeCorrect, PTL

\* parse_content finds the body when it comes in one piece: no call of
\* process_read returns NO_REQUEST for a request that is complete.
THEOREM CompleteIsAnsweredAlways ==
    ASSUME ~SplitsBody
    PROVE  Spec => []CompleteIsAnswered
<1>1. IInv => CompleteIsAnswered
  BY DEF IInv
<1> QED
  BY <1>1, TypeCorrect, PTL
=============================================================================
