---------------------------- MODULE ConfFileProofs ----------------------------
(***************************************************************************)
(* Lemmas about ConfFile, for every file: reading it a line at a time, as  *)
(* load_config does, gives what the file says.                             *)
(***************************************************************************)
EXTENDS ConfFile, TLAPS

LEMMA NextSectionType ==
  ASSUME NEW s \in Sections, NEW l \in Lines
  PROVE  NextSection(s, l) \in Sections
  BY DEF NextSection, Lines, Header, Pair, Ignored

LEMMA ParserType ==
  ASSUME NEW c \in Contents, NEW s, NEW l \in Lines, Parsed(s, l)
  PROVE  Parser(c, s, l) \in Contents
<1>1. l.value \in Values  BY DEF Parsed, Lines, Header, Pair, Ignored
<1> QED  BY <1>1 DEF Parser, Contents

-----------------------------------------------------------------------------
(* A line is of one kind, and its parts are its own. *)
LEMMA LineKinds ==
  ASSUME NEW l \in Lines
  PROVE  /\ IsHeader(l) <=> l.kind = "header"
         /\ IsHeader(l) => l.section \in Sections /\ l = Header(l.section)
         /\ \A s \in Sections : l = Header(s) => l.section = s
         /\ \A k \in Keys \cup OtherKeys, v \in Values :
               l = Pair(k, v) <=> l.kind = "pair" /\ l.key = k /\ l.value = v
  BY DEF Lines, IsHeader, Header, Pair, Ignored

LEMMA SectionAtStart == \A f : SectionIs(f, 0, NoSection)
  BY ConfFileAssumption DEF SectionIs, Under

LEMMA SectionStep ==
  ASSUME NEW f \in Seq(Lines), NEW n \in Nat, n < Len(f),
         NEW s \in Sections, SectionIs(f, n, s)
  PROVE  SectionIs(f, n + 1, NextSection(s, f[n + 1]))
<1> DEFINE l == f[n + 1]
<1>1. l \in Lines
  <2>1. n + 1 \in 1 .. Len(f)  OBVIOUS
  <2> QED  BY <2>1
<1>2. CASE IsHeader(l)
  <2>1. l.section \in Sections /\ NextSection(s, l) = l.section
    BY <1>1, <1>2, LineKinds DEF NextSection
  <2>2. ASSUME NEW t \in Sections  PROVE Under(f, n + 1, t) <=> l.section = t
    <3>1. ASSUME l.section = t  PROVE Under(f, n + 1, t)
      <4>1. f[n + 1] = Header(t)  BY <1>1, <1>2, <3>1, LineKinds
      <4>2. n + 1 \in 1 .. (n + 1) /\ \A j \in ((n + 1) + 1) .. (n + 1) : FALSE  OBVIOUS
      <4> QED  BY <4>1, <4>2 DEF Under
    <3>2. ASSUME Under(f, n + 1, t)  PROVE l.section = t
      <4>1. PICK h \in 1 .. (n + 1) :
               f[h] = Header(t) /\ \A j \in (h + 1) .. (n + 1) : ~IsHeader(f[j])
        BY <3>2 DEF Under
      <4>2. h = n + 1
        <5>1. CASE h < n + 1
          <6>1. n + 1 \in (h + 1) .. (n + 1)  BY <5>1
          <6> QED  BY <1>2, <4>1, <6>1
        <5> QED  BY <5>1
      <4> QED  BY <1>1, <4>1, <4>2, LineKinds
    <3> QED  BY <3>1, <3>2
  <2> HIDE DEF l
  <2> QED  BY <2>1, <2>2 DEF SectionIs, l
<1>3. CASE ~IsHeader(l)
  <2>1. NextSection(s, l) = s  BY <1>1, <1>3, LineKinds DEF NextSection
  <2>2. ASSUME NEW t \in Sections  PROVE Under(f, n + 1, t) <=> Under(f, n, t)
    <3>1. ASSUME Under(f, n, t)  PROVE Under(f, n + 1, t)
      <4>1. PICK h \in 1 .. n : f[h] = Header(t) /\ \A j \in (h + 1) .. n : ~IsHeader(f[j])
        BY <3>1 DEF Under
      <4>2. \A j \in (h + 1) .. (n + 1) : j \in (h + 1) .. n \/ j = n + 1  OBVIOUS
      <4>3. h \in 1 .. (n + 1)  OBVIOUS
      <4> QED  BY <1>3, <4>1, <4>2, <4>3 DEF Under
    <3>2. ASSUME Under(f, n + 1, t)  PROVE Under(f, n, t)
      <4>1. PICK h \in 1 .. (n + 1) :
               f[h] = Header(t) /\ \A j \in (h + 1) .. (n + 1) : ~IsHeader(f[j])
        BY <3>2 DEF Under
      <4>2. h # n + 1  BY <1>3, <4>1 DEF IsHeader
      <4>3. h \in 1 .. n /\ \A j \in (h + 1) .. n : j \in (h + 1) .. (n + 1)  BY <4>2
      <4> QED  BY <4>1, <4>3 DEF Under
    <3> QED  BY <3>1, <3>2
  <2> HIDE DEF l
  <2> QED  BY <2>1, <2>2 DEF SectionIs, l
<1> QED  BY <1>2, <1>3

-----------------------------------------------------------------------------
(* One more line overrides what was said before, or leaves it. *)
LEMMA SaysStep ==
  ASSUME NEW f, NEW n \in Nat, NEW k, NEW v \in Values
  PROVE  Says(f, n + 1, k, v) <=>
            \/ Sets(f, n + 1, k, v) 
            \/ Says(f, n, k, v) /\ \A u \in Values : ~Sets(f, n + 1, k, u)
<1>1. ASSUME Sets(f, n + 1, k, v)  PROVE Says(f, n + 1, k, v)
  <2>1. n + 1 \in 1 .. (n + 1) /\ \A j \in ((n + 1) + 1) .. (n + 1) : FALSE  OBVIOUS
  <2> QED  BY <1>1, <2>1 DEF Says
<1>2. ASSUME Says(f, n, k, v), \A u \in Values : ~Sets(f, n + 1, k, u)
      PROVE  Says(f, n + 1, k, v)
  <2>1. PICK i \in 1 .. n : Sets(f, i, k, v) /\ \A j \in (i + 1) .. n, u \in Values : ~Sets(f, j, k, u)
    BY <1>2 DEF Says
  <2>2. i \in 1 .. (n + 1) /\ \A j \in (i + 1) .. (n + 1) : j \in (i + 1) .. n \/ j = n + 1
    OBVIOUS
  <2> QED  BY <1>2, <2>1, <2>2 DEF Says
<1>3. ASSUME Says(f, n + 1, k, v), ~Sets(f, n + 1, k, v)
      PROVE  Says(f, n, k, v) /\ \A u \in Values : ~Sets(f, n + 1, k, u)
  <2>1. PICK i \in 1 .. (n + 1) :
           Sets(f, i, k, v) /\ \A j \in (i + 1) .. (n + 1), u \in Values : ~Sets(f, j, k, u)
    BY <1>3 DEF Says
  <2>2. i # n + 1  BY <1>3, <2>1
  <2>3. i \in 1 .. n /\ n + 1 \in (i + 1) .. (n + 1)
        /\ \A j \in (i + 1) .. n : j \in (i + 1) .. (n + 1)
    BY <2>2
  <2> QED  BY <2>1, <2>3 DEF Says
<1> QED  BY <1>1, <1>2, <1>3

(* What the next line sets, by the section that was tracked. *)
LEMMA SetsNext ==
  ASSUME NEW f \in Seq(Lines), NEW n \in Nat, n < Len(f),
         NEW s \in Sections, SectionIs(f, n, s),
         NEW k \in Keys, NEW v \in Values
  PROVE  Sets(f, n + 1, k, v) <=> s = Log /\ f[n + 1] = Pair(k, v)
<1>1. f[n + 1] \in Lines
  <2>1. n + 1 \in 1 .. Len(f)  OBVIOUS
  <2> QED  BY <2>1
<1>2. ASSUME f[n + 1] = Pair(k, v)  PROVE Under(f, n + 1, Log) <=> s = Log
  <2>1. NextSection(s, f[n + 1]) = s  BY <1>2 DEF NextSection, Pair
  <2>2. SectionIs(f, n + 1, s)  BY <2>1, SectionStep
  <2> QED  BY <2>2, ConfFileAssumption DEF SectionIs, Sections
<1> QED  BY <1>2 DEF Sets

(* Reading one line keeps the configuration what the lines read say. *)
LEMMA FollowsStep ==
  ASSUME NEW f \in Seq(Lines), NEW n \in Nat, n < Len(f),
         NEW s \in Sections, SectionIs(f, n, s),
         NEW b, NEW c \in Contents, NEW d \in Contents, Follows(f, n, b, c),
         d = IF Parsed(s, f[n + 1]) THEN Parser(c, s, f[n + 1]) ELSE c
  PROVE  Follows(f, n + 1, b, d)
<1> DEFINE l == f[n + 1]
<1>1. l \in Lines
  <2>1. n + 1 \in 1 .. Len(f)  OBVIOUS
  <2> QED  BY <2>1
<1> SUFFICES ASSUME NEW k \in Keys
             PROVE  /\ \A v \in Values : Says(f, n + 1, k, v) => d[k] = v
                    /\ (\A v \in Values : ~Says(f, n + 1, k, v)) => d[k] = b[k]
  BY DEF Follows
<1>2. CASE s = Log /\ l.kind = "pair" /\ l.key = k
  <2>1. l.value \in Values /\ l = Pair(k, l.value)
        /\ \A v \in Values : l = Pair(k, v) => v = l.value
    BY <1>1, <1>2 DEF Lines, Header, Pair, Ignored
  <2>2. d[k] = l.value
    BY <1>2, ConfFileAssumption DEF Parsed, Parser, Contents
  <2>3. \A v \in Values : Says(f, n + 1, k, v) <=> v = l.value
    BY <1>2, <2>1, SaysStep, SetsNext
  <2> QED  BY <2>1, <2>2, <2>3
<1>3. CASE ~(s = Log /\ l.kind = "pair" /\ l.key = k)
  <2>1. d[k] = c[k]
    BY <1>1, <1>3 DEF Parsed, Parser, Contents
  <2>2. \A v \in Values : ~Sets(f, n + 1, k, v)
    <3>1. \A v \in Values : ~(s = Log /\ l = Pair(k, v))  BY <1>3 DEF Pair
    <3> HIDE DEF l
    <3>2. \A v \in Values : Sets(f, n + 1, k, v) <=> s = Log /\ l = Pair(k, v)
      BY SetsNext DEF l
    <3> QED  BY <3>1, <3>2
  <2>3. \A v \in Values : Says(f, n + 1, k, v) <=> Says(f, n, k, v)
    BY <2>2, SaysStep
  <2> QED  BY <2>1, <2>3 DEF Follows
<1> QED  BY <1>2, <1>3

LEMMA FollowsAtStart == ASSUME NEW f, NEW b PROVE Follows(f, 0, b, b)
  BY DEF Follows, Says

=============================================================================
