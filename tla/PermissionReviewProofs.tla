----------------------- MODULE PermissionReviewProofs -----------------------
(***************************************************************************)
(* Proofs about PermissionReview, for any calls, sessions and number of    *)
(* changes to the workspace.                                               *)
(***************************************************************************)
EXTENDS PermissionReview, SequenceTheorems, FiniteSetTheorems, TLAPS

Names == {"w", "ws", "o", "d", "e", "f", "g", "x"}

(* What there may be at a path. *)
GoodEntry(e) ==
  /\ e.is \in {"absent", "dir", "file", "link"}
  /\ e.is = "link" => e.to \in Seq(Names) /\ Len(e.to) \in 1..2

LEMMA ConstantsGood ==
  /\ GoodEntry(Dir) /\ GoodEntry(Absent) /\ GoodEntry(File(1)) /\ GoodEntry(File(2))
  /\ GoodEntry(Link(<<"w", "e">>)) /\ GoodEntry(Link(Outside)) /\ GoodEntry(Link(G))
  /\ GoodEntry(Link(<<"o", "f">>)) /\ GoodEntry(Link(Nowhere)) /\ GoodEntry(Link(Root))
<1>1. GoodEntry(Dir) /\ GoodEntry(Absent) /\ GoodEntry(File(1)) /\ GoodEntry(File(2))
  BY DEF GoodEntry, Dir, Absent, File
<1>2. ASSUME NEW to, to \in Seq(Names), Len(to) = 1 \/ Len(to) = 2 PROVE GoodEntry(Link(to))
  BY <1>2 DEF GoodEntry, Link
<1>3. /\ <<"w", "e">> \in Seq(Names) /\ Len(<<"w", "e">>) = 2
      /\ <<"o", "f">> \in Seq(Names) /\ Len(<<"o", "f">>) = 2
      /\ Outside \in Seq(Names) /\ Len(Outside) = 1
      /\ Root \in Seq(Names) /\ Len(Root) = 1
      /\ G \in Seq(Names) /\ Len(G) = 2
      /\ Nowhere \in Seq(Names) /\ Len(Nowhere) = 2
  BY DEF Outside, Root, G, Nowhere, Names
<1>4. GoodEntry(Link(<<"w", "e">>)) /\ GoodEntry(Link(<<"o", "f">>))
  BY <1>2, <1>3
<1>5. /\ GoodEntry(Link(Outside)) /\ GoodEntry(Link(Root)) /\ GoodEntry(Link(G))
      /\ GoodEntry(Link(Nowhere))
  BY <1>2, <1>3
<1>. QED BY <1>1, <1>4, <1>5

LEMMA ChoiceIs ==
  /\ Choice[D] = {Dir, Absent, File(1), Link(<<"w", "e">>), Link(Outside), Link(Nowhere)}
  /\ Choice[DF] = {Absent, File(1), File(2), Link(G)}
  /\ Choice[G] = {Absent, File(1), File(2), Link(G), Link(<<"o", "f">>), Link(Nowhere)}
<1>1. D # DF /\ D # G /\ DF # G
  BY DEF D, DF, G
<1>. QED BY <1>1 DEF Choice

LEMMA FixedIs ==
  \A p : Fixed(p) \in {Dir, Link(Root), File(1), Absent}
BY DEF Fixed

LEMMA EntryGood ==
  ASSUME NEW f \in FileSystems, NEW path
  PROVE  GoodEntry(Entry(f, path))
<1>1. \A p \in {D, DF, G} : \A e \in Choice[p] : GoodEntry(e)
  BY ChoiceIs, ConstantsGood
<1>2. DOMAIN f = {D, DF, G} /\ \A p \in DOMAIN f : f[p] \in Choice[p]
  BY DEF FileSystems
<1>3. \A p : GoodEntry(Fixed(p))
  BY FixedIs, ConstantsGood
<1>. QED BY <1>1, <1>2, <1>3, ConstantsGood DEF Entry

-----------------------------------------------------------------------------
(* A walk on its way: names reached and names left, not both none. *)
OnTheWay(s) ==
  /\ s = At(s.path, s.rest, s.links)
  /\ s.path \in Seq(Names) /\ s.rest \in Seq(Names) /\ s.links \in Nat
  /\ s.path # <<>> \/ s.rest # <<>>

GoodWalk(s) == s.is = "error" \/ OnTheWay(s)

(* A bound on the steps a walk has left. *)
Left(s) == IF s.is = "error" \/ s.rest = <<>> THEN 0 ELSE 3 * s.links + Len(s.rest)

(* The ways a step may go. *)
Followed(s, entry, t) ==
  /\ entry.is = "link" /\ s.links > 0
  /\ t = At(<<>>, entry.to \o Tail(s.rest), s.links - 1)

Descended(s, entry, t) ==
  /\ entry.is \in {"dir", "file"} /\ (entry.is = "file" => Tail(s.rest) = <<>>)
  /\ t = At(Append(s.path, Head(s.rest)), Tail(s.rest), s.links)

LEMMA StepDone ==
  ASSUME NEW f, NEW confined, NEW s, s.is = "error" \/ s.rest = <<>>
  PROVE  Step(f, confined, s) = s
BY DEF Step

LEMMA StepGoesOn ==
  ASSUME NEW f, NEW confined, NEW s, s.is = "path", s.rest # <<>>
  PROVE  Step(f, confined, s) = Onward(confined, s, Entry(f, Append(s.path, Head(s.rest))))
BY DEF Step

LEMMA StepIs ==
  ASSUME NEW f \in FileSystems, NEW confined \in BOOLEAN, NEW s, OnTheWay(s), s.rest # <<>>
  PROVE  LET entry == Entry(f, Append(s.path, Head(s.rest)))
             t == Step(f, confined, s) IN
         \/ entry.is = "absent" /\ t = Error("absent")
         \/ entry.is = "link" /\ t \in {Error("loop"), Error("escape")}
         \/ entry.is = "file" /\ Tail(s.rest) # <<>> /\ t = Error("not a directory")
         \/ Followed(s, entry, t)
         \/ Descended(s, entry, t)
<1>. DEFINE entry == Entry(f, Append(s.path, Head(s.rest)))
            t == Step(f, confined, s)
<1>1. GoodEntry(entry)
  BY EntryGood
<1>2. s.is = "path"
  BY DEF OnTheWay, At
<1>. HIDE DEF entry
<1>4. t = Onward(confined, s, entry)
  BY <1>2, StepGoesOn DEF entry
<1>. HIDE DEF t
<1>3. t = IF entry.is = "absent" THEN Error("absent")
          ELSE IF entry.is = "link" THEN
            IF s.links = 0 THEN Error("loop")
            ELSE IF confined /\ ~Within(entry.to) THEN Error("escape")
            ELSE At(<<>>, entry.to \o Tail(s.rest), s.links - 1)
          ELSE IF entry.is = "file" /\ Tail(s.rest) # <<>> THEN Error("not a directory")
          ELSE At(Append(s.path, Head(s.rest)), Tail(s.rest), s.links)
  BY <1>4 DEF Onward
<1>5. CASE entry.is = "absent"
  BY <1>3, <1>5 DEF t, entry
<1>6. CASE entry.is = "link"
  <2>1. CASE s.links = 0
    BY <1>3, <1>6, <2>1 DEF t, entry
  <2>2. CASE confined /\ ~Within(entry.to) /\ s.links # 0
    BY <1>3, <1>6, <2>2 DEF t, entry
  <2>3. CASE ~(confined /\ ~Within(entry.to)) /\ s.links # 0
    <3>1. s.links > 0
      BY <2>3 DEF OnTheWay
    <3>2. Followed(s, entry, t)
      BY <1>3, <1>6, <2>3, <3>1 DEF Followed
    <3>. QED BY <3>2 DEF t, entry
  <2>. QED BY <2>1, <2>2, <2>3
<1>7. CASE entry.is \in {"dir", "file"}
  BY <1>3, <1>7 DEF t, entry, Descended
<1>. QED BY <1>1, <1>5, <1>6, <1>7 DEF GoodEntry

LEMMA SequenceFacts ==
  ASSUME NEW a \in Seq(Names), NEW r \in Seq(Names), r # <<>>
  PROVE  /\ Append(a, Head(r)) \in Seq(Names) /\ Append(a, Head(r)) # <<>>
         /\ Tail(r) \in Seq(Names) /\ Len(Tail(r)) = Len(r) - 1
         /\ a \o Tail(r) \in Seq(Names) /\ Len(a \o Tail(r)) = Len(a) + Len(r) - 1
OBVIOUS

(* A step keeps a walk a walk, and comes closer to its end. *)
LEMMA StepGood ==
  ASSUME NEW f \in FileSystems, NEW confined \in BOOLEAN, NEW s, GoodWalk(s)
  PROVE  /\ GoodWalk(Step(f, confined, s))
         /\ \A k \in Nat : Left(s) =< k + 1 => Left(Step(f, confined, s)) =< k
<1>1. CASE s.is = "error" \/ s.rest = <<>>
  <2>1. Step(f, confined, s) = s
    BY <1>1, StepDone
  <2>2. Left(s) = 0
    BY <1>1 DEF Left
  <2>. QED BY <2>1, <2>2
<1>2. CASE OnTheWay(s) /\ s.rest # <<>>
  <2>. DEFINE entry == Entry(f, Append(s.path, Head(s.rest)))
              t == Step(f, confined, s)
  <2>1. GoodEntry(entry)
    BY EntryGood
  <2>2. s.is = "path" /\ s.path \in Seq(Names) /\ s.rest \in Seq(Names) /\ s.links \in Nat
    BY <1>2 DEF OnTheWay, At
  <2>3. Left(s) = 3 * s.links + Len(s.rest)
    BY <1>2, <2>2 DEF Left
  <2>. HIDE DEF entry, t
  <2>4. \/ t.is = "error" \/ Followed(s, entry, t) \/ Descended(s, entry, t)
    <3>1. \/ t = Error("absent") \/ t \in {Error("loop"), Error("escape")}
          \/ t = Error("not a directory")
          \/ Followed(s, entry, t) \/ Descended(s, entry, t)
      BY <1>2, StepIs DEF entry, t
    <3>2. \A what : Error(what).is = "error"
      BY DEF Error
    <3>. QED BY <3>1, <3>2
  <2>5. CASE t.is = "error"
    BY <2>5 DEF GoodWalk, Left, t
  <2>6. CASE Followed(s, entry, t)
    <3>. DEFINE rest == entry.to \o Tail(s.rest)
                n == Len(s.rest)  m == Len(entry.to)  k == Len(rest)
    <3>1. entry.to \in Seq(Names) /\ m \in 1..2 /\ n \in Nat /\ n > 0
      BY <1>2, <2>1, <2>2, <2>6 DEF GoodEntry, Followed
    <3>2. rest \in Seq(Names) /\ k = m + n - 1
      BY <1>2, <2>2, <3>1, SequenceFacts
    <3>3. t = At(<<>>, rest, s.links - 1) /\ s.links > 0
      BY <2>6 DEF Followed
    <3>4. rest = <<>> => k = 0
      <4>. HIDE DEF rest
      <4>. QED OBVIOUS
    <3>. HIDE DEF rest, n, m
    <3>5. k > 0 /\ k =< n + 1
      <4>. HIDE DEF k
      <4>. QED BY <3>1, <3>2
    <3>6. rest # <<>>
      BY <3>4, <3>5
    <3>7. OnTheWay(t)
      BY <2>2, <3>2, <3>3, <3>6 DEF OnTheWay, At
    <3>8. Left(t) = 3 * (s.links - 1) + k
      BY <3>3, <3>6 DEF Left, At
    <3>9. Left(s) = 3 * s.links + n
      BY <2>3 DEF n
    <3>10. Left(t) =< Left(s) - 2 /\ Left(t) \in Nat /\ Left(s) \in Nat
      <4>. HIDE DEF k
      <4>. QED BY <2>2, <3>1, <3>2, <3>3, <3>5, <3>8, <3>9
    <3>. QED BY <3>7, <3>10 DEF GoodWalk, t
  <2>7. CASE Descended(s, entry, t)
    <3>. DEFINE next == Append(s.path, Head(s.rest))
                rest == Tail(s.rest)
    <3>1. /\ next \in Seq(Names) /\ next # <<>>
          /\ rest \in Seq(Names) /\ Len(rest) = Len(s.rest) - 1
      BY <1>2, <2>2, SequenceFacts
    <3>2. t = At(next, rest, s.links)
      BY <2>7 DEF Descended
    <3>. HIDE DEF next, rest
    <3>3. OnTheWay(t)
      BY <2>2, <3>1, <3>2 DEF OnTheWay, At
    <3>4. Left(t) = 0 \/ Left(t) = 3 * s.links + Len(rest)
      BY <3>2 DEF Left, At
    <3>5. Len(s.rest) \in Nat /\ Len(rest) \in Nat
      BY <2>2, <3>1
    <3>6. /\ Left(s) \in Nat /\ Left(t) \in Nat
          /\ Left(t) = 0 \/ Left(t) = Left(s) - 1
      BY <2>2, <2>3, <3>1, <3>4, <3>5
    <3>. QED BY <3>3, <3>6 DEF GoodWalk, t
  <2>. QED BY <2>4, <2>5, <2>6, <2>7
<1>. QED BY <1>1, <1>2 DEF GoodWalk

LEMMA StepsGood ==
  ASSUME NEW f \in FileSystems, NEW confined \in BOOLEAN, NEW s, GoodWalk(s)
  PROVE  /\ GoodWalk(Steps(f, confined, s))
         /\ \A k \in Nat : Left(s) =< k + 4 => Left(Steps(f, confined, s)) =< k
<1>. DEFINE a == Step(f, confined, s)  b == Step(f, confined, a)
            c == Step(f, confined, b)  d == Step(f, confined, c)
<1>1. GoodWalk(a) /\ \A k \in Nat : Left(s) =< k + 1 => Left(a) =< k
  BY StepGood
<1>. HIDE DEF a
<1>2. GoodWalk(b) /\ \A k \in Nat : Left(a) =< k + 1 => Left(b) =< k
  BY <1>1, StepGood
<1>. HIDE DEF b
<1>3. GoodWalk(c) /\ \A k \in Nat : Left(b) =< k + 1 => Left(c) =< k
  BY <1>2, StepGood
<1>. HIDE DEF c
<1>4. GoodWalk(d) /\ \A k \in Nat : Left(c) =< k + 1 => Left(d) =< k
  BY <1>3, StepGood
<1>. HIDE DEF d
<1>5. ASSUME NEW k \in Nat, Left(s) =< k + 4 PROVE Left(d) =< k
  <2>1. Left(s) =< (k + 3) + 1 /\ k + 3 \in Nat
    BY <1>5
  <2>2. Left(a) =< (k + 2) + 1 /\ k + 2 \in Nat
    BY <1>1, <2>1
  <2>3. Left(b) =< (k + 1) + 1 /\ k + 1 \in Nat
    BY <1>2, <2>2
  <2>. QED BY <1>3, <1>4, <2>3
<1>6. Steps(f, confined, s) = d
  BY DEF Steps, a, b, c, d
<1>. QED BY <1>4, <1>5, <1>6

(* Twelve steps are enough for the paths of a review: a walk ends with an error
   or somewhere. *)
LEMMA WalkEnds ==
  ASSUME NEW f \in FileSystems, NEW confined \in BOOLEAN,
         NEW path \in Seq(Names), Len(path) \in 1..3
  PROVE  LET s == Walk(f, confined, path) IN
         \/ s.is = "error"
         \/ OnTheWay(s) /\ s.rest = <<>> /\ s.path # <<>>
<1>. DEFINE s == Begin(path)
            a == Steps(f, confined, s)  b == Steps(f, confined, a)
            c == Steps(f, confined, b)
<1>1. OnTheWay(s) /\ Left(s) =< 12
  <2>1. /\ s = At(<<>>, path, 3) /\ s.is = "path"
        /\ s.path = <<>> /\ s.rest = path /\ s.links = 3
    BY DEF Begin, At, MaxLinks
  <2>2. path # <<>>
    <3>1. path = <<>> => Len(path) = 0
      OBVIOUS
    <3>. QED BY <3>1
  <2>3. <<>> \in Seq(Names)
    OBVIOUS
  <2>. HIDE DEF s
  <2>4. OnTheWay(s)
    <3>1. s = At(s.path, s.rest, s.links)
      BY <2>1, Zenon
    <3>2. s.path \in Seq(Names) /\ s.rest \in Seq(Names) /\ s.links \in Nat
      BY <2>1, <2>3, 3 \in Nat, Zenon
    <3>. QED BY <2>1, <2>2, <3>1, <3>2, Zenon DEF OnTheWay
  <2>5. Left(s) = 9 + Len(path)
    BY <2>1, <2>2 DEF Left
  <2>6. \A n \in 1..3 : 9 + n =< 12
    OBVIOUS
  <2>. QED BY <2>4, <2>5, <2>6, Zenon
<1>. HIDE DEF s
<1>2. GoodWalk(a) /\ Left(a) =< 8
  BY <1>1, StepsGood, 8 \in Nat DEF GoodWalk
<1>. HIDE DEF a
<1>3. GoodWalk(b) /\ Left(b) =< 4
  BY <1>2, StepsGood
<1>. HIDE DEF b
<1>4. GoodWalk(c) /\ Left(c) =< 0
  BY <1>3, StepsGood
<1>. HIDE DEF c
<1>5. Walk(f, confined, path) = c
  BY DEF Walk, s, a, b, c
<1>6. ASSUME OnTheWay(c), c.rest # <<>> PROVE FALSE
  <2>1. c.is = "path" /\ c.links \in Nat /\ c.rest \in Seq(Names)
    BY <1>6 DEF OnTheWay, At
  <2>2. Left(c) = 3 * c.links + Len(c.rest)
    BY <1>6, <2>1 DEF Left
  <2>3. Len(c.rest) \in Nat /\ Len(c.rest) # 0
    BY <1>6, <2>1
  <2>. QED BY <1>4, <2>1, <2>2, <2>3
<1>. QED BY <1>4, <1>5, <1>6 DEF GoodWalk, OnTheWay

LEMMA AbsentIs ==
  ASSUME NEW f \in FileSystems, NEW path, Entry(f, path).is = "absent"
  PROVE  Entry(f, path) = Absent
<1>1. \A p \in {D, DF, G} : \A e \in Choice[p] : e.is = "absent" => e = Absent
  BY ChoiceIs DEF Dir, File, Link
<1>2. DOMAIN f = {D, DF, G} /\ \A p \in DOMAIN f : f[p] \in Choice[p]
  BY DEF FileSystems
<1>3. \A p : Fixed(p).is = "absent" => Fixed(p) = Absent
  BY FixedIs DEF Dir, File, Link
<1>. QED BY <1>1, <1>2, <1>3 DEF Entry

-----------------------------------------------------------------------------
LEMMA FrontLast ==
  ASSUME NEW r \in Seq(Names), r # <<>>
  PROVE  /\ Front(r) \in Seq(Names) /\ Last(r) \in Names /\ Len(Front(r)) = Len(r) - 1
         /\ r = Append(Front(r), Last(r))
<1>1. PICK q \in Seq(Names), x \in Names : r = Append(q, x)
  BY SequenceEmptyOrAppend
<1>2. Front(Append(q, x)) = q /\ Last(Append(q, x)) = x /\ Len(Append(q, x)) = Len(q) + 1
  BY DEF Front, Last
<1>3. Len(q) \in Nat
  OBVIOUS
<1>. QED BY <1>1, <1>2, <1>3

LEMMA LongerFacts ==
  ASSUME NEW r \in Seq(Names), NEW x \in Names
  PROVE  /\ Append(r, x) \in Seq(Names) /\ Append(r, x) # <<>>
         /\ r # <<>> => Head(Append(r, x)) = Head(r) /\ Tail(Append(r, x)) = Append(Tail(r), x)
         /\ r = <<>> => Head(Append(r, x)) = x /\ Tail(Append(r, x)) = <<>>
         /\ \A q \in Seq(Names) : q \o Append(r, x) = Append(q \o r, x)
         /\ r # <<>> => Tail(r) \in Seq(Names)
<1>1. Append(r, x) \in Seq(Names) /\ Append(r, x) # <<>>
  BY AppendProperties
<1>2. r # <<>> => Head(Append(r, x)) = Head(r) /\ Tail(Append(r, x)) = Append(Tail(r), x)
  OBVIOUS
<1>3. r = <<>> => Head(Append(r, x)) = x /\ Tail(Append(r, x)) = <<>>
  OBVIOUS
<1>4. \A q \in Seq(Names) : q \o Append(r, x) = Append(q \o r, x)
  OBVIOUS
<1>. QED BY <1>1, <1>2, <1>3, <1>4

(* A walk t goes along with a walk s that has the name x less to go: until s is
   over they are at the same place, and then t makes one step more. *)
Longer(s, t, x) == t = At(s.path, Append(s.rest, x), s.links)

\* s ended below a file, or at x there is a link.
Elsewhere(f, s, x) ==
  /\ s.rest = <<>>
  /\ Entry(f, s.path).is = "file" \/ Entry(f, Append(s.path, x)).is = "link"

\* t has made its last step.
Arrived(f, s, t, x) ==
  /\ s.rest = <<>>
  /\ \/ Entry(f, Append(s.path, x)).is = "absent" /\ t = Error("absent")
     \/ /\ Entry(f, Append(s.path, x)).is \in {"dir", "file"}
        /\ t.is = "path" /\ t.rest = <<>> /\ t.path = Append(s.path, x)

Along(f, s, t, x) ==
  \/ s.is = "error" /\ t = s
  \/ OnTheWay(s) /\ (Longer(s, t, x) \/ Elsewhere(f, s, x) \/ Arrived(f, s, t, x))

LEMMA StepAlong ==
  ASSUME NEW f \in FileSystems, NEW confined \in BOOLEAN, NEW x \in Names,
         NEW s, NEW t, Along(f, s, t, x)
  PROVE  Along(f, Step(f, confined, s), Step(f, confined, t), x)
<1>1. CASE s.is = "error" /\ t = s
  BY <1>1, StepDone DEF Along
<1>2. CASE OnTheWay(s) /\ Elsewhere(f, s, x)
  <2>1. Step(f, confined, s) = s
    BY <1>2, StepDone DEF Elsewhere
  <2>. QED BY <1>2, <2>1 DEF Along
<1>3. CASE OnTheWay(s) /\ Arrived(f, s, t, x)
  <2>1. Step(f, confined, s) = s
    BY <1>3, StepDone DEF Arrived
  <2>2. Step(f, confined, t) = t
    BY <1>3, StepDone DEF Arrived, Error
  <2>. QED BY <1>3, <2>1, <2>2 DEF Along
<1>4. CASE OnTheWay(s) /\ Longer(s, t, x)
  <2>1. /\ t = At(s.path, Append(s.rest, x), s.links)
        /\ t.is = "path" /\ t.path = s.path /\ t.rest = Append(s.rest, x) /\ t.links = s.links
        /\ s.is = "path" /\ s.path \in Seq(Names) /\ s.rest \in Seq(Names) /\ s.links \in Nat
    BY <1>4 DEF Longer, At, OnTheWay
  <2>2. OnTheWay(t) /\ t.rest # <<>>
    BY <2>1, LongerFacts DEF OnTheWay
  <2>3. CASE s.rest = <<>>
    <3>. DEFINE entry == Entry(f, Append(s.path, x))
                u == Step(f, confined, t)
    <3>1. Step(f, confined, s) = s
      BY <2>3, StepDone
    <3>2. Head(t.rest) = x /\ Tail(t.rest) = <<>>
      BY <2>1, <2>3, LongerFacts
    <3>. HIDE DEF entry, u
    <3>3. \/ entry.is = "absent" /\ u = Error("absent")
          \/ entry.is = "link"
          \/ Followed(t, entry, u)
          \/ Descended(t, entry, u)
      BY <2>1, <2>2, <3>2, StepIs DEF entry, u
    <3>4. entry.is = "link" => Elsewhere(f, s, x)
      BY <2>3 DEF Elsewhere, entry
    <3>5. Descended(t, entry, u) => Arrived(f, s, u, x)
      BY <2>1, <2>3, <3>2 DEF Descended, Arrived, At, entry
    <3>6. entry.is = "absent" /\ u = Error("absent") => Arrived(f, s, u, x)
      BY <2>3 DEF Arrived, entry
    <3>7. Elsewhere(f, s, x) \/ Arrived(f, s, u, x)
      BY <3>3, <3>4, <3>5, <3>6 DEF Followed
    <3>. QED BY <1>4, <3>1, <3>7 DEF Along, u
  <2>4. CASE s.rest # <<>>
    <3>. DEFINE next == Append(s.path, Head(s.rest))
                entry == Entry(f, next)
                left == Tail(s.rest)
    <3>1. Head(t.rest) = Head(s.rest) /\ Tail(t.rest) = Append(left, x) /\ left \in Seq(Names)
      BY <2>1, <2>4, LongerFacts
    <3>2. GoodEntry(entry)
      BY EntryGood
    <3>3. GoodWalk(Step(f, confined, s))
      BY <1>4, StepGood DEF GoodWalk
    <3>4. Append(left, x) # <<>>
      BY <3>1, LongerFacts
    <3>5. Step(f, confined, s) =
            IF entry.is = "absent" THEN Error("absent")
            ELSE IF entry.is = "link" THEN
              IF s.links = 0 THEN Error("loop")
              ELSE IF confined /\ ~Within(entry.to) THEN Error("escape")
              ELSE At(<<>>, entry.to \o left, s.links - 1)
            ELSE IF entry.is = "file" /\ left # <<>> THEN Error("not a directory")
            ELSE At(next, left, s.links)
      BY <2>1, <2>4, StepGoesOn DEF Onward
    <3>6. Step(f, confined, t) =
            IF entry.is = "absent" THEN Error("absent")
            ELSE IF entry.is = "link" THEN
              IF s.links = 0 THEN Error("loop")
              ELSE IF confined /\ ~Within(entry.to) THEN Error("escape")
              ELSE At(<<>>, entry.to \o Append(left, x), s.links - 1)
            ELSE IF entry.is = "file" THEN Error("not a directory")
            ELSE At(next, Append(left, x), s.links)
      BY <2>1, <2>2, <3>1, <3>4, StepGoesOn DEF Onward
    <3>. HIDE DEF next, entry, left
    <3>7. \A what : Error(what).is = "error"
      BY DEF Error
    <3>8. \A p, r, n : At(p, r, n).is = "path" /\ At(p, r, n).path = p
                       /\ At(p, r, n).rest = r /\ At(p, r, n).links = n
      BY DEF At
    <3>. DEFINE a == Step(f, confined, s)  b == Step(f, confined, t)
    <3>. HIDE DEF a, b
    <3>9. CASE a.is = "error"
      <4>1. CASE entry.is = "absent"
        BY <3>5, <3>6, <4>1 DEF a, b, Along, Error
      <4>2. CASE entry.is = "link" /\ s.links = 0
        BY <3>5, <3>6, <4>2 DEF a, b, Along, Error
      <4>3. CASE entry.is = "link" /\ s.links # 0 /\ confined /\ ~Within(entry.to)
        BY <3>5, <3>6, <4>3 DEF a, b, Along, Error
      <4>4. CASE entry.is = "link" /\ s.links # 0 /\ ~(confined /\ ~Within(entry.to))
        BY <3>5, <3>8, <3>9, <4>4 DEF a
      <4>5. CASE entry.is \in {"dir", "file"} /\ ~(entry.is = "file" /\ left # <<>>)
        <5>1. a = At(next, left, s.links)
          BY <3>5, <4>5 DEF a
        <5>. QED BY <3>8, <3>9, <5>1
      <4>6. CASE entry.is = "file" /\ left # <<>>
        <5>1. a = Error("not a directory") /\ b = Error("not a directory")
          BY <3>5, <3>6, <4>6 DEF a, b
        <5>. QED BY <3>7, <5>1 DEF a, b, Along
      <4>. QED BY <3>2, <4>1, <4>2, <4>3, <4>4, <4>5, <4>6 DEF GoodEntry
    <3>10. CASE a = At(<<>>, entry.to \o left, s.links - 1) /\ b = At(<<>>, entry.to \o Append(left, x), s.links - 1)
                /\ entry.is = "link"
      <4>1. entry.to \o Append(left, x) = Append(entry.to \o left, x)
        <5>1. entry.to \in Seq(Names)
          BY <3>2, <3>10 DEF GoodEntry
        <5>2. \A q \in Seq(Names) : q \o Append(left, x) = Append(q \o left, x)
          BY <3>1, LongerFacts, Zenon
        <5>. QED BY <5>1, <5>2, Zenon
      <4>2. Longer(a, b, x)
        BY <3>8, <3>10, <4>1 DEF Longer
      <4>3. OnTheWay(a)
        BY <3>3, <3>8, <3>10 DEF GoodWalk, a
      <4>. QED BY <4>2, <4>3 DEF Along, a, b
    <3>11. CASE a = At(next, left, s.links) /\ b = At(next, Append(left, x), s.links)
      <4>1. Longer(a, b, x)
        BY <3>8, <3>11 DEF Longer
      <4>2. OnTheWay(a)
        BY <3>3, <3>8, <3>11 DEF GoodWalk, a
      <4>. QED BY <4>1, <4>2 DEF Along, a, b
    <3>12. CASE a = At(next, left, s.links) /\ entry.is = "file" /\ left = <<>>
      <4>1. Elsewhere(f, a, x)
        BY <3>8, <3>12 DEF Elsewhere, entry
      <4>2. OnTheWay(a)
        BY <3>3, <3>8, <3>12 DEF GoodWalk, a
      <4>. QED BY <4>1, <4>2 DEF Along, a, b
    <3>13. \/ a.is = "error"
           \/ a = At(<<>>, entry.to \o left, s.links - 1) /\ b = At(<<>>, entry.to \o Append(left, x), s.links - 1)
                /\ entry.is = "link"
           \/ a = At(next, left, s.links) /\ b = At(next, Append(left, x), s.links)
           \/ a = At(next, left, s.links) /\ entry.is = "file" /\ left = <<>>
      BY <3>5, <3>6, <3>7 DEF a, b
    <3>. QED BY <3>9, <3>10, <3>11, <3>12, <3>13
  <2>. QED BY <2>3, <2>4
<1>. QED BY <1>1, <1>2, <1>3, <1>4 DEF Along

LEMMA StepsAlong ==
  ASSUME NEW f \in FileSystems, NEW confined \in BOOLEAN, NEW x \in Names,
         NEW s, NEW t, Along(f, s, t, x)
  PROVE  Along(f, Steps(f, confined, s), Steps(f, confined, t), x)
BY StepAlong DEF Steps

(* The walk along a path goes along with the walk to its last name. *)
LEMMA WalksAlong ==
  ASSUME NEW f \in FileSystems, NEW confined \in BOOLEAN,
         NEW path \in Seq(Names), Len(path) \in 2..3
  PROVE  /\ Front(path) \in Seq(Names) /\ Last(path) \in Names
         /\ Len(Front(path)) = Len(path) - 1
         /\ Along(f, Walk(f, confined, Front(path)), Walk(f, confined, path), Last(path))
<1>. DEFINE front == Front(path)  x == Last(path)
<1>1. /\ front \in Seq(Names) /\ x \in Names /\ Len(front) = Len(path) - 1
      /\ path = Append(front, x) /\ front # <<>>
  <2>1. path # <<>>
    <3>1. path = <<>> => Len(path) = 0
      OBVIOUS
    <3>. QED BY <3>1
  <2>2. front \in Seq(Names) /\ x \in Names /\ Len(front) = Len(path) - 1 /\ path = Append(front, x)
    BY <2>1, FrontLast
  <2>3. front = <<>> => Len(front) = 0
    <3>. HIDE DEF front
    <3>. QED OBVIOUS
  <2>. HIDE DEF front, x
  <2>4. front # <<>>
    BY <2>2, <2>3
  <2>. QED BY <2>2, <2>4
<1>. HIDE DEF front, x
<1>2. Along(f, Begin(front), Begin(path), x)
  <2>1. OnTheWay(Begin(front))
    <3>1. Begin(front) = At(<<>>, front, 3) /\ <<>> \in Seq(Names) /\ 3 \in Nat
      BY DEF Begin, MaxLinks
    <3>. HIDE DEF front
    <3>2. /\ At(<<>>, front, 3).path = <<>> /\ At(<<>>, front, 3).rest = front
          /\ At(<<>>, front, 3).links = 3
      BY DEF At
    <3>. DEFINE start == At(<<>>, front, 3)
    <3>3. start = At(start.path, start.rest, start.links)
      BY <3>2
    <3>4. start.path \in Seq(Names) /\ start.rest \in Seq(Names) /\ start.links \in Nat
      BY <1>1, <3>1, <3>2
    <3>5. start.path # <<>> \/ start.rest # <<>>
      BY <1>1, <3>2
    <3>. HIDE DEF start
    <3>. QED BY <3>1, <3>3, <3>4, <3>5 DEF OnTheWay, start
  <2>2. Longer(Begin(front), Begin(path), x)
    BY <1>1 DEF Longer, Begin, At
  <2>. QED BY <2>1, <2>2 DEF Along
<1>3. Along(f, Walk(f, confined, front), Walk(f, confined, path), x)
  BY <1>1, <1>2, StepsAlong DEF Walk
<1>. QED BY <1>1, <1>3 DEF front, x

(* What Lstat says of a path that is no link, Stat says too. *)
LEMMA StatIsLstat ==
  ASSUME NEW f \in FileSystems, NEW path \in Seq(Names), Len(path) \in 2..3,
         Lstat(f, path).is \notin {"link", "error"}
  PROVE  Stat(f, path) = Lstat(f, path)
<1>. DEFINE front == Front(path)  x == Last(path)
            s == Walk(f, TRUE, front)  t == Walk(f, TRUE, path)
<1>1. front \in Seq(Names) /\ x \in Names /\ Len(front) = Len(path) - 1
  BY WalksAlong
<1>3. Along(f, s, t, x)
  BY WalksAlong
<1>. HIDE DEF front, x
<1>4. \/ s.is = "error"
      \/ OnTheWay(s) /\ s.rest = <<>>
  <2>1. Len(front) \in 1..3
    <3>1. \A n \in 2..3 : n - 1 \in 1..3
      OBVIOUS
    <3>. QED BY <1>1, <3>1, Zenon
  <2>. QED BY <1>1, <2>1, WalkEnds
<1>5. \/ t.is = "error"
      \/ OnTheWay(t) /\ t.rest = <<>>
  <2>1. Len(path) \in 1..3
    OBVIOUS
  <2>. QED BY <2>1, WalkEnds
<1>6. Lstat(f, path) = IF s.is = "path"
                       THEN IF Entry(f, s.path).is = "file" THEN Error("not a directory")
                            ELSE Entry(f, Append(s.path, x))
                       ELSE IF s.what = "absent" THEN Absent ELSE s
  BY DEF Lstat, s, front, x
<1>7. Stat(f, path) = IF t.is = "path" THEN Entry(f, t.path)
                      ELSE IF t.what = "absent" THEN Absent ELSE Error("unreadable")
  BY DEF Stat, t
<1>. HIDE DEF s, t
<1>8. CASE s.is = "error"
  BY <1>3, <1>6, <1>7, <1>8 DEF Along, OnTheWay, At
<1>10. \A what : Error(what).is = "error" /\ Error(what).what = what
  BY DEF Error
<1>9. CASE OnTheWay(s)
  <2>1. s.is = "path"
    BY <1>9 DEF OnTheWay, At
  <2>2. ~Elsewhere(f, s, x)
    BY <1>6, <1>10, <2>1 DEF Elsewhere
  <2>3. ~Longer(s, t, x)
    <3>1. Append(s.rest, x) # <<>>
      BY <1>1, <1>9, LongerFacts DEF OnTheWay
    <3>. QED BY <1>5, <3>1 DEF Longer, At
  <2>4. Arrived(f, s, t, x)
    BY <1>3, <2>1, <2>2, <2>3 DEF Along
  <2>5. CASE Entry(f, Append(s.path, x)).is = "absent" /\ t = Error("absent")
    <3>1. Entry(f, Append(s.path, x)) = Absent
      BY <2>5, AbsentIs
    <3>. QED BY <1>6, <1>7, <1>10, <2>1, <2>5, <3>1
  <2>6. CASE t.is = "path" /\ t.path = Append(s.path, x)
    BY <1>6, <1>7, <1>10, <2>1, <2>6
  <2>. QED BY <2>4, <2>5, <2>6 DEF Arrived
<1>. QED BY <1>4, <1>8, <1>9

-----------------------------------------------------------------------------
(* Files that yield the same token show the same, through links and all. *)
LEMMA TokensShowAll ==
  ASSUME NEW f \in FileSystems, NEW g \in FileSystems,
         NEW path \in Seq(Names), Len(path) \in 2..3,
         Fingerprint(f, path) = Fingerprint(g, path), Fingerprint(f, path).is # "error"
  PROVE  Stat(f, path) = Stat(g, path)
<1>1. CASE Lstat(f, path).is = "link"
  BY <1>1 DEF Fingerprint
<1>2. CASE Lstat(f, path).is # "link"
  <2>1. Lstat(g, path).is # "link" /\ Lstat(f, path) = Lstat(g, path)
    BY <1>2 DEF Fingerprint
  <2>2. Lstat(f, path).is # "error"
    BY <1>2 DEF Fingerprint
  <2>. QED BY <1>2, <2>1, <2>2, StatIsLstat
<1>. QED BY <1>1, <1>2

LEMMA StepsDone ==
  ASSUME NEW f, NEW confined, NEW s, s.is = "error" \/ s.rest = <<>>
  PROVE  Steps(f, confined, s) = s
BY StepDone DEF Steps

(* The session knows its workspace by a link, and the link leads to it. *)
LEMMA RootCanonical ==
  ASSUME NEW f \in FileSystems
  PROVE  CanonicalRoot(f) = <<"w">>
<1>1. DOMAIN f = {<<"w", "d">>, <<"w", "d", "f">>, <<"w", "g">>}
  BY DEF FileSystems, D, DF, G
<1>2. <<"ws">> \notin DOMAIN f /\ <<"w">> \notin DOMAIN f
  BY <1>1
<1>3. Entry(f, <<"ws">>) = Link(<<"w">>) /\ Entry(f, <<"w">>) = Dir
  BY <1>2 DEF Entry, Fixed, FixedDirs, FixedFiles, Root, RootLink, Outside
<1>4. Head(<<"ws">>) = "ws" /\ Tail(<<"ws">>) = <<>> /\ Append(<<>>, "ws") = <<"ws">>
  OBVIOUS
<1>5. /\ Head(<<"w">>) = "w" /\ Tail(<<"w">>) = <<>> /\ Append(<<>>, "w") = <<"w">>
      /\ <<"w">> \o <<>> = <<"w">> /\ <<"w">> # <<>> /\ <<"ws">> # <<>>
  OBVIOUS
<1>. DEFINE s == Begin(<<"ws">>)  a == At(<<>>, <<"w">>, 2)  b == At(<<"w">>, <<>>, 2)
<1>6. Step(f, FALSE, s) = a
  <2>1. s.is = "path" /\ s.path = <<>> /\ s.rest = <<"ws">> /\ s.links = 3
    BY DEF Begin, At, MaxLinks
  <2>2. Link(<<"w">>).is = "link" /\ Link(<<"w">>).to = <<"w">>
    BY DEF Link
  <2>. HIDE DEF s
  <2>3. Step(f, FALSE, s) = Onward(FALSE, s, Link(<<"w">>))
    BY <1>3, <1>4, <1>5, <2>1, StepGoesOn
  <2>4. s.links # 0
    BY <2>1
  <2>5. Onward(FALSE, s, Link(<<"w">>)) = At(<<>>, <<"w">> \o Tail(s.rest), s.links - 1)
    BY <2>2, <2>4, Zenon DEF Onward
  <2>6. Step(f, FALSE, s) = At(<<>>, <<"w">> \o <<>>, s.links - 1)
    BY <1>4, <2>1, <2>3, <2>5
  <2>7. 3 - 1 = 2
    OBVIOUS
  <2>. QED BY <1>5, <2>1, <2>6, <2>7, Zenon
<1>7. Step(f, FALSE, a) = b
  <2>1. a.is = "path" /\ a.path = <<>> /\ a.rest = <<"w">> /\ a.links = 2
    BY DEF At
  <2>2. Dir.is = "dir"
    BY DEF Dir
  <2>. HIDE DEF a
  <2>3. Step(f, FALSE, a) = Onward(FALSE, a, Dir)
    BY <1>3, <1>5, <2>1, StepGoesOn
  <2>. QED BY <1>5, <2>1, <2>2, <2>3 DEF Onward
<1>8. b.is = "path" /\ b.rest = <<>> /\ b.path = <<"w">>
  BY DEF At
<1>. HIDE DEF a, b, s
<1>9. Steps(f, FALSE, s) = b
  <2>1. Step(f, FALSE, b) = b
    BY <1>8, StepDone
  <2>. QED BY <1>6, <1>7, <2>1 DEF Steps
<1>10. Walk(f, FALSE, <<"ws">>) = b
  BY <1>8, <1>9, StepsDone DEF Walk, s
<1>. QED BY <1>8, <1>10 DEF CanonicalRoot, EvalSymlinks, RootLink

(* The workspace itself is there. *)
LEMMA RootFound ==
  ASSUME NEW f \in FileSystems
  PROVE  EvalSymlinks(f, <<"w">>).is = "path" /\ EvalSymlinks(f, <<"w">>).path = <<"w">>
<1>1. DOMAIN f = {<<"w", "d">>, <<"w", "d", "f">>, <<"w", "g">>}
  BY DEF FileSystems, D, DF, G
<1>2. <<"w">> \notin DOMAIN f
  BY <1>1
<1>3. Entry(f, <<"w">>) = Dir
  BY <1>2 DEF Entry, Fixed, FixedDirs, FixedFiles, Root, RootLink, Outside
<1>4. /\ Head(<<"w">>) = "w" /\ Tail(<<"w">>) = <<>> /\ Append(<<>>, "w") = <<"w">>
      /\ <<"w">> # <<>>
  OBVIOUS
<1>. DEFINE s == Begin(<<"w">>)  b == At(<<"w">>, <<>>, 3)
<1>5. s.is = "path" /\ s.path = <<>> /\ s.rest = <<"w">> /\ s.links = 3
  BY DEF Begin, At, MaxLinks
<1>6. b.is = "path" /\ b.rest = <<>> /\ b.path = <<"w">>
  BY DEF At
<1>7. Dir.is = "dir"
  BY DEF Dir
<1>. HIDE DEF s
<1>8. Step(f, FALSE, s) = Onward(FALSE, s, Dir)
  BY <1>3, <1>4, <1>5, StepGoesOn
<1>9. Step(f, FALSE, s) = b
  BY <1>4, <1>5, <1>7, <1>8 DEF Onward
<1>. HIDE DEF b
<1>10. Steps(f, FALSE, s) = b
  <2>1. Step(f, FALSE, b) = b
    BY <1>6, StepDone
  <2>. QED BY <1>9, <2>1 DEF Steps
<1>11. Walk(f, FALSE, <<"w">>) = b
  BY <1>6, <1>10, StepsDone DEF Walk, s
<1>. QED BY <1>6, <1>11 DEF EvalSymlinks

(* The first name of a path that begins with the workspace. *)
LEMMA FirstOf ==
  ASSUME NEW q \in Seq(Names), q # <<>>, q[1] = "w"
  PROVE  SubSeq(q, 1, 1) = <<"w">>
<1>1. <<"w">> \in Seq(Names) /\ Len(<<"w">>) = 1 /\ <<"w">>[1] = "w"
  BY DEF Names
<1>. DEFINE root == <<"w">>
<1>. HIDE DEF root
<1>2. root \in Seq(Names) /\ Len(root) = 1 /\ root[1] = "w"
  BY <1>1 DEF root
<1>3. Len(q) \in Nat /\ Len(q) >= 1
  BY EmptySeq, LenProperties
<1>4. /\ SubSeq(q, 1, 1) \in Seq(Names) /\ Len(SubSeq(q, 1, 1)) = 1
      /\ SubSeq(q, 1, 1)[1] = q[1]
  BY <1>3
<1>5. SubSeq(q, 1, 1) = root
  BY <1>2, <1>4, SeqEqual
<1>. QED BY <1>5 DEF root

(* What lies within the workspace begins with its name. *)
LEMMA WithinIs ==
  ASSUME NEW q \in Seq(Names)
  PROVE  IsPrefix(<<"w">>, q) <=> q # <<>> /\ q[1] = "w"
<1>1. <<"w">> \in Seq(Names) /\ Len(<<"w">>) = 1 /\ <<"w">>[1] = "w"
  BY DEF Names
<1>. DEFINE root == <<"w">>
<1>. HIDE DEF root
<1>2. root \in Seq(Names) /\ Len(root) = 1 /\ root[1] = "w"
  BY <1>1 DEF root
<1>3. SubSeq(root, 1, 1) = root
  BY <1>2, SubSeqFull
<1>4. CASE q = <<>>
  BY <1>2, <1>4 DEF IsPrefix, root
<1>5. CASE q # <<>>
  <2>1. Len(q) \in Nat /\ Len(q) >= 1
    BY <1>5, EmptySeq, LenProperties
  <2>2. /\ SubSeq(q, 1, 1) \in Seq(Names) /\ Len(SubSeq(q, 1, 1)) = 1
        /\ SubSeq(q, 1, 1)[1] = q[1]
    BY <2>1
  <2>3. SubSeq(q, 1, 1) = root <=> q[1] = "w"
    BY <1>2, <2>2, SeqEqual
  <2>. QED BY <1>2, <1>3, <1>5, <2>1, <2>3 DEF IsPrefix, root
<1>. QED BY <1>4, <1>5

(* What a classifier may look at. *)
LEMMA TargetPaths ==
  ASSUME NEW t \in Targets
  PROVE  /\ <<"w">> \o t \in Seq(Names) /\ Len(<<"w">> \o t) \in 2..3
         /\ (<<"w">> \o t)[1] = "w" /\ <<"w">> \o t # <<>>
         /\ IsPrefix(<<"w">>, <<"w">> \o t)
<1>1. t \in Seq(Names) /\ Len(t) \in 1..2
  <2>1. <<"d", "f">> \in Seq(Names) /\ Len(<<"d", "f">>) = 2
    BY DEF Names
  <2>2. <<"g">> \in Seq(Names) /\ Len(<<"g">>) = 1
    BY DEF Names
  <2>3. 1 \in 1..2 /\ 2 \in 1..2
    OBVIOUS
  <2>. QED BY <2>1, <2>2, <2>3, ReviewAssumption, Zenon
<1>2. <<"w">> \in Seq(Names) /\ Len(<<"w">>) = 1 /\ <<"w">>[1] = "w"
  BY DEF Names
<1>. DEFINE root == <<"w">>  path == root \o t
<1>. HIDE DEF root, path
<1>3. root \in Seq(Names) /\ Len(root) = 1 /\ root[1] = "w"
  BY <1>2 DEF root
<1>4. path \in Seq(Names) /\ Len(path) = 1 + Len(t) /\ path[1] = "w"
  <2>1. /\ root \o t \in Seq(Names) /\ Len(root \o t) = Len(root) + Len(t)
        /\ \A i \in 1..Len(root) + Len(t) :
             (root \o t)[i] = IF i <= Len(root) THEN root[i] ELSE t[i - Len(root)]
    BY <1>1, <1>3, ConcatProperties
  <2>2. 1 \in 1..Len(root) + Len(t) /\ 1 <= Len(root)
    BY <1>1, <1>3
  <2>. QED BY <1>3, <2>1, <2>2, Zenon DEF path
<1>5. Len(path) \in 2..3
  <2>1. \A n \in 1..2 : 1 + n \in 2..3
    OBVIOUS
  <2>. QED BY <1>1, <1>4, <2>1, Zenon
<1>6. path # <<>>
  <2>1. path = <<>> => Len(path) = 0
    OBVIOUS
  <2>. QED BY <1>5, <2>1
<1>. QED BY <1>4, <1>5, <1>6, WithinIs DEF path, root

(* The empty workspace is one, and a change leads from one to another. *)
LEMMA SomeWorkspace == Bare \in FileSystems
<1>1. /\ DOMAIN Choice = {D, DF, G}
      /\ \A p \in {D, DF, G} : Absent \in Choice[p]
  BY ChoiceIs DEF Choice
<1> QED BY <1>1 DEF FileSystems, Bare

LEMMA ChangedWorkspace ==
  ASSUME NEW f \in FileSystems, NEW p \in DOMAIN f, NEW entry \in Choice[p]
  PROVE  Changed(f, p, entry) \in FileSystems
<1>1. /\ DOMAIN f = {D, DF, G} /\ DOMAIN Choice = {D, DF, G}
      /\ f \in [{D, DF, G} -> UNION {Choice[q] : q \in DOMAIN Choice}]
      /\ \A q \in DOMAIN f : f[q] \in Choice[q]
      /\ f[D] # Dir => f[DF] = Absent
  BY DEF FileSystems, Choice
<1>2. Absent \in Choice[DF] /\ D # DF /\ D # G /\ DF # G
  BY ChoiceIs DEF D, DF, G
<1>3. CASE p = D
  BY <1>1, <1>2, <1>3 DEF Changed, FileSystems
<1>4. CASE p = DF /\ f[D] # Dir
  BY <1>2, <1>4 DEF Changed
<1>5. CASE p = G \/ (p = DF /\ f[D] = Dir)
  BY <1>1, <1>2, <1>5 DEF Changed, FileSystems
<1>. QED BY <1>1, <1>3, <1>4, <1>5

-----------------------------------------------------------------------------
(* The greatest of some numbers. *)
LEMMA MaxIs ==
  ASSUME NEW S \in SUBSET Int, NEW m \in S, \A i \in S : m >= i
  PROVE  Max(S) = m
<1>1. \A a \in S : (\A i \in S : a >= i) => a = m
  OBVIOUS
<1>. QED BY <1>1 DEF Max

(* The containment check of a path of the workspace, by how far the path can be
   followed: the longest part that is not missing is the whole of it, its
   parent, or the workspace. *)
LEMMA ContainmentExact ==
  ASSUME NEW f \in FileSystems, NEW t \in Targets
  PROVE  LET path == CanonicalRoot(f) \o t
             found(i) == EvalSymlinks(f, SubSeq(path, 1, i))
             missing(i) == found(i) = Error("absent")
             end == found(Len(path)) IN
         IF missing(Len(path))
         THEN \E i \in 1..(Len(path) - 1) :
                /\ found(i).is = "path" /\ missing(i + 1)
                /\ Contained(f, t) <=> Within(found(i).path)
         ELSE Contained(f, t) <=> end.is = "path" /\ Within(end.path)
<1>. DEFINE path == CanonicalRoot(f) \o t
            len == Len(path)
            Eval(n) == EvalSymlinks(f, SubSeq(path, 1, n))
            there == {i \in 1..len : ~(Eval(i) = Error("absent"))}
            n == Max(there)
            canonical == CanonicalizeWithinRoot(f, path)
<1>1. CanonicalRoot(f) = <<"w">> /\ Len(<<"w">>) = 1
  BY RootCanonical
<1>2. /\ path \in Seq(Names) /\ len \in 2..3 /\ path # <<>>
  BY <1>1, TargetPaths
<1>3. canonical = IF Eval(n).is = "path"
                  THEN [Eval(n) EXCEPT !.path = @ \o SubSeq(path, n + 1, len)]
                  ELSE Eval(n)
  BY <1>1 DEF CanonicalizeWithinRoot
<1>4. Contained(f, t) <=> canonical.is = "path" /\ IsPrefix(<<"w">>, canonical.path)
  BY <1>1 DEF Contained
<1>5. Eval(1).is = "path"
  <2>1. SubSeq(path, 1, 1) = <<"w">>
    <3>1. path[1] = "w"
      BY <1>1, TargetPaths
    <3>. HIDE DEF path
    <3>. QED BY <1>2, <3>1, FirstOf
  <2>. QED BY <2>1, RootFound
<1>6. Eval(len - 1).is = "error" => Eval(len) = Eval(len - 1)
  <2>1. SubSeq(path, 1, len) = path
    BY <1>2, SubSeqFull
  <2>2. SubSeq(path, 1, len - 1) = Front(path)
    BY DEF Front
  <2>3. Along(f, Walk(f, FALSE, Front(path)), Walk(f, FALSE, path), Last(path))
    BY <1>2, WalksAlong
  <2>. HIDE DEF path
  <2>4. \A s : OnTheWay(s) => s.is # "error"
    BY DEF OnTheWay, At
  <2>. QED BY <2>1, <2>2, <2>3, <2>4 DEF Along, EvalSymlinks
<1>7. \A i \in 1..len : \/ Eval(i).is = "error"
                        \/ OnTheWay(Eval(i)) /\ Eval(i).path # <<>>
  <2>. TAKE i \in 1..len
  <2>1. SubSeq(path, 1, i) \in Seq(Names) /\ Len(SubSeq(path, 1, i)) = i
    <3>. HIDE DEF path
    <3>. QED BY <1>2, SubSeqProperties
  <2>2. i \in 1..3
    BY <1>2
  <2>. QED BY <2>1, <2>2, WalkEnds DEF EvalSymlinks
<1>8. \A s : OnTheWay(s) => s.is = "path" /\ s.path \in Seq(Names) /\ s = At(s.path, s.rest, s.links)
  BY DEF OnTheWay, At
<1>9. \A what : Error(what).is = "error" /\ Error(what).what = what
  BY DEF Error
<1>10. there \in SUBSET Int /\ (\A i \in there : i \in 1..len) /\ len \in 2..3
  BY <1>2
<1>11. Within(Eval(len).path) <=> IsPrefix(<<"w">>, Eval(len).path)
  BY DEF Within, Root
<1>12. SubSeq(path, len + 1, len) = <<>>
  <2>. HIDE DEF path
  <2>. QED BY <1>2, SubSeqEmpty
<1>13. len \in 1..len /\ len - 1 \in 1..len
  <2>. HIDE DEF len
  <2>. QED BY <1>2
<1>14. len \in there <=> ~(Eval(len) = Error("absent"))
  BY <1>13
<1>15. len - 1 \in there <=> ~(Eval(len - 1) = Error("absent"))
  BY <1>13
<1>16. \A i \in there : ~(Eval(i) = Error("absent"))
  OBVIOUS
<1>. HIDE DEF there, Eval
<1>17. len \in there => n = len
  <2>. SUFFICES ASSUME len \in there PROVE n = len
    OBVIOUS
  <2>. HIDE DEF len
  <2>1. \A i \in there : len >= i
    BY <1>10
  <2>. QED BY <1>10, <2>1, MaxIs
<1>18. len \notin there /\ len - 1 \in there => n = len - 1
  <2>. SUFFICES ASSUME len \notin there, len - 1 \in there PROVE n = len - 1
    OBVIOUS
  <2>. DEFINE m == len - 1
  <2>. HIDE DEF len
  <2>1. \A i \in there : m >= i
    BY <1>10
  <2>2. m \in there
    OBVIOUS
  <2>. HIDE DEF m
  <2>3. n = m
    BY <1>10, <2>1, <2>2, MaxIs
  <2>. QED BY <2>3 DEF m
<1>. HIDE DEF n, canonical
<1>19. ASSUME Eval(len).is = "path" PROVE Contained(f, t) <=> Within(Eval(len).path)
  <2>1. n = len
    BY <1>9, <1>14, <1>17, <1>19
  <2>2. Eval(len).path \in Seq(Names) /\ Eval(len) = At(Eval(len).path, Eval(len).rest, Eval(len).links)
    BY <1>7, <1>8, <1>13, <1>19
  <2>3. canonical = [Eval(len) EXCEPT !.path = @ \o <<>>]
    BY <1>3, <1>12, <1>19, <2>1
  <2>4. canonical.is = "path" /\ canonical.path = Eval(len).path \o <<>>
    BY <1>19, <2>2, <2>3 DEF At
  <2>5. canonical.path = Eval(len).path
    BY <2>2, <2>4, ConcatEmptySeq
  <2>. QED BY <1>4, <1>11, <2>4, <2>5
<1>20. ASSUME NEW m \in 1..(len - 1), n = m, Eval(m).is = "path"
       PROVE  Contained(f, t) <=> Within(Eval(m).path)
  <2>. DEFINE p == Eval(m).path  x == SubSeq(path, n + 1, len)
  <2>1. m \in 1..len
    <3>. HIDE DEF len
    <3>. QED BY <1>2
  <2>2. p \in Seq(Names) /\ p # <<>> /\ Eval(m) = At(p, Eval(m).rest, Eval(m).links)
    BY <1>7, <1>8, <1>9, <1>20, <2>1
  <2>3. x \in Seq(Names)
    <3>1. n + 1 \in 1..len
      <4>. HIDE DEF len
      <4>. QED BY <1>2, <1>20
    <3>. HIDE DEF path
    <3>2. \A k \in 1..Len(path) : SubSeq(path, k, Len(path)) \in Seq(Names)
      BY <1>2, SubSeqProperties
    <3>. QED BY <3>1, <3>2
  <2>4. canonical = [Eval(m) EXCEPT !.path = @ \o x]
    BY <1>3, <1>20
  <2>. HIDE DEF x
  <2>5. canonical.is = "path" /\ canonical.path = p \o x
    BY <1>20, <2>2, <2>4 DEF At
  <2>. HIDE DEF p
  <2>6. p \o x \in Seq(Names) /\ p \o x # <<>> /\ (p \o x)[1] = p[1]
    <3>1. Len(p) \in Nat /\ Len(p) >= 1 /\ Len(x) \in Nat
      BY <2>2, <2>3, EmptySeq, LenProperties
    <3>2. p \o x \in Seq(Names) /\ Len(p \o x) = Len(p) + Len(x) /\ (p \o x)[1] = p[1]
      BY <2>2, <2>3, <3>1, ConcatProperties
    <3>. QED BY <3>1, <3>2, EmptySeq
  <2>7. IsPrefix(<<"w">>, p \o x) <=> IsPrefix(<<"w">>, p)
    BY <2>2, <2>6, WithinIs
  <2>. QED BY <1>4, <2>5, <2>7 DEF Within, Root, p
<1>21. ASSUME Eval(len).is = "error", Eval(len) # Error("absent") PROVE ~Contained(f, t)
  <2>1. n = len
    BY <1>14, <1>17, <1>21
  <2>2. canonical = Eval(len)
    BY <1>3, <1>21, <2>1
  <2>. QED BY <1>4, <1>21, <2>2
<1>. DEFINE Missing(i) == Eval(i) = Error("absent")
            Ends(i) == /\ Eval(i).is = "path" /\ Missing(i + 1)
                       /\ Contained(f, t) <=> Within(Eval(i).path)
<1>22. ASSUME Missing(len) PROVE \E i \in 1..(len - 1) : Ends(i)
  <2>1. CASE Eval(len - 1).is = "path"
    <3>1. n = len - 1
      BY <1>9, <1>14, <1>15, <1>18, <1>22, <2>1
    <3>2. len - 1 \in 1..(len - 1) /\ (len - 1) + 1 = len
      <4>. HIDE DEF len
      <4>. QED BY <1>2
    <3>3. Contained(f, t) <=> Within(Eval(len - 1).path)
      BY <1>20, <2>1, <3>1, <3>2
    <3>. QED BY <1>22, <2>1, <3>2, <3>3
  <2>2. CASE Eval(len - 1).is # "path"
    <3>1. Eval(len - 1).is = "error"
      BY <1>7, <1>8, <1>13, <2>2
    <3>2. Missing(len - 1)
      BY <1>6, <1>22, <3>1
    <3>3. len - 1 # 1 /\ len \in Nat
      BY <1>2, <1>5, <2>2
    <3>4. len = 3
      <4>. HIDE DEF len
      <4>. QED BY <1>10, <3>3
    <3>5. there = {1}
      <4>1. 1 \in there
        <5>1. 1 \in 1..len
          BY <3>4
        <5>. QED BY <1>5, <1>9, <5>1 DEF there
      <4>2. \A i \in there : i = 1
        <5>1. 3 \notin there /\ 2 \notin there
          <6>1. len - 1 = 2
            BY <3>4
          <6>. QED BY <1>16, <1>22, <3>2, <3>4, <6>1
        <5>. QED BY <1>10, <3>4, <5>1
      <4>. QED BY <4>1, <4>2
    <3>6. n = 1
      BY <3>5, MaxIs DEF n
    <3>7. 1 \in 1..(len - 1) /\ len - 1 = 1 + 1
      BY <3>4
    <3>8. Contained(f, t) <=> Within(Eval(1).path)
      BY <1>5, <1>20, <3>6, <3>7
    <3>. QED BY <1>5, <3>2, <3>7, <3>8
  <2>. QED BY <2>1, <2>2
<1>23. ASSUME ~Missing(len)
       PROVE  Contained(f, t) <=> Eval(len).is = "path" /\ Within(Eval(len).path)
  BY <1>7, <1>8, <1>13, <1>19, <1>21, <1>23
<1>. QED BY <1>22, <1>23 DEF Eval

-----------------------------------------------------------------------------
(* The inductive invariant. *)
InTypes ==
  /\ session.profile \in ProfileNames /\ session.interactive \in BOOLEAN
  /\ call \in Calls /\ sessions \in Nat /\ changes \in Nat
  /\ fs \in FileSystems
  /\ asked \in Targets \cup {None}
  /\ gate \in {"none", "open", "granted", "refused"}
  /\ review \in {"off", "gathering", "rechecking", "confirmed", "ineligible", "stale",
                 "cut off"}

\* What an observation made in the workspace w records.
Observation(w, target) ==
  [target |-> target, token |-> Fingerprint(w, target), saw |-> Stat(w, target)]

Observations ==
  {o \in {Observation(w, <<"w">> \o t) : w \in FileSystems, t \in Targets} :
     o.token.is # "error"}

\* What was observed was there to observe; what was confirmed showed the same.
Evidence ==
  /\ observed \in Seq(Observations)
  /\ confirmed = [i \in 1..Len(confirmed) |-> observed[i].saw]
  /\ Len(confirmed) \in Nat /\ Len(confirmed) <= Len(observed)
  /\ changes = 0 => \A i \in 1..Len(observed) :
                      observed[i].token = Fingerprint(fs, observed[i].target)

\* How far the review is.
Progress ==
  /\ review = "off" => observed = <<>> /\ changes = 0
  /\ review # "off" => session.review.enabled
  /\ review = "stale" => changes > 0
  /\ review = "confirmed" => Len(confirmed) = Len(observed)
  /\ review \in {"rechecking", "confirmed"} => Eligible(session.review.policy, verdict)

\* Only a trusted session is reviewed, and its verifiers have its ceiling.
Registered ==
  \/ session.review = Disabled
  \/ /\ session.profile = "trusted"
     /\ \E policy \in Policies : session.review = Enabled("trusted", policy)

Required == AccessFor(call.role, session.profile, call.kind)

\* Who may have granted the call.
Granted ==
  /\ gate = "open" => Required = "gated" /\ session.interactive
  /\ by = "classifier" => gate = "granted" /\ review = "confirmed"
  /\ gate = "granted" =>
       /\ by \in {"access", "rule", "human", "classifier"}
       /\ Required = IF by = "access" THEN "allow" ELSE "gated"
       /\ by \in {"human", "classifier"} => session.interactive

ReviewInv == InTypes /\ Evidence /\ Progress /\ Registered /\ Granted

LEMMA ObservationShows ==
  ASSUME NEW o \in Observations, NEW f \in FileSystems
  PROVE  /\ IsPrefix(CanonicalRoot(f), o.target) /\ o.token.is # "error"
         /\ Fingerprint(f, o.target) = o.token => Stat(f, o.target) = o.saw
<1>1. PICK w \in FileSystems, t \in Targets : o = Observation(w, <<"w">> \o t)
  BY DEF Observations
<1>2. /\ o.target = <<"w">> \o t
      /\ o.token = Fingerprint(w, o.target) /\ o.saw = Stat(w, o.target)
  BY <1>1 DEF Observation
<1>3. o.token.is # "error"
  BY DEF Observations
<1>4. IsPrefix(CanonicalRoot(f), o.target)
  BY <1>2, TargetPaths, RootCanonical
<1>5. o.target \in Seq(Names) /\ Len(o.target) \in 2..3
  BY <1>2, TargetPaths
<1>. QED BY <1>2, <1>3, <1>4, <1>5, TokensShowAll

(* Nothing is left of a review that is over. *)
LEMMA QuietIs ==
  ASSUME Quiet
  PROVE  /\ fs' \in FileSystems /\ asked' = None /\ review' = "off" /\ changes' = 0
         /\ Evidence' /\ Progress'
<1>1. /\ review' = "off" /\ fs' \in FileSystems /\ asked' = None
      /\ observed' = <<>> /\ confirmed' = <<>> /\ changes' = 0
  BY SomeWorkspace DEF Quiet
<1>2. Progress'
  BY <1>1 DEF Progress
<1>3. <<>> \in Seq(Observations) /\ Len(<<>>) = 0
  OBVIOUS
<1>. QED BY <1>1, <1>2, <1>3 DEF Evidence

LEMMA QuietTypes ==
  ASSUME Quiet
  PROVE  /\ fs' \in FileSystems /\ asked' \in Targets \cup {None} /\ changes' \in Nat
         /\ review' \in {"off", "gathering", "rechecking", "confirmed", "ineligible", "stale",
                         "cut off"}
BY QuietIs

LEMMA InitInv == Init => ReviewInv
<1>. SUFFICES ASSUME Init PROVE ReviewInv
  OBVIOUS
<1>1. InTypes
  BY SomeWorkspace DEF Init, InTypes, Nobody, ProfileNames
<1>2. Evidence
  BY DEF Init, Evidence
<1>3. Progress /\ Granted
  BY ReviewAssumption DEF Init, Progress, Granted
<1>4. Registered
  BY DEF Init, Registered, Nobody
<1>. QED BY <1>1, <1>2, <1>3, <1>4 DEF ReviewInv

LEMMA RegistrationIs ==
  ASSUME NEW profile, NEW program \in Policies \cup {None}, NEW file \in Policies \cup {None}
  PROVE  LET r == Registration(profile, program, file) IN
         \/ r = Disabled
         \/ profile = "trusted" /\ \E policy \in Policies : r = Enabled("trusted", policy)
BY DEF Registration

(* The state in which a call asks its gate. *)
LEMMA OpenStep ==
  ASSUME ReviewInv, OpenSession
  PROVE  ReviewInv'
<1>1. PICK profile \in ProfileNames, interactive \in BOOLEAN,
           program \in Policies \cup {None}, file \in Policies \cup {None} :
        /\ session' = [profile |-> profile, interactive |-> interactive,
                       review |-> Registration(profile, program, file)]
        /\ call' \in Calls
        /\ Authorize(session', call', Store(interactive))
  BY DEF OpenSession
<1>2. PICK approved : Authorize(session', call', approved)
  BY <1>1
<1>3. /\ session'.profile = profile /\ session'.interactive = interactive
      /\ session'.review = Registration(profile, program, file)
  BY <1>1
<1>4. sessions' = sessions + 1 /\ Quiet
  BY DEF OpenSession
<1>5. Registered'
  BY <1>3, RegistrationIs DEF Registered
<1>. DEFINE access == AccessFor(call'.role, session'.profile, call'.kind)
<1>6. Required' = access
  BY DEF Required
<1>7. /\ gate' = IF access = "allow" \/ (access = "gated" /\ call'.kind \in approved)
                 THEN "granted"
                 ELSE IF access = "gated" /\ session'.interactive THEN "open" ELSE "refused"
      /\ by' = IF gate' = "open" THEN None
               ELSE IF access = "gated" /\ gate' = "granted" THEN "rule" ELSE "access"
  BY <1>2 DEF Authorize
<1>. HIDE DEF access
<1>8. Granted'
  BY <1>6, <1>7, ReviewAssumption DEF Granted
<1>9. gate' \in {"granted", "open", "refused"}
  BY <1>7
<1>10. InTypes'
  <2>1. sessions' \in Nat
    <3>1. sessions \in Nat
      BY DEF ReviewInv, InTypes
    <3>. QED BY <1>4, <3>1
  <2>2. gate' \in {"none", "open", "granted", "refused"}
    BY <1>9
  <2>. QED BY <1>1, <1>3, <1>4, <2>1, <2>2, QuietTypes, Zenon DEF InTypes
<1>. QED BY <1>4, <1>5, <1>8, <1>10, QuietIs DEF ReviewInv

LEMMA AnswerStep ==
  ASSUME ReviewInv, HumanAnswers \/ CallEnds
  PROVE  ReviewInv'
<1>1. Quiet /\ session' = session /\ call' = call /\ sessions' = sessions
  BY DEF HumanAnswers, CallEnds, tool
<1>2. Required' = Required
  BY <1>1 DEF Required
<1>3. gate' \in {"none", "granted", "refused"}
  BY DEF HumanAnswers, CallEnds
<1>4. InTypes'
  <2>1. gate' \in {"none", "open", "granted", "refused"}
    BY <1>3
  <2>. QED BY <1>1, <2>1, QuietTypes, Zenon DEF ReviewInv, InTypes
<1>5. Registered'
  BY <1>1 DEF ReviewInv, Registered
<1>6. CASE HumanAnswers
  <2>1. gate = "open" /\ by' = "human"
    BY <1>6 DEF HumanAnswers
  <2>2. Granted'
    BY <1>1, <1>2, <1>3, <2>1 DEF ReviewInv, Granted
  <2>. QED BY <1>1, <1>4, <1>5, <2>2, QuietIs DEF ReviewInv
<1>7. CASE CallEnds
  <2>1. gate' = "none" /\ by' = None
    BY <1>7 DEF CallEnds
  <2>2. Granted'
    BY <2>1, ReviewAssumption DEF Granted
  <2>. QED BY <1>1, <1>4, <1>5, <2>2, QuietIs DEF ReviewInv
<1>. QED BY <1>6, <1>7

-----------------------------------------------------------------------------
(* The steps of an open gate's review that leave the tool call alone. *)
LEMMA SameTool ==
  ASSUME ReviewInv, gate = "open", UNCHANGED <<tool, gate, by>>
  PROVE  /\ Registered' /\ Granted'
         /\ session' = session /\ call' = call /\ sessions' = sessions /\ gate' = gate
<1>1. session' = session /\ call' = call /\ sessions' = sessions /\ gate' = gate /\ by' = by
  BY DEF tool
<1>2. Required' = Required
  BY <1>1 DEF Required
<1>3. by # "classifier"
  BY DEF ReviewInv, Granted
<1>. QED BY <1>1, <1>2, <1>3 DEF ReviewInv, Registered, Granted

LEMMA StartStep ==
  ASSUME ReviewInv, StartReview
  PROVE  ReviewInv'
<1>1. /\ gate = "open" /\ review = "off" /\ session.review.enabled /\ review' = "gathering"
      /\ fs' \in FileSystems /\ UNCHANGED <<tool, gate, by>>
      /\ asked' = asked /\ observed' = observed /\ confirmed' = confirmed /\ changes' = changes
  BY DEF StartReview, Reviewing, evidence
<1>2. observed = <<>>
  BY <1>1 DEF ReviewInv, Progress
<1>3. Evidence'
  BY <1>1, <1>2 DEF ReviewInv, Evidence
<1>4. Progress' /\ InTypes'
  BY <1>1, SameTool DEF ReviewInv, Progress, InTypes
<1>. QED BY <1>1, <1>3, <1>4, SameTool DEF ReviewInv

LEMMA ContainmentStep ==
  ASSUME ReviewInv, NEW t \in Targets, VerifyEvidenceContainment(t)
  PROVE  ReviewInv'
<1>1. /\ gate = "open" /\ UNCHANGED <<tool, gate, by>>
      /\ review' = review /\ fs' = fs /\ asked' = t /\ verdict' = verdict
      /\ observed' = observed /\ confirmed' = confirmed /\ changes' = changes
  BY DEF VerifyEvidenceContainment, Reviewing
<1>2. Evidence' /\ Progress'
  BY <1>1, SameTool DEF ReviewInv, Evidence, Progress
<1>3. InTypes'
  BY <1>1, SameTool DEF ReviewInv, InTypes
<1>. QED BY <1>1, <1>2, <1>3, SameTool DEF ReviewInv

LEMMA ReadStep ==
  ASSUME ReviewInv, ReadEvidence
  PROVE  ReviewInv'
<1>. DEFINE target == CanonicalRoot(fs) \o asked
            o == Observation(fs, target)
<1>1. /\ gate = "open" /\ review = "gathering" /\ asked # None
      /\ UNCHANGED <<tool, gate, by>>
      /\ review' = review /\ fs' = fs /\ asked' = None /\ verdict' = verdict
      /\ confirmed' = confirmed /\ changes' = changes
      /\ \/ observed' = observed
         \/ o.token.is # "error" /\ observed' = Append(observed, o)
  BY DEF ReadEvidence, Reviewing, Observation
<1>2. fs \in FileSystems /\ asked \in Targets
  BY <1>1 DEF ReviewInv, InTypes
<1>3. /\ observed \in Seq(Observations)
      /\ confirmed = [i \in 1..Len(confirmed) |-> observed[i].saw]
      /\ Len(confirmed) \in Nat /\ Len(confirmed) <= Len(observed)
      /\ changes = 0 => \A i \in 1..Len(observed) :
                          observed[i].token = Fingerprint(fs, observed[i].target)
  BY DEF ReviewInv, Evidence
<1>4. o.token = Fingerprint(fs, o.target)
  BY DEF Observation
<1>5. o.token.is # "error" => o \in Observations
  BY <1>2, RootCanonical DEF Observations
<1>. HIDE DEF o
<1>6. Evidence'
  <2>1. CASE observed' = observed
    BY <1>1, <1>3, <2>1 DEF Evidence
  <2>2. CASE o.token.is # "error" /\ observed' = Append(observed, o)
    <3>1. /\ observed' \in Seq(Observations) /\ Len(observed') = Len(observed) + 1
          /\ Len(observed) \in Nat /\ observed'[Len(observed) + 1] = o
          /\ \A i \in 1..Len(observed) : observed'[i] = observed[i]
      BY <1>3, <1>5, <2>2, AppendProperties
    <3>2. confirmed' = [i \in 1..Len(confirmed') |-> observed'[i].saw]
      <4>1. \A i \in 1..Len(confirmed) : observed'[i] = observed[i]
        BY <1>3, <3>1
      <4>2. confirmed = [i \in 1..Len(confirmed) |-> observed'[i].saw]
        BY <1>3, <4>1
      <4>. QED BY <1>1, <4>2
    <3>3. Len(confirmed') \in Nat /\ Len(confirmed') <= Len(observed')
      BY <1>1, <1>3, <3>1
    <3>4. \A i \in 1..Len(observed') : i = Len(observed) + 1 \/ i \in 1..Len(observed)
      BY <3>1
    <3>5. changes' = 0 => \A i \in 1..Len(observed') :
                            observed'[i].token = Fingerprint(fs', observed'[i].target)
      BY <1>1, <1>3, <1>4, <3>1, <3>4
    <3>. QED BY <3>1, <3>2, <3>3, <3>5 DEF Evidence
  <2>. QED BY <1>1, <2>1, <2>2
<1>7. Progress' /\ InTypes'
  BY <1>1, SameTool DEF ReviewInv, Progress, InTypes
<1>. QED BY <1>1, <1>6, <1>7, SameTool DEF ReviewInv

LEMMA AssessStep ==
  ASSUME ReviewInv, Assess
  PROVE  ReviewInv'
<1>1. /\ gate = "open" /\ review = "gathering" /\ UNCHANGED <<tool, gate, by>>
      /\ review' = IF Eligible(session.review.policy, verdict') THEN "rechecking"
                   ELSE "ineligible"
      /\ fs' = fs /\ asked' = asked
      /\ observed' = observed /\ confirmed' = confirmed /\ changes' = changes
  BY DEF Assess, Reviewing, evidence
<1>2. Evidence'
  BY <1>1 DEF ReviewInv, Evidence
<1>3. Progress' /\ InTypes'
  BY <1>1, SameTool DEF ReviewInv, Progress, InTypes
<1>. QED BY <1>1, <1>2, <1>3, SameTool DEF ReviewInv

LEMMA ChangeStep ==
  ASSUME ReviewInv, WorkspaceChanges
  PROVE  ReviewInv'
<1>1. /\ gate = "open" /\ review \in {"gathering", "rechecking"} /\ UNCHANGED <<tool, gate, by>>
      /\ review' = review /\ asked' = asked /\ verdict' = verdict
      /\ observed' = observed /\ confirmed' = confirmed /\ changes' = changes + 1
  BY DEF WorkspaceChanges, evidence
<1>2. PICK p \in DOMAIN fs : \E entry \in Choice[p] \ {fs[p]} : fs' = Changed(fs, p, entry)
  BY DEF WorkspaceChanges
<1>3. fs' \in FileSystems
  BY <1>2, ChangedWorkspace DEF ReviewInv, InTypes
<1>4. changes' \in Nat /\ changes' # 0
  <2>1. changes \in Nat
    BY DEF ReviewInv, InTypes
  <2>. QED BY <1>1, <2>1
<1>5. Evidence'
  BY <1>1, <1>4 DEF ReviewInv, Evidence
<1>6. Progress'
  BY <1>1, SameTool DEF ReviewInv, Progress
<1>7. InTypes'
  BY <1>1, <1>3, <1>4, SameTool DEF ReviewInv, InTypes
<1>. QED BY <1>1, <1>5, <1>6, <1>7, SameTool DEF ReviewInv

LEMMA EndStep ==
  ASSUME ReviewInv, CtxEnds
  PROVE  ReviewInv'
<1>1. /\ gate = "open" /\ UNCHANGED <<tool, gate, by>>
      /\ review' = review /\ fs' = fs /\ asked' = asked /\ verdict' = verdict
      /\ observed' = observed /\ confirmed' = confirmed /\ changes' = changes
  BY DEF CtxEnds, evidence
<1>2. Evidence' /\ Progress'
  BY <1>1, SameTool DEF ReviewInv, Evidence, Progress
<1>3. InTypes'
  BY <1>1, SameTool DEF ReviewInv, InTypes
<1>. QED BY <1>1, <1>2, <1>3, SameTool DEF ReviewInv

LEMMA ClaimStep ==
  ASSUME ReviewInv, ClaimGate
  PROVE  ReviewInv'
<1>1. /\ gate = "open" /\ review = "confirmed" /\ gate' = "granted" /\ by' = "classifier"
      /\ session' = session /\ call' = call /\ sessions' = sessions
      /\ review' = review /\ fs' = fs /\ asked' = asked /\ verdict' = verdict
      /\ observed' = observed /\ confirmed' = confirmed /\ changes' = changes
  BY DEF ClaimGate, Reviewing, evidence, tool
<1>2. Required' = Required
  BY <1>1 DEF Required
<1>3. Evidence' /\ Progress' /\ Registered'
  BY <1>1 DEF ReviewInv, Evidence, Progress, Registered
<1>4. Granted'
  BY <1>1, <1>2 DEF ReviewInv, Granted
<1>5. InTypes'
  BY <1>1 DEF ReviewInv, InTypes
<1>. QED BY <1>3, <1>4, <1>5 DEF ReviewInv

LEMMA RecheckStep ==
  ASSUME ReviewInv, VerifyEvidenceObservations
  PROVE  ReviewInv'
<1>. DEFINE next == observed[Len(confirmed) + 1]
<1>1. /\ gate = "open" /\ review = "rechecking" /\ UNCHANGED <<tool, gate, by>>
      /\ fs' = fs /\ asked' = asked /\ observed' = observed
      /\ changes' = changes /\ verdict' = verdict
  BY DEF VerifyEvidenceObservations, Reviewing
<1>2. session.review.ceiling = session.review.observation
  <2>1. session.review.enabled
    BY <1>1 DEF ReviewInv, Progress
  <2>2. session.review # Disabled
    BY <2>1 DEF Disabled
  <2>3. PICK policy : session.review = Enabled("trusted", policy)
    BY <2>2 DEF ReviewInv, Registered
  <2>. QED BY <2>3 DEF Enabled
<1>3. \/ review' = "cut off" /\ confirmed' = confirmed
      \/ review' = "confirmed" /\ confirmed' = confirmed /\ Len(confirmed) = Len(observed)
      \/ /\ Len(confirmed) # Len(observed) /\ Unchanged(fs, next)
         /\ confirmed' = Append(confirmed, Stat(fs, next.target)) /\ review' = review
      \/ /\ Len(confirmed) # Len(observed) /\ ~Unchanged(fs, next)
         /\ review' = "stale" /\ confirmed' = confirmed
  BY <1>2, Zenon DEF VerifyEvidenceObservations
<1>4. /\ observed \in Seq(Observations)
      /\ confirmed = [i \in 1..Len(confirmed) |-> observed[i].saw]
      /\ Len(confirmed) \in Nat /\ Len(confirmed) <= Len(observed) /\ Len(observed) \in Nat
      /\ changes = 0 => \A i \in 1..Len(observed) :
                          observed[i].token = Fingerprint(fs, observed[i].target)
  BY DEF ReviewInv, Evidence
<1>5. Len(confirmed) # Len(observed) => Len(confirmed) + 1 \in 1..Len(observed)
  BY <1>4
<1>6. Len(confirmed) # Len(observed) => next \in Observations
  BY <1>4, <1>5
<1>7. /\ fs \in FileSystems /\ changes \in Nat /\ session.review.enabled
      /\ Eligible(session.review.policy, verdict)
  BY <1>1 DEF ReviewInv, InTypes, Progress
<1>8. Len(confirmed) # Len(observed) /\ changes = 0 => Unchanged(fs, next)
  BY <1>4, <1>5, <1>6, <1>7, ObservationShows DEF Unchanged
<1>9. Len(confirmed) # Len(observed) /\ Unchanged(fs, next) => Stat(fs, next.target) = next.saw
  BY <1>6, <1>7, ObservationShows DEF Unchanged
<1>10. CASE confirmed' = confirmed
  <2>1. Evidence'
    BY <1>1, <1>10 DEF ReviewInv, Evidence
  <2>2. review' = "stale" => changes' > 0
    BY <1>1, <1>3, <1>7, <1>8
  <2>3. review' \in {"rechecking", "cut off", "confirmed", "stale"}
        /\ (review' = "confirmed" => Len(confirmed') = Len(observed'))
    BY <1>1, <1>3
  <2>4. Progress'
    BY <1>1, <1>7, <2>2, <2>3, SameTool DEF Progress
  <2>5. InTypes'
    BY <1>1, <2>3, SameTool DEF ReviewInv, InTypes
  <2>. QED BY <1>1, <2>1, <2>4, <2>5, SameTool DEF ReviewInv
<1>11. CASE /\ Len(confirmed) # Len(observed) /\ Unchanged(fs, next)
            /\ confirmed' = Append(confirmed, Stat(fs, next.target)) /\ review' = review
  <2>. DEFINE k == Len(confirmed)
  <2>1. Stat(fs, next.target) = next.saw
    BY <1>9, <1>11
  <2>2. confirmed' = [i \in 1..(k + 1) |-> observed[i].saw]
    <3>. DEFINE c == [i \in 1..k |-> observed[i].saw]
    <3>1. Append(c, observed[k + 1].saw) = [i \in 1..(k + 1) |-> observed[i].saw]
      <4>. HIDE DEF k
      <4>. QED BY <1>4 DEF k
    <3>. QED BY <1>4, <1>11, <2>1, <3>1
  <2>3. Len(confirmed') = k + 1
    <3>. HIDE DEF k
    <3>. QED BY <1>4, <2>2 DEF k
  <2>4. Evidence'
    BY <1>1, <1>4, <1>5, <1>11, <2>2, <2>3 DEF Evidence
  <2>5. Progress'
    BY <1>1, <1>7, <1>11, SameTool DEF Progress
  <2>6. InTypes'
    BY <1>1, <1>11, SameTool DEF ReviewInv, InTypes
  <2>. QED BY <1>1, <2>4, <2>5, <2>6, SameTool DEF ReviewInv
<1>. QED BY <1>3, <1>10, <1>11

LEMMA IdleStep == ReviewInv /\ UNCHANGED vars => ReviewInv'
<1>. SUFFICES ASSUME ReviewInv, UNCHANGED vars PROVE ReviewInv'
  OBVIOUS
<1>1. /\ session' = session /\ call' = call /\ sessions' = sessions /\ gate' = gate /\ by' = by
      /\ review' = review /\ fs' = fs /\ asked' = asked /\ verdict' = verdict
      /\ observed' = observed /\ confirmed' = confirmed /\ changes' = changes
  BY DEF vars, tool, evidence
<1>2. Required' = Required
  BY <1>1 DEF Required
<1>3. InTypes'
  BY <1>1 DEF ReviewInv, InTypes
<1>4. Evidence'
  BY <1>1 DEF ReviewInv, Evidence
<1>5. Progress' /\ Registered' /\ Granted'
  BY <1>1, <1>2 DEF ReviewInv, Progress, Registered, Granted
<1>. QED BY <1>3, <1>4, <1>5 DEF ReviewInv

LEMMA StepInv == ReviewInv /\ [Next]_vars => ReviewInv'
<1>. SUFFICES ASSUME ReviewInv, [Next]_vars PROVE ReviewInv'
  OBVIOUS
<1>1. CASE OpenSession
  BY <1>1, OpenStep
<1>2. CASE HumanAnswers \/ CallEnds
  BY <1>2, AnswerStep
<1>3. CASE StartReview
  BY <1>3, StartStep
<1>4. ASSUME NEW t \in Targets, VerifyEvidenceContainment(t) PROVE ReviewInv'
  BY <1>4, ContainmentStep
<1>5. CASE ReadEvidence
  BY <1>5, ReadStep
<1>6. CASE Assess
  BY <1>6, AssessStep
<1>7. CASE VerifyEvidenceObservations
  BY <1>7, RecheckStep
<1>8. CASE ClaimGate
  BY <1>8, ClaimStep
<1>9. CASE WorkspaceChanges
  BY <1>9, ChangeStep
<1>10. CASE CtxEnds
  BY <1>10, EndStep
<1>11. CASE UNCHANGED vars
  BY <1>11, IdleStep
<1>. QED
  BY <1>1, <1>2, <1>3, <1>4, <1>5, <1>6, <1>7, <1>8, <1>9, <1>10, <1>11 DEF Next

LEMMA ReviewInvHolds == Spec => []ReviewInv
BY InitInv, StepInv, PTL DEF Spec

(* The containment check agrees with following the path, in every workspace of
   Workspace.tla and however it changes: one directory that may be a file, gone,
   or a link to a directory within, to one outside or to nothing; and two files
   that may be gone, links to each other, to a file outside or to nothing
   (permission_review_evidence.go:148-270). *)
THEOREM ContainmentAgrees == Spec => []ContainmentIsExact
<1>1. ReviewInv => ContainmentIsExact
  <2>. SUFFICES ASSUME ReviewInv PROVE ContainmentIsExact
    OBVIOUS
  <2>1. fs \in FileSystems
    BY DEF ReviewInv, InTypes
  <2>. QED BY <2>1, ContainmentExact DEF ContainmentIsExact
<1>. QED BY <1>1, ReviewInvHolds, PTL

(* A classifier's approval counts only if every file it looked at still showed
   what it had seen, whatever changed meanwhile and however often
   (permission_review_observation.go:75-125). *)
THEOREM ApprovalsAreAsSeen == Spec => []ApprovedAsSeen
<1>1. ReviewInv => ApprovedAsSeen
  <2>. SUFFICES ASSUME ReviewInv, by = "classifier"
                PROVE  confirmed = [i \in DOMAIN observed |-> observed[i].saw]
    BY DEF ApprovedAsSeen
  <2>1. Len(confirmed) = Len(observed)
    BY DEF ReviewInv, Granted, Progress
  <2>2. /\ observed \in Seq(Observations)
        /\ confirmed = [i \in 1..Len(confirmed) |-> observed[i].saw]
    BY DEF ReviewInv, Evidence
  <2>3. DOMAIN observed = 1..Len(observed)
    BY <2>2
  <2>. QED BY <2>1, <2>2, <2>3, Zenon
<1>. QED BY <1>1, ReviewInvHolds, PTL

(* A recheck fails only in a workspace that changed
   (permission_review.go:75-79). *)
THEOREM UnchangedIsConfirmed == Spec => []UnchangedIsNeverStale
<1>1. ReviewInv => UnchangedIsNeverStale
  BY DEF ReviewInv, Progress, UnchangedIsNeverStale
<1>. QED BY <1>1, ReviewInvHolds, PTL

-----------------------------------------------------------------------------
(* The lesser of two accesses, when one of them is denied or allowed. *)
LEMMA RankIs == Rank("deny") = 0 /\ Rank("gated") = 1 /\ Rank("allow") = 2
<1>1. \A n \in 0..2 : n = 0 \/ n = 1 \/ n = 2
  OBVIOUS
<1>. DEFINE names == <<"deny", "gated", "allow">>
<1>2. names[0 + 1] = "deny" /\ names[1 + 1] = "gated" /\ names[2 + 1] = "allow"
  OBVIOUS
<1>3. 0 \in 0..2 /\ 1 \in 0..2 /\ 2 \in 0..2
  OBVIOUS
<1>4. /\ \A n \in 0..2 : "deny" = names[n + 1] <=> n = 0
      /\ \A n \in 0..2 : "gated" = names[n + 1] <=> n = 1
      /\ \A n \in 0..2 : "allow" = names[n + 1] <=> n = 2
  BY <1>1, <1>2
<1>. HIDE DEF names
<1>. QED BY <1>3, <1>4 DEF Rank, names

LEMMA AccessIs ==
  ASSUME NEW role \in Roles, NEW name \in ProfileNames, NEW kind \in Kinds
  PROVE  LET access == AccessFor(role, name, kind) IN
         /\ access \in {"allow", "gated"} /\ (role # "builder" \/ name = "readonly")
              => kind \in {"read", "command"} \cup ProductKinds
         /\ access = "allow" => kind \notin ProductKinds
         /\ access = "allow" /\ kind = "hostWrite" => name = "unconfined"
<1>. DEFINE access == AccessFor(role, name, kind)
            selected == CoderigProfile(name).access[kind]
            ceiling == ReadOnly.access[kind]
<1>1. CASE kind \in ProductKinds
  BY <1>1 DEF AccessFor, ProductKinds
<1>2. CASE kind \notin ProductKinds
  <2>1. kind \in SandboxKinds
    BY <1>2 DEF Kinds
  <2>2. ceiling = IF kind = "read" THEN "allow" ELSE IF kind = "command" THEN "gated" ELSE "deny"
    BY <2>1 DEF ReadOnly, ProfileOf
  <2>3. /\ name = "readonly" => selected = ceiling
        /\ name = "trusted" => selected = IF kind = "hostWrite" THEN "gated" ELSE "allow"
        /\ name = "unconfined" => selected = "allow"
    BY <2>1 DEF CoderigProfile, ReadOnly, ProfileOf
  <2>4. selected \in {"deny", "gated", "allow"} /\ ceiling \in {"deny", "gated", "allow"}
    BY <2>2, <2>3 DEF ProfileNames
  <2>5. access = IF role = "builder" THEN selected
                 ELSE IF Rank(selected) < Rank(ceiling) THEN selected ELSE ceiling
    BY <1>2, <2>1 DEF AccessFor, RoleProfile, RestrictToReadOnly, SandboxRestrict
  <2>. HIDE DEF selected, ceiling, access
  <2>6. role # "builder" /\ ceiling = "deny" => access = "deny"
    BY <2>4, <2>5, RankIs
  <2>7. access = "allow" => selected = "allow"
    BY <2>4, <2>5, RankIs
  <2>8. (role # "builder" \/ name = "readonly") /\ kind \notin {"read", "command"} => access = "deny"
    BY <2>2, <2>3, <2>5, <2>6
  <2>9. access = "allow" /\ kind = "hostWrite" => name = "unconfined"
    BY <2>2, <2>3, <2>7 DEF ProfileNames
  <2>. QED BY <1>2, <2>8, <2>9 DEF access
<1>. QED BY <1>1, <1>2

(* No rule an earlier session left, no human's and no classifier's approval
   lifts a role above its profile, and a classifier grants within its policy
   and in trusted sessions only (access.go:114-145). *)
THEOREM GrantsHeldToTheProfile == Spec => []GrantsFollowTheProfile
<1>1. ReviewInv => GrantsFollowTheProfile
  <2>. SUFFICES ASSUME ReviewInv, gate = "granted" PROVE GrantsFollowTheProfile
    BY DEF GrantsFollowTheProfile
  <2>1. /\ call.role \in Roles /\ call.kind \in Kinds /\ session.profile \in ProfileNames
    BY ReviewAssumption DEF ReviewInv, InTypes
  <2>2. /\ by \in {"access", "rule", "human", "classifier"}
        /\ Required = IF by = "access" THEN "allow" ELSE "gated"
        /\ by \in {"human", "classifier"} => session.interactive
        /\ by = "classifier" => review = "confirmed"
    BY DEF ReviewInv, Granted
  <2>3. by = "classifier" => /\ session.review.enabled
                             /\ Eligible(session.review.policy, verdict)
    BY <2>2 DEF ReviewInv, Progress
  <2>4. ASSUME by = "classifier"
        PROVE  /\ session.profile = "trusted" /\ verdict \notin {"high", "critical"}
               /\ session.review.policy = "strict" => verdict = "low"
    <3>1. session.review # Disabled
      BY <2>3, <2>4 DEF Disabled
    <3>2. session.profile = "trusted"
      BY <3>1 DEF ReviewInv, Registered
    <3>. QED BY <2>3, <2>4, <3>2 DEF Eligible
  <2>5. /\ Required \in {"allow", "gated"} /\ (call.role # "builder" \/ session.profile = "readonly")
             => call.kind \in {"read", "command"} \cup ProductKinds
        /\ Required = "allow" => call.kind \notin ProductKinds
        /\ Required = "allow" /\ call.kind = "hostWrite" => session.profile = "unconfined"
    BY <2>1, AccessIs DEF Required
  <2>. QED BY <2>2, <2>4, <2>5 DEF GrantsFollowTheProfile
<1>. QED BY <1>1, ReviewInvHolds, PTL

-----------------------------------------------------------------------------
(* Each file is looked at once, which bounds the evidence of a review. *)
OncePerTarget ==
  /\ \A i, j \in 1..Len(observed) : observed[i].target = observed[j].target => i = j
  /\ asked # None => \A i \in 1..Len(observed) : observed[i].target # <<"w">> \o asked

OtherTypes ==
  /\ sessions \in 0..MaxSessions /\ changes \in 0..MaxChanges
  /\ rules \subseteq Kinds /\ ctxDone \in BOOLEAN
  /\ by \in {None, "access", "rule", "human", "classifier"}
  /\ verdict \in Verdicts \cup {None}

LEMMA OnceStep ==
  ASSUME ReviewInv, OncePerTarget, [Next]_vars
  PROVE  OncePerTarget'
<1>1. CASE Quiet
  <2>1. observed' = <<>> /\ asked' = None /\ Len(<<>>) = 0
    BY <1>1 DEF Quiet
  <2>. QED BY <2>1 DEF OncePerTarget
<1>2. CASE observed' = observed /\ asked' = asked
  BY <1>2 DEF OncePerTarget
<1>3. ASSUME NEW t \in Targets, VerifyEvidenceContainment(t) PROVE OncePerTarget'
  <2>1. /\ observed' = observed /\ asked' = t
        /\ \A i \in DOMAIN observed : observed[i].target # <<"w">> \o t
    BY <1>3, RootCanonical DEF VerifyEvidenceContainment, ReviewInv, InTypes
  <2>2. DOMAIN observed = 1..Len(observed)
    BY DEF ReviewInv, Evidence
  <2>. QED BY <2>1, <2>2 DEF OncePerTarget
<1>4. CASE ReadEvidence
  <2>. DEFINE target == CanonicalRoot(fs) \o asked
              o == Observation(fs, target)
  <2>1. /\ asked # None /\ asked' = None
        /\ \/ observed' = observed
           \/ observed' = Append(observed, o)
    BY <1>4 DEF ReadEvidence, Observation
  <2>2. o.target = <<"w">> \o asked
    BY RootCanonical DEF Observation, ReviewInv, InTypes
  <2>. HIDE DEF o
  <2>3. CASE observed' = observed
    BY <2>1, <2>3 DEF OncePerTarget
  <2>4. CASE observed' = Append(observed, o)
    <3>1. observed \in Seq(Observations)
      BY DEF ReviewInv, Evidence
    <3>2. /\ Len(observed') = Len(observed) + 1 /\ Len(observed) \in Nat
          /\ observed'[Len(observed) + 1] = o
          /\ \A i \in 1..Len(observed) : observed'[i] = observed[i]
      BY <2>4, <3>1
    <3>3. \A i \in 1..Len(observed') : i = Len(observed) + 1 \/ i \in 1..Len(observed)
      BY <3>2
    <3>4. \A i \in 1..Len(observed) : observed[i].target # o.target
      BY <2>1, <2>2 DEF OncePerTarget
    <3>5. \A i, j \in 1..Len(observed') : observed'[i].target = observed'[j].target => i = j
      BY <3>2, <3>3, <3>4 DEF OncePerTarget
    <3>. QED BY <2>1, <3>5 DEF OncePerTarget
  <2>. QED BY <2>1, <2>3, <2>4
<1>5. CASE StartReview \/ Assess \/ VerifyEvidenceObservations \/ ClaimGate \/ WorkspaceChanges
           \/ CtxEnds \/ UNCHANGED vars
  BY <1>2, <1>5 DEF StartReview, Assess, VerifyEvidenceObservations, ClaimGate,
       WorkspaceChanges, CtxEnds, vars, evidence
<1>6. CASE OpenSession \/ HumanAnswers \/ CallEnds
  BY <1>1, <1>6 DEF OpenSession, HumanAnswers, CallEnds
<1>. QED BY <1>3, <1>4, <1>5, <1>6 DEF Next

LEMMA TypesStep ==
  ASSUME ReviewInv, OtherTypes, [Next]_vars
  PROVE  OtherTypes'
<1>1. call.kind \in Kinds
  BY ReviewAssumption DEF ReviewInv, InTypes
<1>2. MaxSessions \in Nat /\ MaxChanges \in Nat
  BY ReviewAssumption
<1>3. sessions' \in 0..MaxSessions
  <2>1. \/ sessions' = sessions
        \/ sessions < MaxSessions /\ sessions' = sessions + 1
    BY DEF Next, vars, tool, OpenSession, HumanAnswers, CallEnds, StartReview,
         VerifyEvidenceContainment, ReadEvidence, Assess, VerifyEvidenceObservations, ClaimGate,
         WorkspaceChanges, CtxEnds
  <2>. QED BY <1>2, <2>1 DEF OtherTypes
<1>4. changes' \in 0..MaxChanges
  <2>1. \/ changes' = changes \/ changes' = 0
        \/ changes < MaxChanges /\ changes' = changes + 1
    BY DEF Next, vars, Quiet, OpenSession, HumanAnswers, CallEnds, StartReview,
         VerifyEvidenceContainment, ReadEvidence, Assess, VerifyEvidenceObservations, ClaimGate,
         WorkspaceChanges, CtxEnds
  <2>. QED BY <1>2, <2>1 DEF OtherTypes
<1>5. rules' \subseteq Kinds
  <2>1. rules' = rules \/ rules' = rules \cup {call.kind}
    BY DEF Next, vars, tool, OpenSession, HumanAnswers, CallEnds, StartReview,
         VerifyEvidenceContainment, ReadEvidence, Assess, VerifyEvidenceObservations, ClaimGate,
         WorkspaceChanges, CtxEnds
  <2>. QED BY <1>1, <2>1 DEF OtherTypes
<1>6. ctxDone' \in BOOLEAN
  <2>1. ctxDone' = ctxDone \/ ctxDone' = TRUE \/ ctxDone' = FALSE
    BY DEF Next, vars, Quiet, OpenSession, HumanAnswers, CallEnds, StartReview,
         VerifyEvidenceContainment, ReadEvidence, Assess, VerifyEvidenceObservations, ClaimGate,
         WorkspaceChanges, CtxEnds
  <2>. QED BY <2>1 DEF OtherTypes
<1>7. by' \in {None, "access", "rule", "human", "classifier"}
  <2>1. by' = by \/ by' \in {None, "access", "rule", "human", "classifier"}
    BY DEF Next, vars, Authorize, OpenSession, HumanAnswers, CallEnds, StartReview,
         VerifyEvidenceContainment, ReadEvidence, Assess, VerifyEvidenceObservations, ClaimGate,
         WorkspaceChanges, CtxEnds
  <2>. QED BY <2>1 DEF OtherTypes
<1>8. verdict' \in Verdicts \cup {None}
  <2>1. verdict' = verdict \/ verdict' = None \/ verdict' \in Verdicts
    BY DEF Next, vars, Quiet, OpenSession, HumanAnswers, CallEnds, StartReview,
         VerifyEvidenceContainment, ReadEvidence, Assess, VerifyEvidenceObservations, ClaimGate,
         WorkspaceChanges, CtxEnds
  <2>. QED BY <2>1 DEF OtherTypes
<1>. QED BY <1>3, <1>4, <1>5, <1>6, <1>7, <1>8 DEF OtherTypes

(* The observations of a review are no more than the targets. *)
LEMMA EvidenceBounded ==
  ASSUME ReviewInv, OncePerTarget
  PROVE  Len(observed) <= Cardinality(Targets)
<1>. DEFINE n == Len(observed)
            seen(i) == CHOOSE t \in Targets : observed[i].target = <<"w">> \o t
            g == [i \in 1..n |-> seen(i)]
<1>1. observed \in Seq(Observations) /\ n \in Nat
  BY DEF ReviewInv, Evidence
<1>2. \A i \in 1..n : \E t \in Targets : observed[i].target = <<"w">> \o t
  <2>. TAKE i \in 1..n
  <2>1. observed[i] \in Observations
    BY <1>1
  <2>2. PICK w \in FileSystems, t \in Targets : observed[i] = Observation(w, <<"w">> \o t)
    BY <2>1 DEF Observations
  <2>. QED BY <2>2 DEF Observation
<1>3. \A i \in 1..n : seen(i) \in Targets /\ observed[i].target = <<"w">> \o seen(i)
  BY <1>2
<1>. HIDE DEF seen
<1>4. g \in Injection(1..n, Targets)
  <2>1. g \in [1..n -> Targets] /\ DOMAIN g = 1..n /\ \A i \in 1..n : g[i] = seen(i)
    BY <1>3
  <2>. HIDE DEF g
  <2>2. \A i, j \in 1..n : observed[i].target = observed[j].target => i = j
    BY DEF OncePerTarget
  <2>. HIDE DEF n
  <2>3. ASSUME NEW i \in 1..n, NEW j \in 1..n, g[i] = g[j] PROVE i = j
    <3>1. seen(i) = seen(j)
      BY <2>1, <2>3
    <3>2. observed[i].target = observed[j].target
      BY <1>3, <3>1, Zenon
    <3>. QED BY <2>2, <3>2
  <2>4. IsInjective(g)
    BY <2>1, <2>3 DEF IsInjective
  <2>. QED BY <2>1, <2>4 DEF Injection
<1>5. IsFiniteSet(Targets)
  <2>1. IsFiniteSet({<<"d", "f">>, <<"g">>})
    <3>1. IsFiniteSet({<<"d", "f">>})
      BY FS_Singleton
    <3>2. IsFiniteSet({<<"d", "f">>} \cup {<<"g">>})
      BY <3>1, FS_AddElement
    <3>. QED BY <3>2
  <2>. QED BY <2>1, FS_Subset, ReviewAssumption
<1>6. Cardinality(1..n) = n
  <2>. HIDE DEF n
  <2>. QED BY <1>1, FS_Interval
<1>. HIDE DEF g, n
<1>7. Cardinality(1..n) <= Cardinality(Targets)
  BY <1>4, <1>5, FS_Injection
<1>. QED BY <1>6, <1>7 DEF n

(* Every variable of a permission review has its type, and the evidence of a
   review stays within its targets. *)
THEOREM ReviewTyped == Spec => []TypeOK
<1>1. Init => OncePerTarget /\ OtherTypes
  <2>. SUFFICES ASSUME Init PROVE OncePerTarget /\ OtherTypes
    OBVIOUS
  <2>1. observed = <<>> /\ Len(<<>>) = 0 /\ asked = None
    BY DEF Init
  <2>2. OncePerTarget
    BY <2>1 DEF OncePerTarget
  <2>3. OtherTypes
    <3>1. 0 \in 0..MaxSessions /\ 0 \in 0..MaxChanges
      BY ReviewAssumption
    <3>. QED BY <3>1 DEF Init, OtherTypes
  <2>. QED BY <2>2, <2>3
<1>2. ReviewInv /\ OncePerTarget /\ OtherTypes => TypeOK
  <2>. SUFFICES ASSUME ReviewInv, OncePerTarget, OtherTypes PROVE TypeOK
    OBVIOUS
  <2>1. Len(confirmed) <= Len(observed)
    BY DEF ReviewInv, Evidence
  <2>. QED BY <2>1, EvidenceBounded DEF TypeOK, OtherTypes, ReviewInv, InTypes
<1>. QED BY <1>1, <1>2, InitInv, StepInv, OnceStep, TypesStep, PTL DEF Spec

=============================================================================
