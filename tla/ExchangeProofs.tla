--------------------------- MODULE ExchangeProofs ----------------------------
(***************************************************************************)
(* Proofs about what a run exchanges with its tools and with its user, who *)
(* sees and types, for all values of the constants.                        *)
(* A section is of one component; the names below are the variables of     *)
(* the components' modules, and mean nothing across components.  The       *)
(* theorems at the end are of a behaviour of any of these components.      *)
(***************************************************************************)
EXTENDS Exchanges, DataLemmas

(* The names the modules of these components give to their variables: the       *)
(* proofs use them, and see what they stand for.                              *)

\* WorkspaceTools
disk == x1
call == x2
pc == x3
cancelled == x4
text == x5
todo == x6
line == x7
found == x8
truncated == x9
result == x10
searched == x11
passed == x12
effect == x13
changes == x14
USE DEF disk, call, pc, cancelled, text, todo, line, found, truncated, result, searched,
        passed, effect, changes

-----------------------------------------------------------------------------
(* A search reports what it left out, and a refused call changes nothing.  *)

Lines == {"hit", "miss", "raw"}
Places == Tool!Files \X Nat
Read == [file : Tool!Files, content : Seq(Lines)]
Searches == {"grep_file", "grep_scope"}

\* The matches a search could see in the files it read, and all of them.
Seen(q) == Tool!FlattenSeq([i \in DOMAIN q |-> Tool!MatchesOf(q[i].file, Tool!Bounded(q[i].content))])
Held(q) == Tool!FlattenSeq([i \in DOMAIN q |-> Tool!MatchesOf(q[i].file, q[i].content)])

\* What the mark of a search is about: a file cut or rewritten, and none cut.
Cut(q) == \E i \in DOMAIN q : ~Tool!Utf8(q[i].content) \/ Tool!Dropped(q[i].content)
Uncut(q) == \A i \in DOMAIN q : ~Tool!Dropped(q[i].content)

\* The steps of each call.
Steps == [read |-> {"read", "read_end"}, glob |-> {"glob", "list"},
          grep_file |-> {"grep_file", "scan", "next", "grep_end"},
          grep_scope |-> {"walk", "scan", "next", "grep_end"},
          write |-> {"check", "write"}, edit |-> {"target", "replace"}]

ToolTypes ==
  /\ disk \in [Tool!Files -> Tool!Contents \cup {Tool!Missing}] /\ call \in Tool!Calls
  /\ pc \in {"dispatch", "returned"} \cup Steps[call.tool]
  /\ result.kind \in {"none", "completed", "stopped", "error"}
  /\ (result = Tool!NoResult) = (pc # "returned")
  /\ text \in Seq(Lines \cup {"missing"}) /\ line \in Nat /\ line <= Len(text)
  /\ call.tool \notin Searches => line = 0
  /\ pc = "replace" => text \in Tool!Contents /\ Tool!Contains(text, "hit")
  /\ todo \in Seq(Tool!Files) /\ found \in Seq(Tool!Files \cup Places) /\ searched \in Seq(Read)

\* The call changes a file in the step that returns, after it read what it expects.
EffectInv ==
  /\ pc \in {"write", "replace"} \/ effect => call.guard = {} \/ text \in call.guard
  /\ effect => /\ pc = "returned"
               /\ result.kind = "completed" \/ result = Tool!Error("tool_write_failed")

\* A search found what it could see of the lines it scanned.
SearchInv ==
  call.tool \in Searches =>
    /\ found \in Seq(Places)
    /\ pc \in {"dispatch", "walk", "grep_file"} => searched = <<>> /\ found = <<>> /\ ~truncated
    /\ pc \in {"scan", "next"} => /\ truncated => Cut(searched) \/ Cut(passed)
                                  /\ ~truncated => Uncut(searched)
    /\ pc = "next" => found = Seen(searched)
    /\ pc = "scan" =>
         \E q \in Seq(Read), e \in Read :
           /\ searched = Append(q, e) /\ text = Tool!Bounded(e.content)
           /\ found = Seen(q) \o Tool!MatchesOf(e.file, SubSeq(text, 1, line))
    /\ pc = "grep_end" =>
         /\ \E v \in Seq(Places) : Seen(searched) = found \o v
         /\ ~truncated => found = Held(searched)
         /\ truncated => found # Held(searched) \/ Cut(searched) \/ Cut(passed)
    /\ Tool!SearchIsHonest

PassedInv == passed \in Seq(Read)

ToolInv == ToolTypes /\ PassedInv /\ EffectInv /\ SearchInv

LEMMA ContentsTyped ==
  ASSUME Tool!WorkspaceToolsAssumption
  PROVE  /\ \A c : c \in Tool!Contents <=> c \in Seq(Lines) /\ Len(c) <= FileLines
         /\ FileLines \in Nat /\ FileLines > 0
<1>1. FileLines \in Nat /\ FileLines > 0  BY DEF Tool!WorkspaceToolsAssumption
<1>2. Tool!Contents = UNION {[1 .. m -> Lines] : m \in 0 .. FileLines}
  BY DEF Tool!Contents, Tool!BoundedSeq, Tool!SeqOf, Lines
<1>3. ASSUME NEW c, c \in Tool!Contents PROVE c \in Seq(Lines) /\ Len(c) <= FileLines
  <2>1. PICK m \in 0 .. FileLines : c \in [1 .. m -> Lines]  BY <1>2, <1>3
  <2>2. m \in Nat /\ c \in Seq(Lines)  BY <1>1, <2>1, SeqDef
  <2>3. QED  BY <1>1, <2>1, <2>2
<1>4. ASSUME NEW c \in Seq(Lines), Len(c) <= FileLines PROVE c \in Tool!Contents
  <2>1. Len(c) \in 0 .. FileLines /\ c \in [1 .. Len(c) -> Lines]  BY <1>1, <1>4
  <2>2. QED  BY <1>2, <2>1
<1>5. QED  BY <1>1, <1>3, <1>4

\* What a bounded read keeps.
LEMMA BoundedTyped ==
  ASSUME Tool!WorkspaceToolsAssumption, NEW c \in Seq(Lines)
  PROVE  /\ Tool!Bounded(c) \in Seq(Lines) /\ Len(Tool!Bounded(c)) <= Len(c)
         /\ \A n \in 0 .. Len(Tool!Bounded(c)) : SubSeq(Tool!Bounded(c), 1, n) = SubSeq(c, 1, n)
         /\ ~Tool!Dropped(c) => Tool!Bounded(c) = c
         /\ ~Tool!Utf8(Tool!Bounded(c)) => ~Tool!Utf8(c)
<1> DEFINE k == Tool!Min2(ReadCap, Len(c))
<1>1. k \in 0 .. Len(c) /\ Len(c) \in Nat /\ (~Tool!Dropped(c) => k = Len(c))
  BY DEF Tool!Min2, Tool!Dropped, Tool!WorkspaceToolsAssumption
<1>2. Tool!Bounded(c) = SubSeq(c, 1, k)  BY DEF Tool!Bounded
<1> HIDE DEF k
<1>3. /\ SubSeq(c, 1, k) \in Seq(Lines) /\ Len(SubSeq(c, 1, k)) = k
      /\ \A i \in 1 .. k : SubSeq(c, 1, k)[i] = c[i] /\ i \in 1 .. Len(c)
  BY <1>1
<1>4. ASSUME NEW n \in 0 .. k PROVE SubSeq(SubSeq(c, 1, k), 1, n) = SubSeq(c, 1, n)
  <2>1. /\ SubSeq(SubSeq(c, 1, k), 1, n) = [i \in 1 .. n |-> SubSeq(c, 1, k)[i]]
        /\ SubSeq(c, 1, n) = [i \in 1 .. n |-> c[i]]
    BY <1>1, <1>3
  <2>2. QED  BY <1>1, <1>3, <2>1
<1>5. ~Tool!Dropped(c) => SubSeq(c, 1, k) = c
  BY <1>1
<1>6. Tool!ToSet(SubSeq(c, 1, k)) \subseteq Tool!ToSet(c)
  <2>1. DOMAIN SubSeq(c, 1, k) = 1 .. k /\ DOMAIN c = 1 .. Len(c)  BY <1>1, <1>3
  <2>2. QED  BY <1>3, <2>1 DEF Tool!ToSet
<1>7. QED  BY <1>1, <1>2, <1>3, <1>4, <1>5, <1>6 DEF Tool!Utf8

\* The matches of the lines of a file grow with the lines.
LEMMA MatchesGrow ==
  ASSUME NEW f \in Tool!Files, NEW c \in Seq(Lines), NEW l \in Lines
  PROVE  /\ Tool!MatchesOf(f, <<>>) = <<>> /\ Tool!MatchesOf(f, c) \in Seq(Places)
         /\ Tool!MatchesOf(f, Append(c, l)) =
              IF l = "hit" THEN Append(Tool!MatchesOf(f, c), <<f, Len(c) + 1>>)
              ELSE Tool!MatchesOf(f, c)
<1> DEFINE place(d) == [i \in DOMAIN d |-> <<f, i>>]
           hits(d) == {<<f, i>> : i \in {j \in DOMAIN d : d[j] = "hit"}}
<1>1. \A d : Tool!MatchesOf(f, d) = Within(place(d), hits(d))
  BY DEF Tool!MatchesOf, Tool!Within, Within
<1>2. ASSUME NEW d \in Seq(Lines) PROVE place(d) \in Seq(Places) /\ Len(place(d)) = Len(d)
  <2>1. DOMAIN d = 1 .. Len(d) /\ Len(d) \in Nat  OBVIOUS
  <2>2. place(d) \in [1 .. Len(d) -> Places]  BY <2>1 DEF Places
  <2>3. QED  BY <2>1, <2>2, SeqDef
<1>3. Tool!MatchesOf(f, c) \in Seq(Places)
  <2> HIDE DEF place, hits
  <2>1. QED  BY <1>1, <1>2, WithinType
<1>4. Tool!MatchesOf(f, <<>>) = <<>>
  <2>1. place(<<>>) = <<>>  OBVIOUS
  <2> HIDE DEF place, hits
  <2>2. QED  BY <1>1, <2>1, WithinGrows
<1> DEFINE d == Append(c, l)
<1>5. /\ Len(c) \in Nat /\ d \in Seq(Lines) /\ Len(d) = Len(c) + 1 /\ d[Len(c) + 1] = l
      /\ DOMAIN d = 1 .. Len(c) + 1 /\ DOMAIN c = 1 .. Len(c)
      /\ \A i \in 1 .. Len(c) : d[i] = c[i]
  OBVIOUS
<1> HIDE DEF d
<1>6. place(d) = Append(place(c), <<f, Len(c) + 1>>)
  <2>1. Len(place(d)) = Len(c) + 1 /\ place(d) \in Seq(Places)  BY <1>2, <1>5, Zenon
  <2>2. Len(place(c)) = Len(c) /\ place(c) \in Seq(Places)  BY <1>2
  <2>3. /\ \A i \in 1 .. Len(c) : place(d)[i] = <<f, i>> /\ place(c)[i] = <<f, i>>
        /\ place(d)[Len(c) + 1] = <<f, Len(c) + 1>>
    BY <1>5
  <2>4. <<f, Len(c) + 1>> \in Places  BY <1>5 DEF Places
  <2>5. \A i \in 1 .. Len(c) : place(d)[i] = place(c)[i]  BY <2>3, Zenon
  <2> HIDE DEF place
  <2>6. QED  BY <2>1, <2>2, <2>3, <2>4, <2>5, IsAppend
<1>7. Within(place(c), hits(d)) = Within(place(c), hits(c))
  <2>1. \A i \in 1 .. Len(c) : place(c)[i] = <<f, i>>  BY <1>5
  <2>2. \A i \in 1 .. Len(c) : <<f, i>> \in hits(d) <=> <<f, i>> \in hits(c)  BY <1>5
  <2>3. place(c) \in Seq(Places) /\ Len(place(c)) = Len(c)  BY <1>2
  <2> HIDE DEF place, hits
  <2>4. \A i \in 1 .. Len(place(c)) : place(c)[i] \in hits(d) <=> place(c)[i] \in hits(c)
    BY <2>1, <2>2, <2>3
  <2>5. QED  BY <2>3, <2>4, WithinAgrees
<1>8. <<f, Len(c) + 1>> \in hits(d) <=> l = "hit"  BY <1>5
<1>9. <<f, Len(c) + 1>> \in Places /\ place(c) \in Seq(Places)  BY <1>2, <1>5 DEF Places
<1> HIDE DEF place, hits
<1>10. Tool!MatchesOf(f, d) =
         IF l = "hit" THEN Append(Within(place(c), hits(d)), <<f, Len(c) + 1>>)
         ELSE Within(place(c), hits(d))
  <2>1. Tool!MatchesOf(f, d) = Within(Append(place(c), <<f, Len(c) + 1>>), hits(d))
    BY <1>1, <1>6
  <2>2. Within(Append(place(c), <<f, Len(c) + 1>>), hits(d)) =
          IF <<f, Len(c) + 1>> \in hits(d)
          THEN Append(Within(place(c), hits(d)), <<f, Len(c) + 1>>)
          ELSE Within(place(c), hits(d))
    BY <1>9, WithinGrows
  <2>3. QED  BY <1>8, <2>1, <2>2
<1>11. QED  BY <1>1, <1>3, <1>4, <1>7, <1>10 DEF d

LEMMA PlacesAppended ==
  ASSUME NEW a \in Seq(Places), NEW b \in Seq(Places), NEW x \in Places
  PROVE  Append(a \o b, x) = a \o Append(b, x) /\ Append(b, x) \in Seq(Places)
<1>1. <<x>> \in Seq(Places) /\ a \o b \in Seq(Places)  BY ConcatProperties
<1>2. Append(a \o b, x) = (a \o b) \o <<x>> /\ Append(b, x) = b \o <<x>>
  BY <1>1, AppendIsConcat, Zenon
<1>3. QED  BY <1>1, <1>2, ConcatAssociative, ConcatProperties

\* The matches of a file's first lines begin those of the file.
LEMMA MatchesBegin ==
  ASSUME NEW f \in Tool!Files, NEW c \in Seq(Lines), NEW n \in 0 .. Len(c)
  PROVE  \E v \in Seq(Places) :
           Tool!MatchesOf(f, c) = Tool!MatchesOf(f, SubSeq(c, 1, n)) \o v
<1> DEFINE m(k) == Tool!MatchesOf(f, SubSeq(c, 1, k))
           begins(k) == n + k <= Len(c) => \E v \in Seq(Places) : m(n + k) = m(n) \o v
           P == {k \in Nat : begins(k)}
<1>1. Len(c) \in Nat /\ SubSeq(c, 1, Len(c)) = c /\ n \in Nat  OBVIOUS
<1>2. ASSUME NEW k \in 0 .. Len(c)
      PROVE  /\ m(k) \in Seq(Places) /\ SubSeq(c, 1, k) \in Seq(Lines)
             /\ Len(SubSeq(c, 1, k)) = k
  <2>1. SubSeq(c, 1, k) \in Seq(Lines) /\ Len(SubSeq(c, 1, k)) = k  BY <1>1
  <2>2. "hit" \in Lines  BY DEF Lines
  <2>3. QED  BY <2>1, <2>2, MatchesGrow, Zenon
<1>3. 0 \in P
  <2>1. m(n) \o <<>> = m(n) /\ <<>> \in Seq(Places) /\ n + 0 = n
    <3>1. m(n) \in Seq(Places)  BY <1>2
    <3> HIDE DEF m
    <3>2. QED  BY <1>1, <3>1
  <2> HIDE DEF m
  <2>2. QED  BY <2>1, Zenon
<1>4. ASSUME NEW k \in P PROVE k + 1 \in P
  <2>1. SUFFICES ASSUME n + (k + 1) <= Len(c)
                 PROVE  \E v \in Seq(Places) : m(n + (k + 1)) = m(n) \o v
    <3> HIDE DEF m
    <3>1. SUFFICES begins(k + 1)
      <4> HIDE DEF begins
      <4>1. QED  OBVIOUS
    <3>2. QED  BY Zenon
  <2>2. /\ n + k \in 0 .. Len(c) /\ n + (k + 1) = (n + k) + 1 /\ n + k + 1 \in 1 .. Len(c)
        /\ n + k + 1 \in 0 .. Len(c) /\ n + k <= Len(c)
    BY <1>1, <2>1
  <2>3. PICK v \in Seq(Places) : m(n + k) = m(n) \o v  BY <2>2
  <2> DEFINE j == n + k
             l == c[j + 1]
  <2>4. l \in Lines  BY <2>2
  <2>5. SubSeq(c, 1, j + 1) = Append(SubSeq(c, 1, j), l)
    <3>1. SubSeq(c, 1, j) \in Seq(Lines) /\ Len(SubSeq(c, 1, j)) = j  BY <1>2, <2>2
    <3>2. SubSeq(c, 1, j + 1) \in Seq(Lines) /\ Len(SubSeq(c, 1, j + 1)) = j + 1  BY <1>2, <2>2
    <3>3. /\ \A i \in 1 .. j : SubSeq(c, 1, j + 1)[i] = SubSeq(c, 1, j)[i]
          /\ SubSeq(c, 1, j + 1)[j + 1] = l
      BY <1>1, <2>2
    <3> HIDE DEF j, l
    <3>4. QED  BY <2>4, <3>1, <3>2, <3>3, IsAppend
  <2>6. m(j + 1) = m(j) \/ m(j + 1) = Append(m(j), <<f, j + 1>>)
    <3>1. SubSeq(c, 1, j) \in Seq(Lines) /\ Len(SubSeq(c, 1, j)) = j  BY <1>2, <2>2
    <3> HIDE DEF j, l
    <3>2. QED  BY <2>4, <2>5, <3>1, MatchesGrow, Zenon
  <2>7. m(n) \in Seq(Places)  BY <1>2
  <2>8. <<f, j + 1>> \in Places  BY <2>2 DEF Places
  <2>9. Append(m(n) \o v, <<f, j + 1>>) = m(n) \o Append(v, <<f, j + 1>>)
        /\ Append(v, <<f, j + 1>>) \in Seq(Places)
    <3> HIDE DEF m
    <3>1. QED  BY <2>7, <2>8, PlacesAppended, Zenon
  <2>10. m(j) = m(n) \o v  BY <2>3
  <2>11. n + (k + 1) = j + 1  BY <2>2
  <2> HIDE DEF m, j
  <2>12. QED  BY <2>6, <2>9, <2>10, <2>11
<1>5. Len(c) - n \in P
  <2>1. P = Nat
    <3> HIDE DEF P
    <3>1. QED  BY <1>3, <1>4, SetInduction DEF P
  <2>2. Len(c) - n \in Nat  BY <1>1
  <2> HIDE DEF P
  <2>3. QED  BY <2>1, <2>2
<1>6. n + (Len(c) - n) = Len(c)  BY <1>1
<1> HIDE DEF m
<1>7. PICK v \in Seq(Places) : m(Len(c)) = m(n) \o v  BY <1>1, <1>5, <1>6
<1>8. QED  BY <1>1, <1>7 DEF m

\* One more file read adds its matches.
LEMMA SeenGrows ==
  ASSUME Tool!WorkspaceToolsAssumption, NEW q \in Seq(Read), NEW e \in Read
  PROVE  /\ Seen(<<>>) = <<>> /\ Held(<<>>) = <<>>
         /\ Seen(q) \in Seq(Places) /\ Held(q) \in Seq(Places)
         /\ Seen(Append(q, e)) = Seen(q) \o Tool!MatchesOf(e.file, Tool!Bounded(e.content))
         /\ Held(Append(q, e)) = Held(q) \o Tool!MatchesOf(e.file, e.content)
<1> DEFINE see(r) == Tool!MatchesOf(r.file, Tool!Bounded(r.content))
           hold(r) == Tool!MatchesOf(r.file, r.content)
<1>1. ASSUME NEW r \in Read PROVE see(r) \in Seq(Places) /\ hold(r) \in Seq(Places)
  <2>1. "hit" \in Lines /\ r.file \in Tool!Files /\ r.content \in Seq(Lines)  BY DEF Lines, Read
  <2>2. QED  BY <2>1, BoundedTyped, MatchesGrow
<1>2. \A p : Tool!FlattenSeq(p) = FlattenSeq(p)  BY DEF Tool!FlattenSeq, FlattenSeq
<1> HIDE DEF see, hold
<1>3. ASSUME NEW p \in Seq(Read)
      PROVE  /\ [i \in DOMAIN p |-> see(p[i])] \in Seq(Seq(Places))
             /\ [i \in DOMAIN p |-> hold(p[i])] \in Seq(Seq(Places))
             /\ Len([i \in DOMAIN p |-> see(p[i])]) = Len(p)
             /\ Len([i \in DOMAIN p |-> hold(p[i])]) = Len(p)
  <2>1. DOMAIN p = 1 .. Len(p) /\ Len(p) \in Nat /\ \A i \in 1 .. Len(p) : p[i] \in Read
    OBVIOUS
  <2>2. /\ [i \in DOMAIN p |-> see(p[i])] \in [1 .. Len(p) -> Seq(Places)]
        /\ [i \in DOMAIN p |-> hold(p[i])] \in [1 .. Len(p) -> Seq(Places)]
    BY <1>1, <2>1
  <2>3. QED  BY <2>1, <2>2, SeqDef
<1> DEFINE d == Append(q, e)
<1>4. /\ Len(q) \in Nat /\ d \in Seq(Read) /\ Len(d) = Len(q) + 1 /\ d[Len(q) + 1] = e
      /\ DOMAIN d = 1 .. Len(q) + 1 /\ DOMAIN q = 1 .. Len(q)
      /\ \A i \in 1 .. Len(q) : d[i] = q[i]
  OBVIOUS
<1> HIDE DEF d
<1>5. [i \in DOMAIN d |-> see(d[i])] = Append([i \in DOMAIN q |-> see(q[i])], see(e))
  BY <1>1, <1>3, <1>4, IsAppend
<1>6. [i \in DOMAIN d |-> hold(d[i])] = Append([i \in DOMAIN q |-> hold(q[i])], hold(e))
  BY <1>1, <1>3, <1>4, IsAppend
<1>7. Seen(<<>>) = <<>> /\ Held(<<>>) = <<>>
  <2>1. [i \in DOMAIN <<>> |-> see(<<>>[i])] = <<>> /\ [i \in DOMAIN <<>> |-> hold(<<>>[i])] = <<>>
    OBVIOUS
  <2>2. FlattenSeq(<<>>) = <<>>
    <3>1. <<>> \in Seq(Seq(Places)) /\ <<>> \in Seq(Places)  OBVIOUS
    <3>2. QED  BY <3>1, FlattenGrows, Zenon
  <2>3. QED  BY <1>2, <2>1, <2>2 DEF Seen, Held, see, hold
<1>8. /\ Seen(q) \in Seq(Places) /\ Seen(d) = Seen(q) \o see(e)
  <2>1. /\ Seen(q) = FlattenSeq([i \in DOMAIN q |-> see(q[i])])
        /\ Seen(d) = FlattenSeq([i \in DOMAIN d |-> see(d[i])])
    BY <1>2 DEF Seen, see
  <2>2. QED  BY <1>1, <1>3, <1>5, <2>1, FlattenGrows
<1>9. /\ Held(q) \in Seq(Places) /\ Held(d) = Held(q) \o hold(e)
  <2>1. /\ Held(q) = FlattenSeq([i \in DOMAIN q |-> hold(q[i])])
        /\ Held(d) = FlattenSeq([i \in DOMAIN d |-> hold(d[i])])
    BY <1>2 DEF Held, hold
  <2>2. QED  BY <1>1, <1>3, <1>6, <2>1, FlattenGrows, Zenon
<1>10. QED  BY <1>7, <1>8, <1>9 DEF d, see, hold

\* A search sees no more than the files hold, and all of it when none was cut.
LEMMA SeenOfHeld ==
  ASSUME Tool!WorkspaceToolsAssumption, NEW q \in Seq(Read)
  PROVE  /\ Len(Seen(q)) <= Len(Held(q)) /\ Len(Held(q)) \in Nat /\ Len(Seen(q)) \in Nat
         /\ Uncut(q) => Seen(q) = Held(q)
<1> DEFINE P == {n \in Nat : \A p \in Seq(Read) : Len(p) = n => Len(Seen(p)) <= Len(Held(p))}
<1>1. "hit" \in Lines  BY DEF Lines
<1>2. 0 \in P
  <2>1. \A p \in Seq(Read) : Len(p) = 0 => p = <<>>  OBVIOUS
  <2>2. [file |-> 1, content |-> <<>>] \in Read  BY DEF Read, Tool!Files
  <2>3. Seen(<<>>) = <<>> /\ Held(<<>>) = <<>>  BY <2>2, SeenGrows
  <2>4. QED  BY <2>1, <2>3
<1>3. ASSUME NEW n \in P PROVE n + 1 \in P
  <2>1. SUFFICES ASSUME NEW p \in Seq(Read), Len(p) = n + 1 PROVE Len(Seen(p)) <= Len(Held(p))
    OBVIOUS
  <2>2. PICK u \in Seq(Read), e \in Read : p = Append(u, e) /\ Len(u) = n
    BY <2>1, Split, Zenon
  <2>3. Len(Seen(u)) <= Len(Held(u))  BY <2>2
  <2> DEFINE b == Tool!Bounded(e.content)
             sees == Tool!MatchesOf(e.file, b)
             holds == Tool!MatchesOf(e.file, e.content)
  <2>4. e.file \in Tool!Files /\ e.content \in Seq(Lines)  BY DEF Read
  <2>5. b \in Seq(Lines) /\ Len(b) \in 0 .. Len(e.content) /\ b = SubSeq(e.content, 1, Len(b))
    <3>1. /\ b \in Seq(Lines) /\ Len(b) <= Len(e.content)
          /\ \A k \in 0 .. Len(b) : SubSeq(b, 1, k) = SubSeq(e.content, 1, k)
      BY <2>4, BoundedTyped
    <3> HIDE DEF b
    <3>2. SubSeq(b, 1, Len(b)) = b /\ Len(b) \in 0 .. Len(b) /\ Len(e.content) \in Nat
      BY <2>4, <3>1
    <3>3. QED  BY <3>1, <3>2
  <2> HIDE DEF b
  <2>6. PICK v \in Seq(Places) : holds = sees \o v
    BY <2>4, <2>5, MatchesBegin, Zenon
  <2>7. sees \in Seq(Places)  BY <1>1, <2>4, <2>5, MatchesGrow
  <2>8. Len(sees) <= Len(holds) /\ holds \in Seq(Places)
    <3> HIDE DEF sees, holds
    <3>1. QED  BY <2>6, <2>7, ConcatProperties
  <2>9. /\ Seen(p) = Seen(u) \o sees /\ Held(p) = Held(u) \o holds
        /\ Seen(u) \in Seq(Places) /\ Held(u) \in Seq(Places)
    BY <2>2, SeenGrows DEF b
  <2> HIDE DEF sees, holds
  <2>10. /\ Len(Seen(p)) = Len(Seen(u)) + Len(sees) /\ Len(Held(p)) = Len(Held(u)) + Len(holds)
    BY <2>7, <2>8, <2>9, ConcatProperties
  <2>11. QED  BY <2>3, <2>7, <2>8, <2>9, <2>10
<1>4. Len(q) \in P
  <2> HIDE DEF P
  <2>1. P = Nat  BY <1>2, <1>3, SetInduction, Zenon DEF P
  <2>2. QED  BY <2>1
<1>5. Seen(q) \in Seq(Places) /\ Held(q) \in Seq(Places)
  <2>1. [file |-> 1, content |-> <<>>] \in Read  BY DEF Read, Tool!Files
  <2>2. QED  BY <2>1, SeenGrows
<1>6. Uncut(q) => Seen(q) = Held(q)
  <2>1. SUFFICES ASSUME Uncut(q) PROVE Seen(q) = Held(q)  OBVIOUS
  <2>2. ASSUME NEW i \in DOMAIN q PROVE Tool!Bounded(q[i].content) = q[i].content
    <3>1. q[i] \in Read  OBVIOUS
    <3>2. q[i].content \in Seq(Lines)  BY <3>1 DEF Read
    <3>3. ~Tool!Dropped(q[i].content)  BY <2>1 DEF Uncut
    <3>4. QED  BY <3>2, <3>3, BoundedTyped
  <2>3. QED  BY <2>2 DEF Seen, Held
<1>7. QED  BY <1>4, <1>5, <1>6

\* What a call returns.
LEMMA ResultsTyped ==
  /\ \A c : Tool!Error(c).kind = "error" /\ Tool!Error(c) # Tool!NoResult
  /\ \A l, m : /\ Tool!Stop(l, m).kind = "stopped" /\ Tool!Stop(l, m) # Tool!NoResult
               /\ Tool!Stop(l, m).list = l /\ Tool!Stop(l, m).truncated = m
               /\ Tool!Complete(l, m).kind = "completed" /\ Tool!Complete(l, m) # Tool!NoResult
               /\ Tool!Complete(l, m).list = l /\ Tool!Complete(l, m).truncated = m
  /\ Tool!NoResult.kind = "none"
  /\ Tool!Silent.kind = "stopped" /\ Tool!Silent # Tool!NoResult
  /\ Tool!Silent.list = <<>> /\ ~Tool!Silent.truncated
<1>1. \A c : Tool!Error(c).kind = "error"  BY DEF Tool!Error
<1>2. \A l, m : /\ Tool!Stop(l, m).kind = "stopped"
                /\ Tool!Stop(l, m).list = l /\ Tool!Stop(l, m).truncated = m
                /\ Tool!Complete(l, m).kind = "completed"
                /\ Tool!Complete(l, m).list = l /\ Tool!Complete(l, m).truncated = m
  BY DEF Tool!Stop, Tool!Complete, Tool!Outcome
<1>3. Tool!NoResult.kind = "none"  BY DEF Tool!NoResult
<1>4. Tool!Silent.kind = "stopped" /\ Tool!Silent.list = <<>> /\ ~Tool!Silent.truncated
  BY DEF Tool!Silent, Tool!Stop, Tool!Outcome
<1>5. QED  BY <1>1, <1>2, <1>3, <1>4

\* What the calls are, and which call takes which step.
LEMMA CallsTyped ==
  ASSUME call \in Tool!Calls
  PROVE  /\ call.tool \in {"read", "glob", "grep_file", "grep_scope", "write", "edit"}
         /\ call.tool \in {"read", "grep_file", "write", "edit"} => call.path \in Tool!Files
         /\ call.tool \in {"write", "edit"} => call.new \in {<<"hit">>, <<"miss">>}
BY DEF Tool!Calls, Tool!Texts

LEMMA StepsTyped ==
  ASSUME call \in Tool!Calls, pc \in {"dispatch", "returned"} \cup Steps[call.tool]
  PROVE  /\ pc = "read" \/ pc = "read_end" => call.tool = "read"
         /\ pc = "check" \/ pc = "write" => call.tool = "write"
         /\ pc = "target" \/ pc = "replace" => call.tool = "edit"
         /\ pc = "glob" \/ pc = "list" => call.tool = "glob"
         /\ pc = "walk" => call.tool = "grep_scope"
         /\ pc = "grep_file" => call.tool = "grep_file"
         /\ pc = "scan" \/ pc = "next" \/ pc = "grep_end" => call.tool \in Searches
         /\ Steps["read"] = {"read", "read_end"} /\ Steps["glob"] = {"glob", "list"}
         /\ Steps["grep_file"] = {"grep_file", "scan", "next", "grep_end"}
         /\ Steps["grep_scope"] = {"walk", "scan", "next", "grep_end"}
         /\ Steps["write"] = {"check", "write"} /\ Steps["edit"] = {"target", "replace"}
<1>1. call.tool \in {"read", "glob", "grep_file", "grep_scope", "write", "edit"}
  BY CallsTyped
<1>2. /\ Steps["read"] = {"read", "read_end"} /\ Steps["glob"] = {"glob", "list"}
      /\ Steps["grep_file"] = {"grep_file", "scan", "next", "grep_end"}
      /\ Steps["grep_scope"] = {"walk", "scan", "next", "grep_end"}
      /\ Steps["write"] = {"check", "write"} /\ Steps["edit"] = {"target", "replace"}
  BY DEF Steps
<1>3. QED  BY <1>1, <1>2 DEF Searches

\* What a file holds.
LEMMA DiskTyped ==
  ASSUME Tool!WorkspaceToolsAssumption, ToolTypes, NEW f \in Tool!Files
  PROVE  /\ disk[f] \in Seq(Lines \cup {"missing"}) /\ Tool!Missing \in Seq(Lines \cup {"missing"})
         /\ disk[f] # Tool!Missing => disk[f] \in Seq(Lines) /\ disk[f] \in Tool!Contents
<1>1. disk[f] \in Tool!Contents \/ disk[f] = Tool!Missing  BY DEF ToolTypes
<1>2. disk[f] \in Tool!Contents => disk[f] \in Seq(Lines)  BY ContentsTyped
<1>3. disk[f] \in Seq(Lines) => disk[f] \in Seq(Lines \cup {"missing"})  BY SeqMonotonic
<1>4. Tool!Missing \in Seq(Lines \cup {"missing"})  BY DEF Tool!Missing
<1>5. QED  BY <1>1, <1>2, <1>3, <1>4

LEMMA SmallContents ==
  ASSUME Tool!WorkspaceToolsAssumption
  PROVE  {<<>>, <<"hit">>, <<"miss">>} \subseteq Tool!Contents
<1>1. {"hit", "miss"} \subseteq Lines  BY DEF Lines
<1>2. /\ <<>> \in Seq(Lines) /\ <<"hit">> \in Seq(Lines) /\ <<"miss">> \in Seq(Lines)
      /\ Len(<<>>) = 0 /\ Len(<<"hit">>) = 1 /\ Len(<<"miss">>) = 1
  BY <1>1
<1>3. FileLines \in Nat /\ 0 <= FileLines /\ 1 <= FileLines  BY ContentsTyped
<1>4. <<>> \in Tool!Contents /\ <<"hit">> \in Tool!Contents /\ <<"miss">> \in Tool!Contents
  BY ONLY <1>2, <1>3, ContentsTyped, Tool!WorkspaceToolsAssumption, Zenon
<1>5. QED  BY <1>4

LEMMA ToolInit == ASSUME Tool!WorkspaceToolsAssumption, Tool!Init PROVE ToolInv
<1>1. /\ pc = "dispatch" /\ text = <<>> /\ todo = <<>> /\ line = 0 /\ found = <<>>
      /\ truncated = FALSE /\ result = Tool!NoResult /\ searched = <<>> /\ effect = FALSE
      /\ passed = <<>>
      /\ disk \in [Tool!Files -> Tool!Contents \cup {Tool!Missing}] /\ call \in Tool!Calls
  BY DEF Tool!Init
<1>2. ToolTypes  BY <1>1, ResultsTyped DEF ToolTypes
<1>3. EffectInv  BY <1>1 DEF EffectInv
<1>4. SearchInv  BY <1>1, ResultsTyped DEF SearchInv, Tool!SearchIsHonest
<1>5. PassedInv  BY <1>1 DEF PassedInv
<1>6. QED  BY <1>2, <1>3, <1>4, <1>5 DEF ToolInv

\* A write puts a content in the file and returns.
LEMMA WriteTypes ==
  ASSUME Tool!WorkspaceToolsAssumption, ToolTypes, NEW content \in Tool!Contents,
         Tool!WriteContent(content), call.path \in Tool!Files,
         UNCHANGED <<call, cancelled, text, todo, line, found, truncated, searched, changes>>
  PROVE  /\ ToolTypes' /\ pc' = "returned"
         /\ result'.kind = "completed" \/ result' = Tool!Error("tool_write_failed")
<1>1. /\ pc' = "returned" /\ result'.kind \in {"completed", "error"} /\ result' # Tool!NoResult
      /\ result'.kind = "completed" \/ result' = Tool!Error("tool_write_failed")
  <2>1. pc' = "returned" /\ (\/ \E l, m : result' = Tool!Complete(l, m)
                             \/ result' = Tool!Error("tool_write_failed"))
    BY DEF Tool!WriteContent, Tool!Return
  <2>2. QED  BY <2>1, ResultsTyped
<1>2. disk' \in [Tool!Files -> Tool!Contents \cup {Tool!Missing}]
  BY SmallContents DEF ToolTypes, Tool!WriteContent
<1>3. QED  BY <1>1, <1>2 DEF ToolTypes

LEMMA ToolTypesStep ==
  ASSUME Tool!WorkspaceToolsAssumption, ToolTypes, pc = "scan" => searched # <<>>,
         [Tool!Next]_(Tool!vars)
  PROVE  ToolTypes'
<1> USE DEF Tool!search
<1>1. CASE Tool!Cancel
  BY <1>1 DEF Tool!Cancel, ToolTypes
<1>2. CASE Tool!ChangeFile
  <2>1. disk' \in [Tool!Files -> Tool!Contents \cup {Tool!Missing}]
    <3>1. PICK f \in Tool!Files, c \in {<<"hit">>, <<"miss">>, Tool!Missing} :
            disk' = [disk EXCEPT ![f] = c]
      BY <1>2, Zenon DEF Tool!ChangeFile
    <3>2. c \in Tool!Contents \cup {Tool!Missing}  BY SmallContents
    <3>3. QED  BY <3>1, <3>2 DEF ToolTypes
  <2>2. QED  BY <1>2, <2>1 DEF Tool!ChangeFile, ToolTypes
<1>3. CASE Tool!Dispatch
  <2>1. UNCHANGED <<disk, call, text, todo, line, found, searched>> /\ pc = "dispatch"
    BY <1>3 DEF Tool!Dispatch
  <2>2. CASE cancelled
    <3>1. pc' = "returned" /\ result' = Tool!Silent
      BY <1>3, <2>2 DEF Tool!Dispatch, Tool!Return
    <3>2. result'.kind = "stopped" /\ result' # Tool!NoResult  BY <3>1, ResultsTyped
    <3>3. QED  BY <2>1, <3>1, <3>2 DEF ToolTypes
  <2>3. CASE ~cancelled
    <3>1. pc' = Tool!FirstStep /\ result' = result  BY <1>3, <2>3 DEF Tool!Dispatch
    <3>2. /\ call.tool \in {"read", "glob", "grep_file", "grep_scope", "write", "edit"}
          /\ call \in Tool!Calls /\ pc \in {"dispatch", "returned"} \cup Steps[call.tool]
      BY CallsTyped DEF ToolTypes
    <3>3. pc' \in Steps[call.tool] /\ pc' # "returned" /\ pc' # "replace"
      BY <3>1, <3>2, StepsTyped DEF Tool!FirstStep
    <3>4. QED  BY <2>1, <3>1, <3>3 DEF ToolTypes
  <2>4. QED  BY <2>2, <2>3
<1>4. CASE Tool!ReadFile
  <2>1. /\ call.tool = "read" /\ call.path \in Tool!Files /\ Steps["read"] = {"read", "read_end"}
        /\ line = 0
    BY <1>4, StepsTyped, CallsTyped DEF Tool!ReadFile, ToolTypes, Searches
  <2>2. UNCHANGED <<disk, call, todo, line, found>>  BY <1>4 DEF Tool!ReadFile
  <2>3. CASE disk[call.path] = Tool!Missing
    <3>1. pc' = "returned" /\ result' = Tool!Error("tool_read_failed") /\ UNCHANGED <<text, searched>>
      BY <1>4, <2>3 DEF Tool!ReadFile, Tool!Return
    <3>2. result'.kind = "error" /\ result' # Tool!NoResult  BY <3>1, ResultsTyped
    <3>3. QED  BY <2>2, <3>1, <3>2 DEF ToolTypes
  <2>4. CASE disk[call.path] # Tool!Missing
    <3>1. /\ pc' = "read_end" /\ text' = Tool!Bounded(disk[call.path]) /\ result' = result
          /\ searched' = <<[file |-> call.path, content |-> disk[call.path]]>>
      BY <1>4, <2>4 DEF Tool!ReadFile
    <3>2. disk[call.path] \in Seq(Lines)  BY <2>1, <2>4, DiskTyped
    <3>3. text' \in Seq(Lines)  BY <3>1, <3>2, BoundedTyped
    <3>4. text' \in Seq(Lines \cup {"missing"}) /\ Len(text') \in Nat  BY <3>3, SeqMonotonic
    <3>5. [file |-> call.path, content |-> disk[call.path]] \in Read  BY <2>1, <3>2 DEF Read
    <3>6. searched' \in Seq(Read)  BY <3>1, <3>5
    <3>7. pc # "returned"  BY <1>4 DEF Tool!ReadFile
    <3>8. QED  BY <2>1, <2>2, <3>1, <3>4, <3>6, <3>7 DEF ToolTypes, Searches
  <2>5. QED  BY <2>3, <2>4
<1>5. CASE Tool!ReadEnds \/ Tool!GlobEnds \/ Tool!GrepEnds
  <2>1. /\ pc' = "returned" /\ UNCHANGED <<disk, call, text, todo, line, found, searched>>
        /\ \E l, m : result' = Tool!Stop(l, m) \/ result' = Tool!Complete(l, m)
    BY <1>5, Zenon DEF Tool!ReadEnds, Tool!GlobEnds, Tool!GrepEnds, Tool!Return
  <2>2. result'.kind \in {"stopped", "completed"} /\ result' # Tool!NoResult
    BY <2>1, ResultsTyped
  <2>3. QED  BY <2>1, <2>2 DEF ToolTypes
<1>6. CASE Tool!CheckExpected
  <2>1. /\ call.tool = "write" /\ call.path \in Tool!Files /\ Steps["write"] = {"check", "write"}
        /\ line = 0
    BY <1>6, StepsTyped, CallsTyped DEF Tool!CheckExpected, ToolTypes, Searches
  <2>2. UNCHANGED <<disk, call, todo, line, found, searched>> /\ text' = Tool!Limited(call.path)
    BY <1>6 DEF Tool!CheckExpected
  <2>3. text' \in Seq(Lines \cup {"missing"}) /\ Len(text') \in Nat
    BY <2>1, <2>2, DiskTyped DEF Tool!Limited
  <2>4. \/ pc' = "write" /\ result' = result
        \/ pc' = "returned" /\ result'.kind \in {"stopped", "error"} /\ result' # Tool!NoResult
    <3>1. \/ pc' = "write" /\ result' = result
          \/ pc' = "returned" /\ result' = Tool!Silent
          \/ pc' = "returned" /\ \E c : result' = Tool!Error(c)
      BY <1>6 DEF Tool!CheckExpected, Tool!Return
    <3>2. QED  BY <3>1, ResultsTyped
  <2>5. pc = "check"  BY <1>6 DEF Tool!CheckExpected
  <2>6. QED  BY <2>1, <2>2, <2>3, <2>4, <2>5 DEF ToolTypes
<1>7. CASE Tool!WriteFile
  <2>1. call.path \in Tool!Files /\ call.new \in Tool!Contents
    BY <1>7, StepsTyped, CallsTyped, SmallContents, Zenon DEF Tool!WriteFile, ToolTypes
  <2>2. QED  BY <1>7, <2>1, WriteTypes DEF Tool!WriteFile
<1>8. CASE Tool!ReadTarget
  <2>1. /\ call.tool = "edit" /\ call.path \in Tool!Files /\ Steps["edit"] = {"target", "replace"}
        /\ line = 0
    BY <1>8, StepsTyped, CallsTyped DEF Tool!ReadTarget, ToolTypes, Searches
  <2> DEFINE checks == Tool!EditChecks(disk[call.path])
             failed == {i \in DOMAIN checks : checks[i].fails}
  <2>2. /\ UNCHANGED <<disk, call, todo, line, found, searched>> /\ text' = disk[call.path]
        /\ pc = "target"
    BY <1>8 DEF Tool!ReadTarget
  <2>3. text' \in Seq(Lines \cup {"missing"}) /\ Len(text') \in Nat
    BY <2>1, <2>2, DiskTyped
  <2>4. \/ pc' = "replace" /\ result' = result /\ failed = {}
        \/ pc' = "returned" /\ result'.kind \in {"stopped", "error"} /\ result' # Tool!NoResult
    <3>1. \/ pc' = "replace" /\ result' = result /\ failed = {}
          \/ pc' = "returned" /\ result' = Tool!Silent
          \/ pc' = "returned" /\ \E c : result' = Tool!Error(c)
      BY <1>8 DEF Tool!ReadTarget, Tool!Return
    <3> HIDE DEF failed
    <3>2. QED  BY <3>1, ResultsTyped
  <2>5. failed = {} => text' # Tool!Missing /\ Tool!Contains(text', "hit")
    <3>1. /\ 1 \in DOMAIN checks /\ 4 \in DOMAIN checks
          /\ checks[1].fails = (disk[call.path] = Tool!Missing)
          /\ checks[4].fails = ~Tool!Contains(disk[call.path], "hit")
      BY DEF Tool!EditChecks
    <3> HIDE DEF checks
    <3>2. QED  BY <2>2, <3>1, Zenon
  <2>6. text' # Tool!Missing => text' \in Tool!Contents  BY <2>1, <2>2, DiskTyped
  <2>7. Tool!Contains(text, "hit")' = Tool!Contains(text', "hit")  BY DEF Tool!Contains
  <2> HIDE DEF failed
  <2>8. QED  BY <2>1, <2>2, <2>3, <2>4, <2>5, <2>6, <2>7 DEF ToolTypes
<1>9. CASE Tool!ReplaceOnce
  <2> DEFINE at == CHOOSE i \in DOMAIN text :
                     text[i] = "hit" /\ \A j \in 1 .. i - 1 : text[j] # "hit"
             new == SubSeq(text, 1, at - 1) \o call.new \o SubSeq(text, at + 1, Len(text))
  <2>1. call.path \in Tool!Files /\ call.new \in {<<"hit">>, <<"miss">>}
    BY <1>9, StepsTyped, CallsTyped DEF Tool!ReplaceOnce, ToolTypes
  <2>2. text \in Seq(Lines) /\ Len(text) <= FileLines /\ Tool!Contains(text, "hit")
    BY <1>9, ContentsTyped DEF Tool!ReplaceOnce, ToolTypes
  <2>3. at \in 1 .. Len(text)
    <3> DEFINE hits == {i \in 1 .. Len(text) : text[i] = "hit"}
    <3>1. hits # {} /\ hits \subseteq Nat  BY <2>2 DEF Tool!Contains
    <3>2. PICK i \in hits : \A j \in hits : i <= j
      <4> HIDE DEF hits
      <4>1. QED  BY <3>1, LeastElement, Zenon
    <3>3. \A j \in 1 .. i - 1 : text[j] # "hit"
      <4>1. ASSUME NEW j \in 1 .. i - 1, text[j] = "hit" PROVE FALSE
        <5>1. j \in hits /\ j < i  BY <2>2, <4>1
        <5>2. QED  BY <3>2, <5>1
      <4>2. QED  BY <4>1
    <3>4. i \in DOMAIN text /\ text[i] = "hit"  BY <2>2
    <3>5. QED  BY <2>2, <3>3, <3>4
  <2> HIDE DEF at
  <2>4. new \in Seq(Lines) /\ Len(new) = Len(text)
    <3>1. /\ SubSeq(text, 1, at - 1) \in Seq(Lines) /\ Len(SubSeq(text, 1, at - 1)) = at - 1
          /\ SubSeq(text, at + 1, Len(text)) \in Seq(Lines)
          /\ Len(SubSeq(text, at + 1, Len(text))) = Len(text) - at
      BY <2>2, <2>3
    <3>2. call.new \in Seq(Lines) /\ Len(call.new) = 1
      <4>1. {"hit", "miss"} \subseteq Lines  BY DEF Lines
      <4>2. ASSUME NEW c \in {"hit", "miss"} PROVE <<c>> \in Seq(Lines) /\ Len(<<c>>) = 1
        BY <4>1
      <4>3. QED  BY <2>1, <4>2
    <3> DEFINE a == SubSeq(text, 1, at - 1)
               b == SubSeq(text, at + 1, Len(text))
               c == call.new
    <3>3. Len(text) \in Nat  BY <2>2
    <3>4. /\ a \in Seq(Lines) /\ b \in Seq(Lines) /\ c \in Seq(Lines)
          /\ Len(a) = at - 1 /\ Len(c) = 1 /\ Len(b) = Len(text) - at
      BY <3>1, <3>2
    <3>5. new = a \o c \o b  BY DEF at
    <3> HIDE DEF a, b, c, new
    <3>9. at \in Nat /\ at - 1 \in Nat /\ (at - 1) + 1 = at  BY <2>3, <3>3
    <3>10. \A p, q \in Seq(Lines) : p \o q \in Seq(Lines) /\ Len(p \o q) = Len(p) + Len(q)
      BY ConcatProperties
    <3>6. a \o c \in Seq(Lines) /\ Len(a \o c) = at
      BY ONLY <3>4, <3>9, <3>10, Zenon
    <3>7. (a \o c) \o b \in Seq(Lines) /\ Len((a \o c) \o b) = at + (Len(text) - at)
      BY ONLY <3>4, <3>6, <3>10
    <3>8. QED  BY <2>3, <3>3, <3>5, <3>7
  <2>5. new \in Tool!Contents  BY <2>2, <2>4, ContentsTyped, Zenon
  <2>6. Tool!WriteContent(new) /\ UNCHANGED <<call, cancelled, text, todo, line, found, truncated,
                                             searched, changes>>
    BY <1>9 DEF Tool!ReplaceOnce, at
  <2> HIDE DEF new
  <2>7. QED  BY <2>1, <2>5, <2>6, WriteTypes
<1>10. CASE Tool!Traverse \/ Tool!WalkScope
  <2>1. /\ UNCHANGED <<disk, call, text, line, found, searched>>
        /\ call.tool \in {"glob", "grep_scope"} /\ call \in Tool!Calls
    BY <1>10, StepsTyped, Zenon DEF Tool!Traverse, Tool!WalkScope, ToolTypes
  <2>2. todo' \in Seq(Tool!Files)
    <3>1. CASE Tool!Traverse
      <4>1. todo' \in [1 .. Cardinality(Tool!Present) -> Tool!Present]
        BY <3>1, Zenon DEF Tool!Traverse, Tool!SetToSeqs, Tool!Cardinality, Cardinality
      <4>2. IsFiniteSet(1 .. 2) /\ Tool!Present \subseteq 1 .. 2
        <5>1. 1 \in Int /\ 2 \in Int  OBVIOUS
        <5>2. IsFiniteSet(1 .. 2)  BY ONLY <5>1, FS_Interval
        <5>3. QED  BY <5>2 DEF Tool!Present, Tool!Files
      <4>3. Cardinality(Tool!Present) \in Nat  BY <4>2, FS_Subset, FS_CardinalityType, Zenon
      <4>4. todo' \in Seq(Tool!Present)  BY <4>1, <4>3, SeqDef
      <4>5. QED  BY <4>2, <4>4, SeqMonotonic DEF Tool!Files
    <3>2. CASE Tool!WalkScope
      <4>1. [f \in Tool!Files |-> f] \in Seq(Tool!Files)
        <5>1. [f \in 1 .. 2 |-> f] \in [1 .. 2 -> 1 .. 2]  OBVIOUS
        <5>2. QED  BY <5>1, SeqDef DEF Tool!Files
      <4>2. \A T : Tool!Within([f \in Tool!Files |-> f], T) = Within([f \in Tool!Files |-> f], T)
        BY DEF Tool!Within, Within
      <4>3. todo' = todo \/ \E T : todo' = Tool!Within([f \in Tool!Files |-> f], T)
        BY <3>2 DEF Tool!WalkScope
      <4>4. todo \in Seq(Tool!Files)  BY DEF ToolTypes
      <4>5. \A T : Within([f \in Tool!Files |-> f], T) \in Seq(Tool!Files)
        BY <4>1, WithinType, Zenon
      <4>6. QED  BY <4>2, <4>3, <4>4, <4>5, Zenon
    <3>3. QED  BY <1>10, <3>1, <3>2
  <2>3. \/ pc' \in Steps[call.tool] /\ pc' \in {"list", "next"} /\ result' = result
        \/ /\ pc' = "returned" /\ result'.kind \in {"stopped", "error"}
           /\ result' # Tool!NoResult
    <3>1. CASE Tool!Traverse
      <4>1. pc' = "list" /\ result' = result /\ pc = "glob"  BY <3>1 DEF Tool!Traverse
      <4>2. QED  BY <4>1, StepsTyped DEF ToolTypes
    <3>2. CASE Tool!WalkScope
      <4>1. /\ pc = "walk"
            /\ \/ pc' = "next" /\ result' = result
               \/ pc' = "returned" /\ \E l, m : result' = Tool!Stop(l, m)
               \/ pc' = "returned" /\ \E c : result' = Tool!Error(c)
        BY <3>2, Zenon DEF Tool!WalkScope, Tool!Return
      <4>2. QED  BY <4>1, StepsTyped, ResultsTyped DEF ToolTypes
    <3>3. QED  BY <1>10, <3>1, <3>2
  <2>4. pc # "returned"  BY <1>10, Zenon DEF Tool!Traverse, Tool!WalkScope
  <2>5. QED  BY <2>1, <2>2, <2>3, <2>4 DEF ToolTypes
<1>11. CASE Tool!ListEntry
  <2>1. todo' \in Seq(Tool!Files) /\ Head(todo) \in Tool!Files
    BY <1>11, HeadTailProperties DEF Tool!ListEntry, ToolTypes
  <2>2. found' \in Seq(Tool!Files \cup Places)
    <3>1. found \in Seq(Tool!Files \cup Places) /\ Head(todo) \in Tool!Files \cup Places
      BY <2>1 DEF ToolTypes
    <3>2. found' = found \/ found' = Append(found, Head(todo))  BY <1>11 DEF Tool!ListEntry
    <3>3. QED  BY <3>1, <3>2, AppendProperties
  <2>3. QED  BY <1>11, <2>1, <2>2 DEF Tool!ListEntry, ToolTypes
<1>12. CASE Tool!GrepFile \/ Tool!NextFile
  <2>1. UNCHANGED <<disk, call, found>> /\ call.tool \in Searches /\ pc # "returned"
    BY <1>12, StepsTyped, Zenon DEF Tool!GrepFile, Tool!NextFile, ToolTypes, Searches
  <2>2. todo' \in Seq(Tool!Files)
    <3>1. todo' = todo \/ (todo # <<>> /\ todo' = Tail(todo))
      BY <1>12, Zenon DEF Tool!GrepFile, Tool!NextFile
    <3>2. todo \in Seq(Tool!Files)  BY DEF ToolTypes
    <3>3. QED  BY <3>1, <3>2, HeadTailProperties
  <2>3. CASE \E f \in Tool!Files : disk[f] # Tool!Missing /\ Tool!OpenForScan(f)
    <3>1. PICK f \in Tool!Files : disk[f] # Tool!Missing /\ Tool!OpenForScan(f)  BY <2>3
    <3>2. /\ text' = Tool!Bounded(disk[f]) /\ line' = 0 /\ pc' = "scan" /\ result' = result
          /\ searched' = Append(searched, [file |-> f, content |-> disk[f]])
      BY <3>1 DEF Tool!OpenForScan
    <3>3. disk[f] \in Seq(Lines)  BY <3>1, DiskTyped
    <3>4. text' \in Seq(Lines)  BY <3>2, <3>3, BoundedTyped
    <3>5. text' \in Seq(Lines \cup {"missing"}) /\ Len(text') \in Nat  BY <3>4, SeqMonotonic
    <3>6. [file |-> f, content |-> disk[f]] \in Read  BY <3>3 DEF Read
    <3>7. searched' \in Seq(Read)  BY <3>2, <3>6, AppendProperties DEF ToolTypes
    <3>8. "scan" \in Steps[call.tool]  BY <2>1, StepsTyped DEF ToolTypes, Searches
    <3>9. QED  BY <2>1, <2>2, <3>2, <3>5, <3>7, <3>8 DEF ToolTypes
  <2>4. CASE /\ pc' = "returned" /\ UNCHANGED <<text, line, searched>>
             /\ \/ \E l, m : result' = Tool!Stop(l, m)
                \/ \E c : result' = Tool!Error(c)
    <3>1. result'.kind \in {"stopped", "error"} /\ result' # Tool!NoResult
      BY <2>4, ResultsTyped
    <3>2. QED  BY <2>1, <2>2, <2>4, <3>1 DEF ToolTypes
  <2>5. CASE Tool!GrepFile
    <3>1. call.path \in Tool!Files
      BY <2>5, StepsTyped, CallsTyped DEF Tool!GrepFile, ToolTypes
    <3>2. QED  BY <2>3, <2>4, <2>5, <3>1 DEF Tool!GrepFile, Tool!Return
  <2>6. CASE Tool!NextFile
    <3>1. Head(todo) \in Tool!Files
      BY <2>6, HeadTailProperties DEF Tool!NextFile, ToolTypes
    <3>2. CASE Tool!PassOver(Head(todo))
      <4>1. UNCHANGED <<text, line, searched, pc, result>>  BY <3>2 DEF Tool!PassOver
      <4>2. QED  BY <2>1, <2>2, <4>1 DEF ToolTypes
    <3>3. QED  BY <2>3, <2>4, <2>6, <3>1, <3>2, Zenon DEF Tool!NextFile, Tool!Return
  <2>7. QED  BY <1>12, <2>5, <2>6
<1>13. CASE Tool!ScanLine
  <2>1. /\ UNCHANGED <<disk, call, text, todo, searched>> /\ pc = "scan" /\ line' = line + 1
        /\ line' <= Len(text) /\ call.tool \in Searches
    BY <1>13, StepsTyped DEF Tool!ScanLine, ToolTypes
  <2>2. found' \in Seq(Tool!Files \cup Places)
    <3>1. searched \in Seq(Read) /\ searched # <<>> /\ line + 1 \in Nat
      BY <2>1 DEF ToolTypes
    <3>2. Tool!Last(searched) \in Read  BY <3>1 DEF Tool!Last
    <3>3. Tool!Match \in Places  BY <3>1, <3>2 DEF Tool!Match, Read, Places
    <3>4. Append(found, Tool!Match) \in Seq(Tool!Files \cup Places)
      BY <3>3, AppendProperties DEF ToolTypes
    <3>5. found' = found \/ found' = Append(found, Tool!Match)
      BY <1>13, Zenon DEF Tool!ScanLine, Tool!RecordMatch
    <3>6. QED  BY <3>4, <3>5 DEF ToolTypes
  <2>3. \/ pc' \in {"scan", "grep_end"} /\ result' = result
        \/ /\ pc' = "returned"
           /\ \E l, m : result' = Tool!Stop(l, m) \/ result' = Tool!Complete(l, m)
    BY <1>13, Zenon DEF Tool!ScanLine, Tool!RecordMatch, Tool!Return
  <2>4. "grep_end" \in Steps[call.tool] /\ "scan" \in Steps[call.tool]
    BY <2>1, StepsTyped DEF ToolTypes, Searches
  <2>5. pc' = "returned" \/ result' = result  BY <2>3
  <2>6. pc' = "returned" /\ result' # result =>
          result'.kind \in {"stopped", "completed"} /\ result' # Tool!NoResult
    BY <2>3, ResultsTyped
  <2>7. pc' = "returned" => result' # Tool!NoResult /\ result'.kind \in {"stopped", "completed"}
    BY <2>3, ResultsTyped
  <2>8. QED  BY <2>1, <2>2, <2>3, <2>4, <2>5, <2>7 DEF ToolTypes
<1>14. CASE Tool!FileScanned
  <2>1. /\ UNCHANGED <<disk, call, text, todo, line, found, searched, result>>
        /\ pc = "scan" /\ pc' \in {"next", "grep_end"} /\ call.tool \in Searches
    BY <1>14, StepsTyped DEF Tool!FileScanned, ToolTypes
  <2>2. pc' \in Steps[call.tool]
    BY <2>1, StepsTyped DEF ToolTypes, Searches
  <2>3. QED  BY <2>1, <2>2 DEF ToolTypes
<1>15. CASE UNCHANGED Tool!vars
  BY <1>15 DEF Tool!vars, ToolTypes
<1>16. QED
  BY <1>1, <1>2, <1>3, <1>4, <1>5, <1>6, <1>7, <1>8, <1>9, <1>10, <1>11, <1>12, <1>13,
    <1>14, <1>15 DEF Tool!Next

LEMMA EffectStep ==
  ASSUME Tool!WorkspaceToolsAssumption, ToolTypes, EffectInv, [Tool!Next]_(Tool!vars)
  PROVE  EffectInv'
<1> USE DEF Tool!search
<1>1. CASE Tool!WriteFile \/ Tool!ReplaceOnce
  <2>1. /\ call.guard = {} \/ text \in call.guard
        /\ UNCHANGED <<call, text>>
    BY <1>1 DEF Tool!WriteFile, Tool!ReplaceOnce, EffectInv
  <2>2. /\ pc' = "returned"
        /\ \/ \E l, m : result' = Tool!Complete(l, m)
           \/ result' = Tool!Error("tool_write_failed")
    BY <1>1, Zenon DEF Tool!WriteFile, Tool!ReplaceOnce, Tool!WriteContent, Tool!Return
  <2>3. result'.kind = "completed" \/ result' = Tool!Error("tool_write_failed")
    BY <2>2, ResultsTyped
  <2>4. QED  BY <2>1, <2>2, <2>3 DEF EffectInv
<1>2. CASE Tool!CheckExpected
  <2>1. /\ pc = "check" /\ pc' \in {"write", "returned"} /\ UNCHANGED <<call, effect>>
        /\ pc' = "write" => text' \in call.guard
    BY <1>2 DEF Tool!CheckExpected, Tool!Return
  <2>2. QED  BY <2>1 DEF EffectInv
<1>3. CASE Tool!ReadTarget
  <2> DEFINE checks == Tool!EditChecks(disk[call.path])
  <2>1. /\ pc = "target" /\ pc' \in {"replace", "returned"} /\ UNCHANGED <<call, effect>>
        /\ text' = disk[call.path]
        /\ pc' = "replace" => {i \in DOMAIN checks : checks[i].fails} = {}
    BY <1>3 DEF Tool!ReadTarget, Tool!Return
  <2>2. /\ 5 \in DOMAIN checks
        /\ checks[5].fails = (call.guard # {} /\ disk[call.path] \notin call.guard)
    BY DEF Tool!EditChecks
  <2> HIDE DEF checks
  <2>3. pc' = "replace" => call.guard = {} \/ text' \in call.guard  BY <2>1, <2>2, Zenon
  <2>4. QED  BY <2>1, <2>3 DEF EffectInv
<1>4. CASE Tool!Dispatch
  <2>1. pc = "dispatch" /\ UNCHANGED <<call, effect, text>> /\ pc' \in {"returned", Tool!FirstStep}
    BY <1>4 DEF Tool!Dispatch, Tool!Return
  <2>2. Tool!FirstStep = "write" => call.guard = {}
    BY CallsTyped DEF Tool!FirstStep, ToolTypes
  <2>3. Tool!FirstStep # "replace"
    BY CallsTyped DEF Tool!FirstStep, ToolTypes
  <2>4. QED  BY <2>1, <2>2, <2>3 DEF EffectInv
<1>5. CASE Tool!Cancel \/ Tool!ChangeFile
  BY <1>5 DEF Tool!Cancel, Tool!ChangeFile, EffectInv
<1>6. CASE \/ Tool!ReadFile \/ Tool!ReadEnds \/ Tool!Traverse \/ Tool!ListEntry \/ Tool!GlobEnds
           \/ Tool!WalkScope \/ Tool!GrepFile \/ Tool!NextFile \/ Tool!ScanLine
           \/ Tool!FileScanned \/ Tool!GrepEnds
  <2>1. /\ pc # "returned" /\ effect' = effect
        /\ pc' \in {"returned", "read_end", "list", "next", "scan", "grep_end"}
    BY <1>6, Zenon DEF Tool!ReadFile, Tool!ReadEnds, Tool!Traverse, Tool!ListEntry, Tool!GlobEnds,
      Tool!WalkScope, Tool!GrepFile, Tool!NextFile, Tool!ScanLine, Tool!FileScanned, Tool!GrepEnds,
      Tool!OpenForScan, Tool!PassOver, Tool!RecordMatch, Tool!Return
  <2>2. QED  BY <2>1 DEF EffectInv
<1>7. CASE UNCHANGED Tool!vars
  BY <1>7 DEF Tool!vars, EffectInv
<1>8. QED
  BY <1>1, <1>2, <1>3, <1>4, <1>5, <1>6, <1>7 DEF Tool!Next

\* What the result of a search says follows from what it found.
LEMMA HonestReturn ==
  ASSUME ToolTypes, NEW v \in Seq(Places), found \in Seq(Places),
         Seen(searched) = found \o v, UNCHANGED <<call, searched, passed>>, NEW mark,
         \/ result' = Tool!Stop(found, TRUE)
         \/ /\ result' = Tool!Complete(found, mark)
            /\ ~mark => found = Held(searched)
            /\ mark => found # Held(searched) \/ Cut(searched) \/ Cut(passed)
  PROVE  Tool!SearchIsHonest'
<1>1. Tool!Visible' = Seen(searched) /\ Tool!AllMatches' = Held(searched)
  BY DEF Tool!Visible, Tool!AllMatches, Seen, Held
<1>2. Tool!IsPrefix(found, Seen(searched))
  <2>1. IsPrefix(found, found \o v)  BY PrefixOfConcat
  <2>2. QED  BY <2>1 DEF Tool!IsPrefix, IsPrefix
<1>3. CASE result' = Tool!Stop(found, TRUE)
  <2>1. result'.kind = "stopped" /\ result'.list = found /\ result'.truncated
    BY <1>3 DEF Tool!Stop, Tool!Outcome
  <2>2. QED  BY <1>1, <1>2, <2>1 DEF Tool!SearchIsHonest
<1>4. CASE /\ result' = Tool!Complete(found, mark)
           /\ ~mark => found = Held(searched)
           /\ mark => found # Held(searched) \/ Cut(searched) \/ Cut(passed)
  <2>1. result'.kind = "completed" /\ result'.list = found /\ result'.truncated = mark
    BY <1>4, ResultsTyped
  <2>2. QED  BY <1>1, <1>2, <1>4, <2>1 DEF Tool!SearchIsHonest, Tool!Altered, Cut
<1>5. QED  BY <1>3, <1>4, Zenon

\* A search that has not ended with a list says nothing yet.
LEMMA NoList ==
  ASSUME result'.kind \notin {"completed", "stopped"}
  PROVE  Tool!SearchIsHonest'
BY DEF Tool!SearchIsHonest

\* A scan found the first of the matches the search can see.
LEMMA ScanFound ==
  ASSUME Tool!WorkspaceToolsAssumption, ToolTypes, SearchInv, call.tool \in Searches,
         pc = "scan"
  PROVE  \E q \in Seq(Read), e \in Read, m \in Seq(Places), v \in Seq(Places) :
           /\ searched = Append(q, e) /\ text = Tool!Bounded(e.content) /\ text \in Seq(Lines)
           /\ m = Tool!MatchesOf(e.file, SubSeq(text, 1, line))
           /\ Seen(q) \in Seq(Places) /\ found = Seen(q) \o m
           /\ Seen(searched) = found \o v
           /\ line = Len(text) => found = Seen(searched)
<1>1. PICK q \in Seq(Read), e \in Read :
        /\ searched = Append(q, e) /\ text = Tool!Bounded(e.content)
        /\ found = Seen(q) \o Tool!MatchesOf(e.file, SubSeq(text, 1, line))
  BY DEF SearchInv
<1>2. e.file \in Tool!Files /\ e.content \in Seq(Lines)  BY DEF Read
<1>3. text \in Seq(Lines) /\ line \in 0 .. Len(text)
  BY <1>1, <1>2, BoundedTyped DEF ToolTypes
<1>4. PICK v \in Seq(Places) :
        Tool!MatchesOf(e.file, text) = Tool!MatchesOf(e.file, SubSeq(text, 1, line)) \o v
  BY <1>2, <1>3, MatchesBegin, Zenon
<1> DEFINE m == Tool!MatchesOf(e.file, SubSeq(text, 1, line))
<1>5. m \in Seq(Places)
  <2>1. SubSeq(text, 1, line) \in Seq(Lines) /\ "hit" \in Lines  BY <1>3 DEF Lines
  <2>2. QED  BY <1>2, <2>1, MatchesGrow
<1>6. Seen(q) \in Seq(Places) /\ Seen(searched) = Seen(q) \o Tool!MatchesOf(e.file, text)
  BY <1>1, SeenGrows, Zenon
<1> HIDE DEF m
<1>7. Seen(searched) = found \o v
  <2>1. Seen(searched) = Seen(q) \o (m \o v) /\ found = Seen(q) \o m  BY <1>1, <1>4, <1>6 DEF m
  <2>2. \A a, b, c \in Seq(Places) : (a \o b) \o c = a \o (b \o c)  BY ConcatAssociative
  <2>3. QED  BY <1>5, <1>6, <2>1, <2>2
<1>8. line = Len(text) => found = Seen(searched)
  <2>1. line = Len(text) => SubSeq(text, 1, line) = text  BY <1>3
  <2>2. QED  BY <1>1, <1>6, <2>1, Zenon
<1>9. QED  BY <1>1, <1>3, <1>5, <1>6, <1>7, <1>8, Zenon DEF m

\* A match in the line at hand is a match that found does not hold yet.
LEMMA MatchAhead ==
  ASSUME Tool!WorkspaceToolsAssumption, NEW q \in Seq(Read), NEW e \in Read,
         NEW t \in Seq(Lines), t = Tool!Bounded(e.content), NEW n \in Nat, n < Len(t),
         t[n + 1] = "hit"
  PROVE  LET m(k) == Tool!MatchesOf(e.file, SubSeq(t, 1, k))
         IN  /\ m(n + 1) = Append(m(n), <<e.file, n + 1>>) /\ m(n) \in Seq(Places)
             /\ <<e.file, n + 1>> \in Places
             /\ Seen(q) \o m(n) # Held(Append(q, e))
<1> DEFINE c == e.content
           m == Tool!MatchesOf(e.file, SubSeq(t, 1, n))
           s == Append(q, e)
<1>1. e.file \in Tool!Files /\ c \in Seq(Lines) /\ "hit" \in Lines  BY DEF Read, Lines
<1>2. /\ Len(t) <= Len(c) /\ Len(t) \in Nat /\ Len(c) \in Nat
      /\ SubSeq(t, 1, n + 1) = SubSeq(c, 1, n + 1) /\ n + 1 \in 0 .. Len(c)
  <2>1. /\ Len(t) <= Len(c) /\ \A k \in 0 .. Len(t) : SubSeq(t, 1, k) = SubSeq(c, 1, k)
    BY <1>1, BoundedTyped
  <2>2. Len(t) \in Nat /\ Len(c) \in Nat  BY <1>1
  <2>3. n + 1 \in 0 .. Len(t)  BY <2>2
  <2>4. n + 1 \in 0 .. Len(c)  BY <2>1, <2>2, <2>3
  <2>5. QED  BY <2>1, <2>2, <2>3, <2>4
<1>3. /\ SubSeq(t, 1, n) \in Seq(Lines) /\ Len(SubSeq(t, 1, n)) = n
      /\ SubSeq(t, 1, n + 1) = Append(SubSeq(t, 1, n), "hit")
  <2>1. /\ SubSeq(t, 1, n) \in Seq(Lines) /\ Len(SubSeq(t, 1, n)) = n
        /\ SubSeq(t, 1, n + 1) \in Seq(Lines) /\ Len(SubSeq(t, 1, n + 1)) = n + 1
        /\ \A i \in 1 .. n : SubSeq(t, 1, n + 1)[i] = SubSeq(t, 1, n)[i]
        /\ SubSeq(t, 1, n + 1)[n + 1] = "hit"
    BY <1>2
  <2> DEFINE a == SubSeq(t, 1, n)  b == SubSeq(t, 1, n + 1)
  <2>2. /\ a \in Seq(Lines) /\ b \in Seq(Lines) /\ Len(a) = n /\ Len(b) = Len(a) + 1
        /\ \A i \in 1 .. Len(a) : b[i] = a[i]
        /\ b[Len(a) + 1] = "hit"
    BY <2>1
  <2> HIDE DEF a, b
  <2>3. b = Append(a, "hit")  BY ONLY <1>1, <2>2, IsAppend
  <2>4. QED  BY <2>2, <2>3 DEF a, b
<1>4. m \in Seq(Places) /\ Tool!MatchesOf(e.file, SubSeq(t, 1, n + 1)) = Append(m, <<e.file, n + 1>>)
  BY <1>1, <1>3, MatchesGrow, Zenon
<1>5. <<e.file, n + 1>> \in Places  BY <1>1 DEF Places
<1>6. PICK w \in Seq(Places) : Tool!MatchesOf(e.file, c) = Append(m, <<e.file, n + 1>>) \o w
  <2>1. \E w \in Seq(Places) :
          Tool!MatchesOf(e.file, c) = Tool!MatchesOf(e.file, SubSeq(c, 1, n + 1)) \o w
    BY ONLY <1>1, <1>2, MatchesBegin
  <2>2. Tool!MatchesOf(e.file, SubSeq(c, 1, n + 1)) = Append(m, <<e.file, n + 1>>)
    BY <1>2, <1>4
  <2> HIDE DEF c, m
  <2>3. QED  BY <2>1, <2>2
<1>7. /\ Held(s) = Held(q) \o (Append(m, <<e.file, n + 1>>) \o w)
      /\ Held(q) \in Seq(Places) /\ Seen(q) \in Seq(Places)
  BY <1>6, SeenGrows, Zenon
<1>8. Len(Seen(q)) <= Len(Held(q)) /\ Len(Seen(q)) \in Nat /\ Len(Held(q)) \in Nat
  BY SeenOfHeld
<1> HIDE DEF m, s
<1>9. Seen(q) \o m # Held(s)
  <2>1. \A a, b \in Seq(Places) : a \o b \in Seq(Places) /\ Len(a \o b) = Len(a) + Len(b)
                                 /\ Len(a) \in Nat
    BY ConcatProperties, LenProperties
  <2>2. Append(m, <<e.file, n + 1>>) \in Seq(Places)
        /\ Len(Append(m, <<e.file, n + 1>>)) = Len(m) + 1
    BY <1>4, <1>5, AppendProperties
  <2>3. Len(Held(s)) = Len(Held(q)) + (Len(m) + 1 + Len(w))
    BY <1>7, <2>1, <2>2
  <2>4. Len(Seen(q) \o m) = Len(Seen(q)) + Len(m)  BY <1>4, <1>7, <2>1
  <2>5. Len(m) \in Nat /\ Len(w) \in Nat  BY <1>4, <2>1
  <2>6. Len(Seen(q) \o m) < Len(Held(s))  BY <1>8, <2>3, <2>4, <2>5
  <2>7. QED  BY <2>6, <1>8, <2>4, <2>5
<1>10. QED  BY <1>4, <1>5, <1>9 DEF m, s

\* A file is opened by a search that saw all of those before.
LEMMA ScanOpens ==
  ASSUME Tool!WorkspaceToolsAssumption, ToolTypes, call.tool \in Searches,
         NEW f \in Tool!Files, disk[f] # Tool!Missing, Tool!OpenForScan(f),
         found \in Seq(Places), found = Seen(searched), UNCHANGED <<call, found>>,
         truncated => Cut(searched) \/ Cut(passed), ~truncated => Uncut(searched), result.kind = "none"
  PROVE  SearchInv'
<1> DEFINE e == [file |-> f, content |-> disk[f]]
<1>1. disk[f] \in Seq(Lines)  BY DiskTyped
<1>2. e \in Read /\ e.content = disk[f] /\ e.file = f  BY <1>1 DEF Read
<1>3. /\ text' = Tool!Bounded(e.content) /\ line' = 0 /\ searched' = Append(searched, e)
      /\ pc' = "scan" /\ result' = result /\ passed' = passed
      /\ truncated' = (truncated \/ Tool!Dropped(e.content) \/ ~Tool!Utf8(text'))
  BY <1>2 DEF Tool!OpenForScan
<1> HIDE DEF e
<1>4. searched \in Seq(Read)  BY DEF ToolTypes
<1>5. /\ DOMAIN searched' = 1 .. Len(searched) + 1 /\ searched'[Len(searched) + 1] = e
      /\ DOMAIN searched = 1 .. Len(searched) /\ Len(searched) \in Nat
      /\ \A i \in 1 .. Len(searched) : searched'[i] = searched[i]
  BY <1>2, <1>3, <1>4
<1>6. ~Tool!Utf8(text') => ~Tool!Utf8(e.content)  BY <1>1, <1>2, <1>3, BoundedTyped
<1>7. truncated' => Cut(searched') \/ Cut(passed')
  <2>1. CASE truncated
    <3>1. Cut(searched) => Cut(searched')  BY <1>5 DEF Cut
    <3>2. QED  BY <1>3, <2>1, <3>1
  <2>2. CASE ~Tool!Utf8(e.content) \/ Tool!Dropped(e.content)
    BY <1>5, <2>2 DEF Cut
  <2>3. QED  BY <1>3, <1>6, <2>1, <2>2, Zenon
<1>8. ~truncated' => Uncut(searched')
  <2>1. SUFFICES ASSUME ~truncated', NEW i \in DOMAIN searched'
                 PROVE  ~Tool!Dropped(searched'[i].content)
    BY DEF Uncut
  <2>2. CASE i \in 1 .. Len(searched)
    BY <1>3, <1>5, <2>1, <2>2, Zenon DEF Uncut
  <2>3. CASE i = Len(searched) + 1
    BY <1>3, <1>5, <2>1, <2>3
  <2>4. QED  BY <1>5, <2>2, <2>3
<1>9. found' = Seen(searched) \o Tool!MatchesOf(e.file, SubSeq(text', 1, line'))
  <2>1. SubSeq(text', 1, 0) = <<>>
    <3>1. text' \in Seq(Lines)  BY <1>1, <1>2, <1>3, BoundedTyped
    <3>2. QED  BY <3>1
  <2>2. Tool!MatchesOf(e.file, <<>>) = <<>>
    <3>1. "hit" \in Lines  BY DEF Lines
    <3>2. <<>> \in Seq(Lines) /\ e.file \in Tool!Files  BY <1>2
    <3>3. QED  BY <3>1, <3>2, MatchesGrow, Zenon
  <2>3. found \o <<>> = found  BY ConcatEmptySeq
  <2>4. QED  BY <1>3, <2>1, <2>2, <2>3, Zenon
<1>10. Tool!SearchIsHonest'  BY <1>3, NoList
<1>11. /\ Cut(searched)' = Cut(searched') /\ Uncut(searched)' = Uncut(searched')
       /\ Cut(passed)' = Cut(passed')
  BY DEF Cut, Uncut
<1>12. \E q \in Seq(Read), r \in Read :
         /\ searched' = Append(q, r) /\ text' = Tool!Bounded(r.content)
         /\ found' = Seen(q) \o Tool!MatchesOf(r.file, SubSeq(text', 1, line'))
  BY <1>2, <1>3, <1>4, <1>9, Zenon
<1>13. QED  BY <1>3, <1>7, <1>8, <1>10, <1>12, Zenon DEF SearchInv

\* A file that is passed over is one that was read.
LEMMA PassedStep ==
  ASSUME Tool!WorkspaceToolsAssumption, ToolTypes, PassedInv, [Tool!Next]_(Tool!vars)
  PROVE  PassedInv'
<1>1. CASE UNCHANGED passed
  BY <1>1 DEF PassedInv
<1>2. CASE /\ Tool!NextFile /\ disk[Head(todo)] # Tool!Missing
           /\ passed' = Append(passed, [file |-> Head(todo), content |-> disk[Head(todo)]])
  <2>1. Head(todo) \in Tool!Files
    BY <1>2, HeadTailProperties DEF Tool!NextFile, ToolTypes
  <2>2. disk[Head(todo)] \in Seq(Lines)  BY <1>2, <2>1, DiskTyped
  <2>3. [file |-> Head(todo), content |-> disk[Head(todo)]] \in Read
    BY <2>1, <2>2 DEF Read
  <2>4. QED  BY <1>2, <2>3, AppendProperties DEF PassedInv
<1>3. QED
  BY <1>1, <1>2, Zenon DEF Tool!Next, Tool!vars, Tool!search, Tool!Cancel, Tool!ChangeFile,
    Tool!Dispatch, Tool!ReadFile, Tool!ReadEnds, Tool!CheckExpected, Tool!WriteFile,
    Tool!ReadTarget, Tool!ReplaceOnce, Tool!Traverse, Tool!ListEntry, Tool!GlobEnds,
    Tool!WalkScope, Tool!GrepFile, Tool!NextFile, Tool!ScanLine, Tool!FileScanned,
    Tool!GrepEnds, Tool!OpenForScan, Tool!PassOver

LEMMA SearchStep ==
  ASSUME Tool!WorkspaceToolsAssumption, ToolTypes, PassedInv, SearchInv, [Tool!Next]_(Tool!vars)
  PROVE  SearchInv'
<1> USE DEF Tool!search
<1>1. /\ call' = call
      /\ pc # "returned" => result.kind = "none"
  BY ResultsTyped, Zenon DEF Tool!Next, Tool!vars, Tool!Cancel, Tool!ChangeFile, Tool!Dispatch, Tool!ReadFile,
    Tool!ReadEnds, Tool!CheckExpected, Tool!WriteFile, Tool!ReadTarget, Tool!ReplaceOnce,
    Tool!Traverse, Tool!ListEntry, Tool!GlobEnds, Tool!WalkScope, Tool!GrepFile, Tool!NextFile,
    Tool!ScanLine, Tool!FileScanned, Tool!GrepEnds, ToolTypes
<1>2. SUFFICES ASSUME call.tool \in Searches PROVE SearchInv'
  BY <1>1, Zenon DEF SearchInv
<1>3. searched \in Seq(Read) /\ found \in Seq(Places)  BY <1>2 DEF ToolTypes, SearchInv
<1>4. CASE Tool!Cancel \/ Tool!ChangeFile \/ UNCHANGED Tool!vars
  <2>1. UNCHANGED <<call, pc, text, line, found, truncated, result, searched, passed>>
    BY <1>4 DEF Tool!Cancel, Tool!ChangeFile, Tool!vars
  <2>2. Tool!Visible' = Tool!Visible /\ Tool!AllMatches' = Tool!AllMatches
    BY <2>1 DEF Tool!Visible, Tool!AllMatches
  <2>3. Tool!SearchIsHonest' = Tool!SearchIsHonest
    BY <2>1, <2>2 DEF Tool!SearchIsHonest, Tool!Altered
  <2>4. Seen(searched)' = Seen(searched) /\ Held(searched)' = Held(searched)
        /\ Cut(searched)' = Cut(searched) /\ Uncut(searched)' = Uncut(searched)
        /\ Cut(passed)' = Cut(passed)
    BY <2>1 DEF Seen, Held, Cut, Uncut
  <2>5. QED  BY <2>1, <2>3, <2>4 DEF SearchInv
<1>5. CASE Tool!Dispatch
  <2>1. /\ pc = "dispatch" /\ UNCHANGED <<found, searched, truncated>>
        /\ searched = <<>> /\ found = <<>> /\ ~truncated
        /\ \/ pc' = "returned" /\ result' = Tool!Silent
           \/ pc' \in {"walk", "grep_file"} /\ result' = result
    BY <1>2, <1>5 DEF Tool!Dispatch, Tool!Return, Tool!FirstStep, SearchInv, Searches
  <2>2. Tool!SearchIsHonest'
    <3>1. CASE result' = Tool!Silent
      <4>1. Seen(<<>>) = <<>> /\ Held(<<>>) = <<>>
        <5>1. [file |-> 1, content |-> <<>>] \in Read /\ <<>> \in Seq(Read)  BY DEF Read, Tool!Files
        <5>2. QED  BY <5>1, SeenGrows, Zenon
      <4>2. Tool!Visible' = <<>> /\ Tool!AllMatches' = <<>>
        BY <2>1, <4>1 DEF Tool!Visible, Tool!AllMatches, Seen, Held
      <4>3. Tool!IsPrefix(<<>>, <<>>)  BY DEF Tool!IsPrefix
      <4>4. QED  BY <3>1, <4>2, <4>3, ResultsTyped DEF Tool!SearchIsHonest
    <3>2. QED  BY <1>1, <2>1, <3>1, NoList
  <2>3. QED  BY <2>1, <2>2, <1>3 DEF SearchInv
<1>6. CASE Tool!WalkScope
  <2>1. /\ pc = "walk" /\ UNCHANGED <<found, searched, passed, truncated>>
        /\ searched = <<>> /\ found = <<>> /\ ~truncated
        /\ \/ pc' = "returned" /\ result' = Tool!Stop(found, TRUE)
           \/ pc' = "returned" /\ result' = Tool!Error("tool_search_failed")
           \/ pc' = "next" /\ result' = result
    BY <1>2, <1>6 DEF Tool!WalkScope, Tool!Return, SearchInv
  <2>2. Seen(<<>>) = <<>> /\ Seen(searched) = found \o <<>> /\ <<>> \in Seq(Places)
    <3>1. [file |-> 1, content |-> <<>>] \in Read /\ <<>> \in Seq(Read)  BY DEF Read, Tool!Files
    <3>2. Seen(<<>>) = <<>>  BY <3>1, SeenGrows
    <3>3. QED  BY <2>1, <3>2
  <2>3. Tool!SearchIsHonest'
    <3>1. CASE result' = Tool!Stop(found, TRUE)
      BY <1>1, <1>3, <2>1, <2>2, <3>1, HonestReturn, Zenon
    <3>2. CASE result' = Tool!Error("tool_search_failed")
      <4>1. result'.kind = "error"  BY <3>2, ResultsTyped
      <4>2. QED  BY <4>1, NoList
    <3>3. QED  BY <1>1, <2>1, <3>1, <3>2, NoList, Zenon
  <2>4. Uncut(searched')  BY <2>1 DEF Uncut
  <2>5. Uncut(searched)' = Uncut(searched') /\ Seen(searched)' = Seen(searched')
    BY DEF Uncut, Seen
  <2>6. QED  BY <1>3, <2>1, <2>2, <2>3, <2>4, <2>5, Zenon DEF SearchInv
<1>7. CASE Tool!GrepFile
  <2>1. /\ pc = "grep_file" /\ searched = <<>> /\ found = <<>> /\ ~truncated
        /\ UNCHANGED <<call, found>> /\ call.path \in Tool!Files
    BY <1>2, <1>7, StepsTyped, CallsTyped DEF Tool!GrepFile, ToolTypes, SearchInv
  <2>2. CASE disk[call.path] = Tool!Missing
    <3>1. pc' = "returned" /\ result' = Tool!Error("tool_search_failed")
      BY <1>7, <2>2 DEF Tool!GrepFile, Tool!Return
    <3>2. Tool!SearchIsHonest'
      <4>1. result'.kind = "error"  BY <3>1, ResultsTyped
      <4>2. QED  BY <4>1, NoList
    <3>3. QED  BY <1>3, <2>1, <3>1, <3>2 DEF SearchInv
  <2>3. CASE disk[call.path] # Tool!Missing
    <3>1. Tool!OpenForScan(call.path)  BY <1>7, <2>3 DEF Tool!GrepFile
    <3>2. found = Seen(searched) /\ Uncut(searched)
      <4>1. [file |-> 1, content |-> <<>>] \in Read /\ <<>> \in Seq(Read)  BY DEF Read, Tool!Files
      <4>2. Seen(<<>>) = <<>>  BY <4>1, SeenGrows
      <4>3. QED  BY <2>1, <4>2 DEF Uncut
    <3>3. QED  BY <1>1, <1>2, <1>3, <2>1, <2>3, <3>1, <3>2, ScanOpens
  <2>4. QED  BY <2>2, <2>3
<1>8. CASE Tool!NextFile
  <2>1. /\ pc = "next" /\ found = Seen(searched) /\ UNCHANGED <<call, found>>
        /\ truncated => Cut(searched) \/ Cut(passed)
        /\ ~truncated => Uncut(searched)
        /\ Head(todo) \in Tool!Files
    BY <1>2, <1>8, HeadTailProperties DEF Tool!NextFile, ToolTypes, SearchInv
  <2>2. CASE /\ Tool!Return(IF cancelled THEN Tool!Stop(found, TRUE)
                            ELSE Tool!Error("tool_search_failed"))
             /\ UNCHANGED <<text, line, truncated, searched, passed>>
    <3>1. /\ pc' = "returned" /\ UNCHANGED <<searched, passed, truncated>>
          /\ \/ result' = Tool!Stop(found, TRUE)
             \/ result' = Tool!Error("tool_search_failed")
      BY <2>2 DEF Tool!Return
    <3>2. Seen(searched) = found \o <<>> /\ <<>> \in Seq(Places)
      BY <1>3, <2>1, ConcatEmptySeq
    <3>3. Tool!SearchIsHonest'
      <4>1. Tool!Error("tool_search_failed").kind = "error"  BY ResultsTyped
      <4>2. QED  BY <1>3, <2>1, <3>1, <3>2, <4>1, HonestReturn, NoList, Zenon
    <3>4. QED  BY <1>3, <2>1, <3>1, <3>3 DEF SearchInv
  <2>3. CASE disk[Head(todo)] # Tool!Missing /\ Tool!OpenForScan(Head(todo))
    BY <1>1, <1>2, <1>3, <2>1, <2>3, ScanOpens
  <2>4. CASE disk[Head(todo)] # Tool!Missing /\ Tool!PassOver(Head(todo))
    <3> DEFINE c == disk[Head(todo)]
               e == [file |-> Head(todo), content |-> c]
    <3>1. /\ UNCHANGED <<searched, pc, result>> /\ passed' = Append(passed, e)
          /\ truncated' = (truncated \/ Tool!Dropped(c) \/ ~Tool!Utf8(Tool!Bounded(c)))
      BY <2>4 DEF Tool!PassOver
    <3>2. c \in Seq(Lines) /\ passed \in Seq(Read)
      BY <2>1, <2>4, DiskTyped DEF PassedInv
    <3>3. e \in Read /\ e.content = c  BY <2>1, <3>2 DEF Read
    <3>4. ~Tool!Utf8(Tool!Bounded(c)) => ~Tool!Utf8(c)  BY <3>2, BoundedTyped
    <3> HIDE DEF c, e
    <3>5. /\ DOMAIN passed' = 1 .. Len(passed) + 1 /\ passed'[Len(passed) + 1] = e
          /\ DOMAIN passed = 1 .. Len(passed) /\ Len(passed) \in Nat
          /\ \A i \in 1 .. Len(passed) : passed'[i] = passed[i]
      BY <3>1, <3>2, <3>3
    <3>6. Cut(passed) => Cut(passed')  BY <3>5 DEF Cut
    <3>7. ~Tool!Utf8(c) \/ Tool!Dropped(c) => Cut(passed')
      <4>1. SUFFICES ASSUME ~Tool!Utf8(c) \/ Tool!Dropped(c) PROVE Cut(passed')  OBVIOUS
      <4>2. Len(passed) + 1 \in DOMAIN passed' /\ passed'[Len(passed) + 1].content = c
        BY <3>3, <3>5
      <4>3. QED  BY <4>1, <4>2, Zenon DEF Cut
    <3>8. truncated' => Cut(searched') \/ Cut(passed')
      BY <2>1, <3>1, <3>4, <3>6, <3>7, Zenon
    <3>9. /\ Cut(searched)' = Cut(searched') /\ Uncut(searched)' = Uncut(searched')
          /\ Cut(passed)' = Cut(passed') /\ Seen(searched)' = Seen(searched')
      BY DEF Cut, Uncut, Seen
    <3>10. ~truncated' => Uncut(searched')  BY <2>1, <3>1, Zenon
    <3>11. Tool!SearchIsHonest'  BY <1>1, <2>1, <3>1, NoList
    <3>12. QED  BY <1>3, <2>1, <3>1, <3>8, <3>9, <3>10, <3>11, Zenon DEF SearchInv
  <2>5. QED  BY <1>8, <2>2, <2>3, <2>4, Zenon DEF Tool!NextFile
<1>9. CASE Tool!ScanLine
  <2>1. PICK q \in Seq(Read), e \in Read, m \in Seq(Places), v \in Seq(Places) :
          /\ searched = Append(q, e) /\ text = Tool!Bounded(e.content) /\ text \in Seq(Lines)
          /\ m = Tool!MatchesOf(e.file, SubSeq(text, 1, line))
          /\ Seen(q) \in Seq(Places) /\ found = Seen(q) \o m
          /\ Seen(searched) = found \o v
    BY <1>2, <1>9, ScanFound DEF Tool!ScanLine
  <2>2. /\ pc = "scan" /\ line' = line + 1 /\ UNCHANGED <<call, text, searched, passed>>
        /\ line \in Nat /\ line < Len(text)
        /\ truncated => Cut(searched) \/ Cut(passed)
        /\ ~truncated => Uncut(searched)
    BY <1>2, <1>9 DEF Tool!ScanLine, ToolTypes, SearchInv
  <2>3. Cut(searched)' = Cut(searched) /\ Uncut(searched)' = Uncut(searched)
        /\ Cut(passed)' = Cut(passed)
        /\ Seen(searched)' = Seen(searched) /\ Held(searched)' = Held(searched)
    BY <2>2 DEF Cut, Uncut, Seen, Held
  <2>4. CASE cancelled
    <3>1. pc' = "returned" /\ result' = Tool!Stop(found, TRUE) /\ UNCHANGED <<found, truncated>>
      BY <1>9, <2>4 DEF Tool!ScanLine, Tool!Return
    <3>2. Tool!SearchIsHonest'  BY <1>3, <2>1, <2>2, <3>1, HonestReturn
    <3>3. QED  BY <1>3, <2>2, <3>1, <3>2 DEF SearchInv
  <2>5. CASE ~cancelled /\ text[line + 1] # "hit"
    <3>1. UNCHANGED <<found, truncated, result, pc>>  BY <1>9, <2>5 DEF Tool!ScanLine
    <3>2. Tool!MatchesOf(e.file, SubSeq(text, 1, line + 1)) = m
      <4>1. SubSeq(text, 1, line + 1) = Append(SubSeq(text, 1, line), text[line + 1])
            /\ SubSeq(text, 1, line) \in Seq(Lines) /\ text[line + 1] \in Lines
        <5>1. text \in Seq(Lines) /\ line \in Nat /\ line < Len(text)  BY <2>1, <2>2
        <5>2. QED  BY <5>1, NextPrefix
      <4>2. e.file \in Tool!Files  BY DEF Read
      <4>3. ASSUME NEW s \in Seq(Lines), NEW l \in Lines, l # "hit"
            PROVE  Tool!MatchesOf(e.file, Append(s, l)) = Tool!MatchesOf(e.file, s)
        BY <4>2, <4>3, MatchesGrow
      <4>4. Tool!MatchesOf(e.file, Append(SubSeq(text, 1, line), text[line + 1]))
              = Tool!MatchesOf(e.file, SubSeq(text, 1, line))
        BY <2>5, <4>1, <4>3
      <4>5. QED  BY <2>1, <4>1, <4>4
    <3>3. Tool!SearchIsHonest'  BY <1>1, <2>2, <3>1, NoList
    <3>4. \E p \in Seq(Read), r \in Read :
            /\ searched' = Append(p, r) /\ text' = Tool!Bounded(r.content)
            /\ found' = Seen(p) \o Tool!MatchesOf(r.file, SubSeq(text', 1, line'))
      BY <2>1, <2>2, <3>1, <3>2
    <3>5. QED  BY <1>3, <2>2, <2>3, <3>1, <3>3, <3>4, Zenon DEF SearchInv
  <2>6. CASE ~cancelled /\ text[line + 1] = "hit"
    <3>1. /\ Tool!MatchesOf(e.file, SubSeq(text, 1, line + 1)) = Append(m, <<e.file, line + 1>>)
          /\ <<e.file, line + 1>> \in Places /\ found # Held(searched)
      BY <2>1, <2>2, <2>6, MatchAhead
    <3>2. Tool!RecordMatch  BY <1>9, <2>6 DEF Tool!ScanLine
    <3>3. CASE Len(found) < MatchWindow
      <4>1. Tool!Match = <<e.file, line + 1>>
        <5>1. Tool!Last(searched) = e  BY <2>1 DEF Tool!Last
        <5>2. QED  BY <5>1 DEF Tool!Match
      <4>2. found' = Append(found, <<e.file, line + 1>>) /\ UNCHANGED <<truncated, result, pc>>
        BY <3>2, <3>3, <4>1 DEF Tool!RecordMatch
      <4>3. /\ found' = Seen(q) \o Append(m, <<e.file, line + 1>>)
            /\ found' \in Seq(Places)
        <5>1. found' \in Seq(Places)  BY <1>3, <3>1, <4>2, AppendProperties
        <5>2. QED  BY <2>1, <3>1, <4>2, <5>1, PlacesAppended, Zenon
      <4>4. Tool!SearchIsHonest'  BY <1>1, <2>2, <4>2, NoList
      <4>5. \E p \in Seq(Read), r \in Read :
              /\ searched' = Append(p, r) /\ text' = Tool!Bounded(r.content)
              /\ found' = Seen(p) \o Tool!MatchesOf(r.file, SubSeq(text', 1, line'))
        BY <2>1, <2>2, <3>1, <4>3, Zenon
      <4>6. QED  BY <2>2, <2>3, <4>2, <4>3, <4>4, <4>5, Zenon DEF SearchInv
    <3>4. CASE ~(Len(found) < MatchWindow)
      <4>1. /\ truncated' /\ found' = found
            /\ \/ pc' = "returned" /\ result' = Tool!Complete(found, TRUE)
               \/ pc' = "grep_end" /\ result' = result
        BY <3>2, <3>4, Zenon DEF Tool!RecordMatch, Tool!Return
      <4>2. Tool!SearchIsHonest'
        <5>1. CASE result' = Tool!Complete(found, TRUE)
          BY <1>3, <2>1, <2>2, <3>1, <5>1, HonestReturn, Zenon
        <5>2. QED  BY <1>1, <2>2, <4>1, <5>1, NoList, Zenon
      <4>3. QED  BY <1>3, <2>1, <2>2, <2>3, <3>1, <4>1, <4>2, Zenon DEF SearchInv
    <3>5. QED  BY <3>3, <3>4
  <2>7. QED  BY <2>4, <2>5, <2>6
<1>10. CASE Tool!FileScanned
  <2>1. /\ pc = "scan" /\ pc' \in {"next", "grep_end"} /\ found = Seen(searched)
        /\ UNCHANGED <<call, found, searched, passed, truncated, result>>
        /\ truncated => Cut(searched) \/ Cut(passed)
        /\ ~truncated => Uncut(searched)
    BY <1>2, <1>10, ScanFound, Zenon DEF Tool!FileScanned, SearchInv
  <2>2. Cut(searched)' = Cut(searched) /\ Uncut(searched)' = Uncut(searched)
        /\ Cut(passed)' = Cut(passed)
        /\ Seen(searched)' = Seen(searched) /\ Held(searched)' = Held(searched)
    BY <2>1 DEF Cut, Uncut, Seen, Held
  <2>3. Seen(searched) = found \o <<>> /\ <<>> \in Seq(Places)  BY <1>3, <2>1, ConcatEmptySeq
  <2>4. Uncut(searched) => Seen(searched) = Held(searched)  BY <1>3, SeenOfHeld
  <2>5. Tool!SearchIsHonest'  BY <1>1, <2>1, NoList
  <2>6. QED  BY <1>3, <2>1, <2>2, <2>3, <2>4, <2>5, Zenon DEF SearchInv
<1>11. CASE Tool!GrepEnds
  <2>1. /\ pc' = "returned" /\ UNCHANGED <<call, found, searched, passed, truncated>>
        /\ result' = Tool!Stop(found, TRUE) \/ result' = Tool!Complete(found, truncated)
    BY <1>11 DEF Tool!GrepEnds, Tool!Return
  <2>2. /\ \E v \in Seq(Places) : Seen(searched) = found \o v
        /\ ~truncated => found = Held(searched)
        /\ truncated => found # Held(searched) \/ Cut(searched) \/ Cut(passed)
    <3>1. CASE pc = "grep_end"
      BY <1>2, <3>1 DEF SearchInv
    <3>2. CASE pc = "next"
      <4>1. found = Seen(searched) /\ (truncated => Cut(searched) \/ Cut(passed))
            /\ (~truncated => Uncut(searched))
        BY <1>2, <3>2 DEF SearchInv
      <4>2. Seen(searched) = found \o <<>> /\ <<>> \in Seq(Places)
        BY <1>3, <4>1, ConcatEmptySeq
      <4>3. ~truncated => found = Held(searched)  BY <1>3, <4>1, SeenOfHeld
      <4>4. QED  BY <4>1, <4>2, <4>3, Zenon
    <3>3. QED  BY <1>11, <3>1, <3>2 DEF Tool!GrepEnds
  <2>3. Tool!SearchIsHonest'  BY <1>3, <2>1, <2>2, HonestReturn
  <2>4. QED  BY <1>3, <2>1, <2>3 DEF SearchInv
<1>12. CASE \/ Tool!ReadFile \/ Tool!ReadEnds \/ Tool!CheckExpected \/ Tool!WriteFile \/ Tool!ReadTarget
            \/ Tool!ReplaceOnce \/ Tool!Traverse \/ Tool!ListEntry \/ Tool!GlobEnds
  <2>1. call.tool \notin Searches
    BY <1>12, StepsTyped, Zenon DEF Tool!ReadFile, Tool!ReadEnds, Tool!CheckExpected, Tool!WriteFile,
      Tool!ReadTarget, Tool!ReplaceOnce, Tool!Traverse, Tool!ListEntry, Tool!GlobEnds, ToolTypes,
      Searches
  <2>2. QED  BY <1>2, <2>1
<1>13. QED
  BY <1>4, <1>5, <1>6, <1>7, <1>8, <1>9, <1>10, <1>11, <1>12 DEF Tool!Next

LEMMA ToolStep ==
  ASSUME Tool!WorkspaceToolsAssumption, ToolInv, [Tool!Next]_(Tool!vars)
  PROVE  ToolInv'
<1>1. pc = "scan" => searched # <<>>
  <2>1. SUFFICES ASSUME pc = "scan" PROVE searched # <<>>  OBVIOUS
  <2>2. call.tool \in Searches  BY <2>1, StepsTyped DEF ToolInv, ToolTypes
  <2>3. PICK q \in Seq(Read), e \in Read : searched = Append(q, e)
    BY <2>1, <2>2 DEF ToolInv, SearchInv
  <2>4. QED  BY <2>3
<1>2. QED  BY <1>1, ToolTypesStep, PassedStep, EffectStep, SearchStep DEF ToolInv

LEMMA ToolsHonest ==
  ASSUME ToolInv
  PROVE  Tool!TypeOK /\ Tool!SearchIsHonest /\ Tool!RefusedCallsChangeNothing
<1>1. line <= Len(text) + 1
  <2>1. line \in Nat /\ Len(text) \in Nat /\ line <= Len(text)  BY DEF ToolInv, ToolTypes
  <2>2. QED  BY <2>1
<1>2. Tool!TypeOK  BY <1>1 DEF ToolInv, ToolTypes, SearchInv, Searches, Tool!TypeOK, Places
<1>3. Tool!SearchIsHonest
  BY DEF ToolInv, SearchInv, Tool!SearchIsHonest, Searches
<1>4. Tool!RefusedCallsChangeNothing
  BY DEF ToolInv, EffectInv, Tool!RefusedCallsChangeNothing
<1>5. QED  BY <1>2, <1>3, <1>4
-----------------------------------------------------------------------------
(* The terminal holds the stream it believes in.                           *)

\* Terminal
runs == x1
started == x2
effects == x3
actions == x4
live == x5
wire == x6
session == x7
view == x8
stream == x9
asked == x10
typed == x11
arm == x12
escape == x13
mistaken == x14
quit == x15
inputs == x16
USE DEF runs, started, effects, actions, live, wire, session, view, stream, asked, typed, arm,
        escape, mistaken, quit, inputs

\* What travels between the loop and the client task.
Anyone == Sessions \cup {NoSession}
Status == [live : BOOLEAN, run : Nat]
Orders == {"connect", "open", "create", "turn", "cancel", "subscribe"}
Asked == [session : Anyone, run : Nat, kind : Orders]
Answers == {"bootstrapped", "bootstrap_failed", "snapshot", "failed", "created", "accepted",
            "answered", "opened", "lost", "frame"}
Told == [session : Anyone, run : Status, kind : Answers]

\* A loss waits; every opening that waits is followed by a loss.
Lost(list) == \E i \in DOMAIN list : list[i].kind = "lost"
Ended(list) ==
  \A i \in DOMAIN list : list[i].kind = "opened" =>
    \E j \in DOMAIN list : j > i /\ list[j].kind = "lost"

TermTypes ==
  /\ runs \in [Sessions -> Status] /\ started \in Nat
  /\ effects \in Seq(Asked) /\ actions \in Seq(Told) /\ wire \in Seq(Told)
  /\ live \in Anyone /\ session \in Anyone
  /\ view \in [session : Anyone, run : Status]
  /\ stream \in {"inactive", "live", "lost"} /\ asked \in {0, 1}
  /\ arm \in [on : {"none", "stop", "exit"}, run : Nat]

\* A turn and a subscription are of a session.
Named(list) ==
  \A i \in DOMAIN list : list[i].kind \in {"subscribe", "turn"} => list[i].session # NoSession

TermInv ==
  /\ TermTypes /\ Named(effects)
  /\ live = NoSession => Ended(actions) /\ (stream = "live" => Lost(actions))

LEMMA ToldNext ==
  ASSUME NEW list \in Seq(Told), NEW a \in Told
  PROVE  /\ Append(list, a) \in Seq(Told)
         /\ a.kind = "lost" => Ended(Append(list, a)) /\ Lost(Append(list, a))
         /\ a.kind # "opened" /\ Ended(list) => Ended(Append(list, a))
         /\ Lost(list) => Lost(Append(list, a))
<1> DEFINE m == Append(list, a)
           n == Len(list)
<1>1. /\ m \in Seq(Told) /\ n \in Nat /\ DOMAIN m = 1 .. n + 1 /\ DOMAIN list = 1 .. n
      /\ m[n + 1] = a /\ \A i \in 1 .. n : m[i] = list[i]
  OBVIOUS
<1> HIDE DEF m, n
<1>2. ASSUME a.kind = "lost" PROVE Ended(m) /\ Lost(m)
  BY <1>1, <1>2 DEF Ended, Lost
<1>3. ASSUME a.kind # "opened", Ended(list) PROVE Ended(m)
  BY <1>1, <1>3 DEF Ended
<1>4. ASSUME Lost(list) PROVE Lost(m)
  BY <1>1, <1>4 DEF Lost
<1>5. QED  BY <1>1, <1>2, <1>3, <1>4 DEF m

LEMMA ToldRest ==
  ASSUME NEW list \in Seq(Told), list # <<>>, Ended(list)
  PROVE  /\ Ended(Tail(list))
         /\ Head(list).kind = "opened" => Lost(Tail(list))
         /\ Head(list).kind # "lost" /\ Lost(list) => Lost(Tail(list))
<1> DEFINE m == Tail(list)
           n == Len(list)
<1>1. /\ m \in Seq(Told) /\ n \in Nat \ {0} /\ DOMAIN m = 1 .. n - 1 /\ DOMAIN list = 1 .. n
      /\ Head(list) = list[1] /\ \A i \in 1 .. n - 1 : m[i] = list[i + 1]
  OBVIOUS
<1> HIDE DEF m, n
<1>2. ASSUME NEW j \in 1 .. n, j > 1, list[j].kind = "lost"
      PROVE  j - 1 \in DOMAIN m /\ m[j - 1].kind = "lost"
  <2>1. j - 1 \in 1 .. n - 1 /\ (j - 1) + 1 = j  BY <1>1, <1>2
  <2>2. QED  BY <1>1, <1>2, <2>1
<1>3. Ended(m)
  <2>1. SUFFICES ASSUME NEW i \in DOMAIN m, m[i].kind = "opened"
                 PROVE  \E j \in DOMAIN m : j > i /\ m[j].kind = "lost"
    BY DEF Ended
  <2>2. i + 1 \in 1 .. n /\ list[i + 1].kind = "opened" /\ i \in Nat  BY <1>1, <2>1
  <2>3. PICK j \in 1 .. n : j > i + 1 /\ list[j].kind = "lost"
    BY <1>1, <2>2 DEF Ended
  <2>4. j > 1 /\ j - 1 > i  BY <2>2, <2>3
  <2>5. QED  BY <1>2, <2>3, <2>4
<1>4. ASSUME Head(list).kind = "opened" PROVE Lost(m)
  <2>1. PICK j \in 1 .. n : j > 1 /\ list[j].kind = "lost"
    BY <1>1, <1>4 DEF Ended
  <2>2. QED  BY <1>2, <2>1 DEF Lost
<1>5. ASSUME Head(list).kind # "lost", Lost(list) PROVE Lost(m)
  <2>1. PICK j \in 1 .. n : list[j].kind = "lost"  BY <1>1, <1>5 DEF Lost
  <2>2. j > 1  BY <1>1, <1>5, <2>1
  <2>3. QED  BY <1>2, <2>1, <2>2 DEF Lost
<1>6. QED  BY <1>3, <1>4, <1>5 DEF m

\* The queue of effects.
LEMMA NamedRest ==
  ASSUME NEW list \in Seq(Asked), list # <<>>, Named(list)
  PROVE  /\ Named(Tail(list)) /\ Tail(list) \in Seq(Asked) /\ Head(list) \in Asked
         /\ Head(list).kind \in {"subscribe", "turn"} => Head(list).session \in Sessions
<1>1. /\ Tail(list) \in Seq(Asked) /\ Len(list) \in Nat \ {0} /\ DOMAIN list = 1 .. Len(list)
      /\ DOMAIN Tail(list) = 1 .. Len(list) - 1
      /\ \A i \in 1 .. Len(list) - 1 : Tail(list)[i] = list[i + 1] /\ i + 1 \in 1 .. Len(list)
      /\ Head(list) = list[1] /\ list[1] \in Asked /\ 1 \in 1 .. Len(list)
  OBVIOUS
<1>2. Named(Tail(list))  BY <1>1 DEF Named
<1>3. Head(list).kind \in {"subscribe", "turn"} => Head(list).session # NoSession
  BY <1>1 DEF Named
<1>4. Head(list).session \in Anyone  BY <1>1 DEF Asked
<1>5. QED  BY <1>1, <1>2, <1>3, <1>4 DEF Anyone

LEMMA NamedNext ==
  ASSUME NEW list \in Seq(Asked), Named(list), NEW e \in Asked,
         e.kind \in {"subscribe", "turn"} => e.session # NoSession
  PROVE  list \o <<e>> \in Seq(Asked) /\ Named(list \o <<e>>)
<1> DEFINE m == list \o <<e>>
           n == Len(list)
<1>1. /\ m \in Seq(Asked) /\ n \in Nat /\ DOMAIN m = 1 .. n + 1 /\ DOMAIN list = 1 .. n
      /\ m[n + 1] = e /\ \A i \in 1 .. n : m[i] = list[i]
  <2>1. <<e>> \in Seq(Asked) /\ Len(<<e>>) = 1 /\ <<e>>[1] = e  OBVIOUS
  <2>2. QED  BY <2>1, ConcatProperties
<1> HIDE DEF m, n
<1>2. Named(m)
  <2>1. SUFFICES ASSUME NEW i \in 1 .. n + 1
                 PROVE  m[i].kind \in {"subscribe", "turn"} => m[i].session # NoSession
    BY <1>1 DEF Named
  <2>2. CASE i = n + 1  BY <1>1, <2>2
  <2>3. CASE i \in 1 .. n  BY <1>1, <2>3 DEF Named
  <2>4. QED  BY <1>1, <2>2, <2>3
<1>3. QED  BY <1>1, <1>2 DEF m

LEMMA TermValues ==
  ASSUME Term!TerminalAssumption
  PROVE  /\ Term!NoRun \in Status /\ NoSession \in Anyone /\ NoSession \notin Sessions
         /\ \A kind \in Answers, s \in Anyone, run \in Status :
              Term!Action(kind, s, run) \in Told /\ Term!Action(kind, s, run).kind = kind
         /\ \A kind \in Orders, s \in Anyone :
              /\ Term!Effect(kind, s) \in Asked /\ Term!Effect(kind, s).kind = kind
              /\ Term!Effect(kind, s).session = s
         /\ \A s \in Anyone, run \in Status : Term!View(s, run) \in [session : Anyone, run : Status]
<1>1. Term!NoRun \in Status  BY DEF Term!NoRun, Status
<1>2. NoSession \in Anyone /\ NoSession \notin Sessions  BY DEF Anyone, Term!TerminalAssumption
<1>3. \A kind \in Answers, s \in Anyone, run \in Status :
        Term!Action(kind, s, run) \in Told /\ Term!Action(kind, s, run).kind = kind
  BY DEF Term!Action, Told
<1>4. \A kind \in Orders, s \in Anyone :
        /\ Term!Effect(kind, s) \in Asked /\ Term!Effect(kind, s).kind = kind
        /\ Term!Effect(kind, s).session = s
  BY DEF Term!Effect, Asked
<1>5. \A s \in Anyone, run \in Status : Term!View(s, run) \in [session : Anyone, run : Status]
  BY DEF Term!View
<1>6. QED  BY <1>1, <1>2, <1>3, <1>4, <1>5

LEMMA TermInit == ASSUME Term!TerminalAssumption, Term!Init PROVE TermInv
<1>1. TermTypes
  <2>1. runs \in [Sessions -> Status] /\ started \in Nat
    BY TermValues DEF Term!Init
  <2>2. effects \in Seq(Asked) /\ actions \in Seq(Told) /\ wire \in Seq(Told)
    <3>1. "connect" \in Orders  BY DEF Orders
    <3>2. Term!Effect("connect", NoSession) \in Asked  BY <3>1, TermValues
    <3>3. QED  BY <3>2 DEF Term!Init
  <2>3. view \in [session : Anyone, run : Status] /\ live \in Anyone /\ session \in Anyone
    BY TermValues DEF Term!Init, Term!NoView
  <2>4. QED  BY <2>1, <2>2, <2>3 DEF Term!Init, Term!Disarmed, TermTypes
<1>2. Named(effects)
  BY DEF Term!Init, Term!Effect, Named
<1>3. Ended(actions) /\ stream # "live"  BY DEF Term!Init, Ended
<1>4. QED  BY <1>1, <1>2, <1>3 DEF TermInv

\* What a run of a session, started or ended, does to the daemon's side.
LEMMA DaemonTypes ==
  ASSUME Term!TerminalAssumption, TermTypes, NEW s \in Sessions
  PROVE  /\ Term!ActiveRun(s) \in Status
         /\ Term!Opens(s) => /\ runs' \in [Sessions -> Status] /\ started' \in Nat
                             /\ wire' \in Seq(Told)
         /\ \A run \in Status : Term!Publish(s, run) => wire' \in Seq(Told)
         /\ runs[s] \in Status
         /\ [runs EXCEPT ![s].live = FALSE] \in [Sessions -> Status]
<1>1. runs[s] \in Status  BY DEF TermTypes
<1>2. Term!ActiveRun(s) \in Status  BY <1>1, TermValues DEF Term!ActiveRun
<1>3. ASSUME NEW run \in Status, Term!Publish(s, run) PROVE wire' \in Seq(Told)
  <2>1. s \in Anyone  BY DEF Anyone
  <2>2. Term!Action("frame", s, run) \in Told
    <3>1. "frame" \in Answers  BY DEF Answers
    <3>2. QED  BY <1>3, <2>1, <3>1, TermValues
  <2>3. wire \in Seq(Told)  BY DEF TermTypes
  <2>4. QED  BY <1>3, <2>2, <2>3 DEF Term!Publish
<1>4. ASSUME Term!Opens(s)
      PROVE  runs' \in [Sessions -> Status] /\ started' \in Nat /\ wire' \in Seq(Told)
  <2>1. [live |-> TRUE, run |-> started + 1] \in Status /\ started + 1 \in Nat
    BY DEF TermTypes, Status
  <2>2. QED  BY <1>3, <1>4, <2>1 DEF Term!Opens, TermTypes
<1>5. [runs EXCEPT ![s].live = FALSE] \in [Sessions -> Status]
  BY <1>1 DEF TermTypes, Status
<1>6. QED  BY <1>1, <1>2, <1>3, <1>4, <1>5

\* A report of the client task while no subscription is held.
LEMMA Reporting ==
  ASSUME Term!TerminalAssumption, TermInv, NEW a \in Told, Term!Report(a),
         \/ live' = live /\ (live # NoSession \/ a.kind # "opened")
         \/ live' \in Sessions
         \/ a.kind = "lost",
         stream' = stream
  PROVE  /\ actions' \in Seq(Told)
         /\ live' = NoSession => Ended(actions') /\ (stream' = "live" => Lost(actions'))
<1>1. actions \in Seq(Told) /\ actions' = Append(actions, a)
  BY DEF TermInv, TermTypes, Term!Report
<1>2. NoSession \notin Sessions  BY TermValues
<1>3. CASE live' = live /\ (live # NoSession \/ a.kind # "opened")
  BY <1>1, <1>3, ToldNext DEF TermInv
<1>4. CASE live' \in Sessions  BY <1>1, <1>2, <1>4, ToldNext
<1>5. CASE a.kind = "lost"  BY <1>1, <1>5, ToldNext
<1>6. QED  BY <1>3, <1>4, <1>5

\* The loop takes a report that neither opens a stream nor says it is lost, or
\* takes its stream's status to be another one than live.
LEMMA Taking ==
  ASSUME TermInv, actions # <<>>, actions' = Tail(actions), live' = live,
         \/ stream' = stream /\ Head(actions).kind # "lost"
         \/ stream' # "live"
         \/ Head(actions).kind = "opened"
  PROVE  /\ actions' \in Seq(Told) /\ Head(actions) \in Told
         /\ live' = NoSession => Ended(actions') /\ (stream' = "live" => Lost(actions'))
<1>1. actions \in Seq(Told)  BY DEF TermInv, TermTypes
<1>2. actions' \in Seq(Told) /\ Head(actions) \in Told  BY <1>1
<1>3. ASSUME live = NoSession PROVE Ended(actions') /\ (stream' = "live" => Lost(actions'))
  BY <1>1, <1>3, ToldRest DEF TermInv
<1>4. QED  BY <1>2, <1>3

\* The client task took the first effect.
LEMMA Working ==
  ASSUME TermInv, NEW kind, Term!Taken(kind)
  PROVE  /\ effects' \in Seq(Asked) /\ Named(effects') /\ Term!Next1 \in Asked
         /\ Term!Next1.kind = kind /\ Term!Next1.session \in Anyone
         /\ kind \in {"subscribe", "turn"} => Term!Next1.session \in Sessions
<1>1. effects \in Seq(Asked) /\ effects # <<>> /\ Named(effects) /\ effects' = Tail(effects)
      /\ Head(effects).kind = kind
  BY DEF TermInv, TermTypes, Term!Taken, Term!Next1
<1>2. QED  BY <1>1, NamedRest DEF Term!Next1, Asked

\* A request that has an answer leaves everything else alone.
LEMMA Requesting ==
  ASSUME Term!TerminalAssumption, TermInv, NEW kind, NEW a \in Told, NEW b \in Told,
         Term!Request(kind, a, b), a.kind # "opened", b.kind # "opened"
  PROVE  TermInv'
<1>1. effects' \in Seq(Asked) /\ Named(effects')  BY Working DEF Term!Request
<1>2. UNCHANGED <<runs, started, live, wire, session, view, stream, asked, arm>>
  BY DEF Term!Request, Term!daemon, Term!driver, Term!app, Term!line
<1>3. actions' \in Seq(Told) /\ (live' = NoSession => Ended(actions') /\ (stream' = "live" => Lost(actions')))
  BY <1>2, Reporting DEF Term!Request
<1>4. QED  BY <1>1, <1>2, <1>3 DEF TermInv, TermTypes

LEMMA ClientStep ==
  ASSUME Term!TerminalAssumption, TermInv, Term!ClientTask \/ Term!LoseSubscription
  PROVE  TermInv'
<1>1. CASE Term!Connect
  <2>1. /\ Term!Action("bootstrapped", NoSession, Term!NoRun) \in Told
        /\ Term!Action("bootstrapped", NoSession, Term!NoRun).kind = "bootstrapped"
        /\ Term!Action("bootstrap_failed", NoSession, Term!NoRun) \in Told
        /\ Term!Action("bootstrap_failed", NoSession, Term!NoRun).kind = "bootstrap_failed"
    BY TermValues DEF Answers
  <2>2. QED  BY <1>1, <2>1, Requesting DEF Term!Connect
<1>2. CASE Term!ReadSession
  <2>1. PICK s \in Sessions :
          Term!Request("open", Term!Action("snapshot", s, Term!ActiveRun(s)),
                       Term!Action("failed", s, Term!NoRun))
    BY <1>2 DEF Term!ReadSession
  <2>2. Term!ActiveRun(s) \in Status /\ s \in Anyone  BY DaemonTypes DEF TermInv, Anyone
  <2>3. /\ Term!Action("snapshot", s, Term!ActiveRun(s)) \in Told
        /\ Term!Action("snapshot", s, Term!ActiveRun(s)).kind = "snapshot"
        /\ Term!Action("failed", s, Term!NoRun) \in Told
        /\ Term!Action("failed", s, Term!NoRun).kind = "failed"
    BY <2>2, TermValues DEF Answers
  <2>4. QED  BY <2>1, <2>3, Requesting
<1>3. CASE Term!CreateSession
  <2>1. /\ Term!Taken("create") /\ UNCHANGED <<live, session, view, stream, asked, arm>>
        /\ \/ /\ \E s \in Sessions : Term!Opens(s) /\ Term!Report(Term!Action("created", s, Term!NoRun))
           \/ /\ UNCHANGED <<runs, started, wire>>
              /\ \E s \in Anyone, kind \in {"created", "failed"} :
                   Term!Report(Term!Action(kind, s, Term!NoRun))
    BY <1>3, TermValues DEF Term!CreateSession, Term!app, Term!line, Term!daemon, Anyone
  <2>2. effects' \in Seq(Asked) /\ Named(effects')  BY <2>1, Working
  <2>3. PICK s \in Anyone, kind \in {"created", "failed"} :
          Term!Report(Term!Action(kind, s, Term!NoRun))
    BY <2>1 DEF Anyone
  <2>4. Term!Action(kind, s, Term!NoRun) \in Told /\ Term!Action(kind, s, Term!NoRun).kind # "opened"
    BY TermValues DEF Answers
  <2>5. actions' \in Seq(Told) /\ (live' = NoSession => Ended(actions') /\ (stream' = "live" => Lost(actions')))
    BY <2>1, <2>3, <2>4, Reporting
  <2>6. runs' \in [Sessions -> Status] /\ started' \in Nat /\ wire' \in Seq(Told)
    BY <2>1, DaemonTypes DEF TermInv, TermTypes
  <2>7. QED  BY <2>1, <2>2, <2>5, <2>6 DEF TermInv, TermTypes
<1>4. CASE Term!SendTurn
  <2>1. Term!Next1.session \in Sessions /\ effects' \in Seq(Asked) /\ Named(effects')
    BY <1>4, Working DEF Term!SendTurn
  <2>2. /\ UNCHANGED <<live, session, view, stream, asked, arm>>
        /\ \/ Term!Opens(Term!Next1.session)
           \/ UNCHANGED <<runs, started, wire>>
        /\ \E s \in Anyone, kind \in {"accepted", "failed"} :
             Term!Report(Term!Action(kind, s, Term!NoRun))
    BY <1>4, <2>1, TermValues DEF Term!SendTurn, Term!app, Term!line, Term!daemon, Anyone
  <2>3. PICK s \in Anyone, kind \in {"accepted", "failed"} :
          Term!Report(Term!Action(kind, s, Term!NoRun))
    BY <2>2
  <2>4. Term!Action(kind, s, Term!NoRun) \in Told /\ Term!Action(kind, s, Term!NoRun).kind # "opened"
    BY TermValues DEF Answers
  <2>5. actions' \in Seq(Told) /\ (live' = NoSession => Ended(actions') /\ (stream' = "live" => Lost(actions')))
    BY <2>2, <2>3, <2>4, Reporting
  <2>6. runs' \in [Sessions -> Status] /\ started' \in Nat /\ wire' \in Seq(Told)
    BY <2>1, <2>2, DaemonTypes DEF TermInv, TermTypes
  <2>7. QED  BY <2>1, <2>2, <2>5, <2>6 DEF TermInv, TermTypes
<1>5. CASE Term!CancelRun
  <2>1. effects' \in Seq(Asked) /\ Named(effects') /\ Term!Next1.session \in Anyone
        /\ Term!Next1 \in Asked
    BY <1>5, Working DEF Term!CancelRun
  <2>2. /\ UNCHANGED <<started, live, session, view, stream, asked, arm>>
        /\ Term!Report(Term!Action("answered", Term!Next1.session, Term!NoRun))
    BY <1>5 DEF Term!CancelRun, Term!app, Term!line
  <2>3. /\ Term!Action("answered", Term!Next1.session, Term!NoRun) \in Told
        /\ Term!Action("answered", Term!Next1.session, Term!NoRun).kind # "opened"
    BY <2>1, TermValues DEF Answers
  <2>4. actions' \in Seq(Told) /\ (live' = NoSession => Ended(actions') /\ (stream' = "live" => Lost(actions')))
    BY <2>2, <2>3, Reporting
  <2>5. runs' \in [Sessions -> Status]
    <3>1. runs' = runs \/ runs' = [runs EXCEPT ![Term!Next1.session].live = FALSE]
      BY <1>5 DEF Term!CancelRun
    <3>2. runs \in [Sessions -> Status]  BY DEF TermInv, TermTypes
    <3>3. QED  BY <3>1, <3>2 DEF Status
  <2>6. wire' \in Seq(Told)
    <3>1. [live |-> FALSE, run |-> Term!Next1.run] \in Status  BY <2>1 DEF Asked, Status
    <3>2. Term!Action("frame", Term!Next1.session, [live |-> FALSE, run |-> Term!Next1.run]) \in Told
      BY <2>1, <3>1, TermValues DEF Answers
    <3>3. wire \in Seq(Told)  BY DEF TermInv, TermTypes
    <3>4. QED  BY <1>5, <3>2, <3>3 DEF Term!CancelRun, Term!Publish
  <2>7. QED  BY <2>1, <2>2, <2>4, <2>5, <2>6 DEF TermInv, TermTypes
<1>6. CASE Term!OpenSubscription
  <2>1. Term!Next1.session \in Sessions /\ effects' \in Seq(Asked) /\ Named(effects')
    BY <1>6, Working DEF Term!OpenSubscription
  <2>2. PICK s \in Sessions, kind \in {"opened", "lost"}, run \in Status :
          /\ Term!Report(Term!Action(kind, s, run))
          /\ IF kind = "opened" THEN live' = s ELSE live' = NoSession
    BY <1>6, <2>1, TermValues, DaemonTypes DEF Term!OpenSubscription, TermInv
  <2>3. UNCHANGED <<runs, started, session, view, stream, asked, arm>> /\ wire' = <<>>
    BY <1>6 DEF Term!OpenSubscription, Term!daemon, Term!app, Term!line
  <2>4. Term!Action(kind, s, run) \in Told /\ Term!Action(kind, s, run).kind = kind
        /\ live' \in Anyone
    BY <2>2, TermValues DEF Answers, Anyone
  <2>5. actions' \in Seq(Told) /\ (live' = NoSession => Ended(actions') /\ (stream' = "live" => Lost(actions')))
    BY <2>2, <2>3, <2>4, Reporting
  <2>6. QED  BY <2>1, <2>3, <2>4, <2>5 DEF TermInv, TermTypes
<1>7. CASE Term!ReceiveFrame
  <2>1. /\ UNCHANGED <<runs, started, effects, live, session, view, stream, asked, arm>>
        /\ live # NoSession /\ wire # <<>> /\ wire' = Tail(wire) /\ Term!Report(Head(wire))
    BY <1>7 DEF Term!ReceiveFrame, Term!daemon, Term!app, Term!line
  <2>2. Head(wire) \in Told /\ Tail(wire) \in Seq(Told)  BY <2>1 DEF TermInv, TermTypes
  <2>3. actions' \in Seq(Told)  BY <2>1, <2>2, Reporting
  <2>4. QED  BY <2>1, <2>2, <2>3 DEF TermInv, TermTypes
<1>8. CASE Term!LoseSubscription
  <2>1. /\ UNCHANGED <<runs, started, effects, session, view, stream, asked, arm>>
        /\ live' = NoSession /\ wire' = <<>> /\ Term!Report(Term!Action("lost", live, Term!NoRun))
    BY <1>8 DEF Term!LoseSubscription, Term!daemon, Term!app, Term!line
  <2>2. live \in Anyone /\ NoSession \in Anyone  BY TermValues DEF TermInv, TermTypes
  <2>3. /\ Term!Action("lost", live, Term!NoRun) \in Told
        /\ Term!Action("lost", live, Term!NoRun).kind = "lost"
    BY <2>2, TermValues DEF Answers
  <2>4. actions' \in Seq(Told) /\ Ended(actions') /\ (stream' = "live" => Lost(actions'))
    BY <2>1, <2>3, Reporting
  <2>5. QED  BY <2>1, <2>2, <2>4 DEF TermInv, TermTypes
<1>9. QED
  BY <1>1, <1>2, <1>3, <1>4, <1>5, <1>6, <1>7, <1>8 DEF Term!ClientTask

\* The loop asks for what is not of a session, or of one it names.
LEMMA Asking ==
  ASSUME Term!TerminalAssumption, TermInv, NEW e \in Asked,
         e.kind \in {"subscribe", "turn"} => e.session # NoSession,
         \/ effects' = effects \/ effects' = effects \o <<>>
         \/ effects' = effects \o <<e>>
  PROVE  effects' \in Seq(Asked) /\ Named(effects')
<1>1. effects \in Seq(Asked) /\ Named(effects)  BY DEF TermInv, TermTypes
<1>2. effects \o <<>> = effects  BY <1>1, ConcatEmptySeq
<1>3. QED  BY <1>1, <1>2, NamedNext

LEMMA LoopStep ==
  ASSUME Term!TerminalAssumption, TermInv, Term!Loop
  PROVE  TermInv'
<1>1. /\ actions # <<>> /\ actions' = Tail(actions)
      /\ UNCHANGED <<runs, started, live, wire, typed, arm>>
  BY DEF Term!Loop, Term!Reported, Term!daemon, Term!driver, Term!line, Term!Bootstrapped,
    Term!SnapshotLoaded, Term!SessionCreated, Term!StreamOpened, Term!StreamLost,
    Term!FrameReceived, Term!TurnAccepted, Term!OtherReport
<1>2. /\ Head(actions) \in Told /\ Term!Current = Head(actions)
      /\ Term!Current.session \in Anyone /\ Term!Current.run \in Status
  <2>1. actions \in Seq(Told)  BY DEF TermInv, TermTypes
  <2>2. Head(actions) \in Told  BY <1>1, <2>1
  <2>3. QED  BY <2>2 DEF Term!Current, Told
<1>3. /\ session \in Anyone /\ view.session \in Anyone /\ view \in [session : Anyone, run : Status]
      /\ stream \in {"inactive", "live", "lost"} /\ asked \in {0, 1} /\ NoSession \in Anyone
      /\ FirstSession \in Anyone
  BY TermValues DEF TermInv, TermTypes, Term!TerminalAssumption, Anyone
<1>4. \A e \in Asked :
        /\ e.kind \in {"subscribe", "turn"} => e.session # NoSession
        /\ effects' = effects \/ effects' = effects \o <<>> \/ effects' = effects \o <<e>>
        => effects' \in Seq(Asked) /\ Named(effects')
  BY Asking
<1>5. SUFFICES /\ effects' \in Seq(Asked) /\ Named(effects')
               /\ session' \in Anyone /\ view' \in [session : Anyone, run : Status]
               /\ stream' \in {"inactive", "live", "lost"} /\ asked' \in {0, 1}
               /\ \/ stream' = stream /\ Head(actions).kind # "lost"
                  \/ stream' # "live"
                  \/ Head(actions).kind = "opened"
  <2>1. /\ actions' \in Seq(Told)
        /\ live' = NoSession => Ended(actions') /\ (stream' = "live" => Lost(actions'))
    BY <1>1, <1>5, Taking
  <2>2. QED  BY <1>1, <1>5, <2>1 DEF TermInv, TermTypes
<1>6. ASSUME NEW s \in Anyone, NEW status, Term!Resubscribe(s, status)
      PROVE  effects' \in Seq(Asked) /\ Named(effects')
  <2>1. Term!Effect("subscribe", s) \in Asked /\ Term!Effect("subscribe", s).session = s
    BY TermValues DEF Orders
  <2>2. CASE s # NoSession /\ status # "live"
    BY <1>4, <1>6, <2>1, <2>2 DEF Term!Resubscribe, Term!Ask
  <2>3. CASE ~(s # NoSession /\ status # "live")
    <3>1. effects' = effects \o <<>>  BY <1>6, <2>3 DEF Term!Resubscribe, Term!Ask
    <3>2. effects \in Seq(Asked) /\ Named(effects)  BY DEF TermInv, TermTypes
    <3>3. QED  BY <3>1, <3>2, ConcatEmptySeq
  <2>4. QED  BY <2>2, <2>3
<1>7. ASSUME NEW kind \in {"open", "connect"}, NEW s \in Anyone,
             effects' = effects \o <<Term!Effect(kind, s)>>
      PROVE  effects' \in Seq(Asked) /\ Named(effects')
  <2>1. Term!Effect(kind, s) \in Asked /\ Term!Effect(kind, s).kind = kind
    BY TermValues DEF Orders
  <2>2. QED  BY <1>4, <1>7, <2>1
<1>8. ASSUME effects' = effects \/ effects' = effects \o <<>>
      PROVE  effects' \in Seq(Asked) /\ Named(effects')
  <2>1. effects \in Seq(Asked) /\ Named(effects)  BY DEF TermInv, TermTypes
  <2>2. QED  BY <1>8, <2>1, ConcatEmptySeq
<1>9. CASE Term!Bootstrapped
  <2>1. Term!Current.kind = "bootstrapped" /\ UNCHANGED <<session, view, stream, asked>>
    BY <1>9 DEF Term!Bootstrapped, Term!Reported, Term!app
  <2>2. effects' = effects \o <<>> \/ \E s \in Anyone : effects' = effects \o <<Term!Effect("open", s)>>
    BY <1>3, <1>9 DEF Term!Bootstrapped, Term!Ask
  <2>3. QED  BY <1>2, <1>3, <1>7, <1>8, <2>1, <2>2
<1>10. CASE Term!SnapshotLoaded
  <2>1. Term!Current.kind = "snapshot"  BY <1>10 DEF Term!SnapshotLoaded, Term!Reported
  <2>2. CASE UNCHANGED <<effects, session, view, stream, asked>>
    BY <1>2, <1>3, <1>8, <2>1, <2>2
  <2>3. CASE /\ session' = Term!Current.session
             /\ view' = Term!View(Term!Current.session, Term!Current.run)
             /\ stream' = "inactive" /\ Term!Resubscribe(Term!Current.session, "inactive")
             /\ UNCHANGED asked
    <3>1. view' \in [session : Anyone, run : Status]  BY <1>2, <2>3, TermValues
    <3>2. QED  BY <1>2, <1>3, <1>6, <2>3, <3>1
  <2>4. QED  BY <1>10, <2>2, <2>3 DEF Term!SnapshotLoaded, Term!app
<1>11. CASE Term!SessionCreated
  <2>1. /\ Term!Current.kind = "created" /\ UNCHANGED <<session, view, stream, asked>>
        /\ effects' = effects \o <<Term!Effect("open", Term!Current.session)>>
    BY <1>11 DEF Term!SessionCreated, Term!Reported, Term!app, Term!Ask
  <2>2. QED  BY <1>2, <1>3, <1>7, <2>1
<1>12. CASE Term!StreamOpened
  <2>1. Term!Current.kind = "opened" /\ UNCHANGED effects
    BY <1>12 DEF Term!StreamOpened, Term!Reported
  <2>2. \/ UNCHANGED <<session, view, stream, asked>>
        \/ /\ view' = Term!View(Term!Current.session, Term!Current.run) /\ stream' = "live"
           /\ UNCHANGED <<session, asked>>
    BY <1>12 DEF Term!StreamOpened, Term!app
  <2>3. view' \in [session : Anyone, run : Status]  BY <1>2, <1>3, <2>2, TermValues
  <2>4. QED  BY <1>2, <1>3, <1>8, <2>1, <2>2, <2>3
<1>13. CASE Term!StreamLost
  <2>1. /\ Term!Current.kind = "lost" /\ stream' = "lost" /\ UNCHANGED <<session, view>>
        /\ asked' \in {0, 1}
        /\ \/ UNCHANGED effects \/ effects' = effects \o <<Term!Effect("connect", NoSession)>>
    BY <1>3, <1>13 DEF Term!StreamLost, Term!Reported, Term!Ask
  <2>2. QED  BY <1>2, <1>3, <1>7, <1>8, <2>1
<1>14. CASE Term!FrameReceived
  <2>1. /\ Term!Current.kind = "frame" /\ UNCHANGED <<effects, session, stream>> /\ asked' \in {0, 1}
        /\ view' = view \/ view' = Term!View(view.session, Term!Current.run)
    BY <1>3, <1>14 DEF Term!FrameReceived, Term!Reported, Term!app
  <2>2. view' \in [session : Anyone, run : Status]  BY <1>2, <1>3, <2>1, TermValues
  <2>3. QED  BY <1>2, <1>3, <1>8, <2>1, <2>2
<1>15. CASE Term!TurnAccepted
  <2>1. /\ Term!Current.kind = "accepted" /\ UNCHANGED <<session, view, stream, asked>>
        /\ Term!Resubscribe(session, stream)
    BY <1>15 DEF Term!TurnAccepted, Term!Reported, Term!app
  <2>2. QED  BY <1>2, <1>3, <1>6, <2>1
<1>16. CASE Term!OtherReport
  <2>1. /\ Term!Current.kind \in {"failed", "bootstrap_failed", "answered"}
        /\ UNCHANGED <<effects, session, view, stream, asked>>
    BY <1>16 DEF Term!OtherReport, Term!Reported, Term!app
  <2>2. QED  BY <1>2, <1>3, <1>8, <2>1
<1>17. QED
  BY <1>9, <1>10, <1>11, <1>12, <1>13, <1>14, <1>15, <1>16 DEF Term!Loop

LEMMA UserStep ==
  ASSUME Term!TerminalAssumption, TermInv, Term!User
  PROVE  TermInv'
<1>1. UNCHANGED <<runs, started, live, wire, actions, session, view, stream, asked>>
  BY DEF Term!User, Term!Type, Term!Submit, Term!NewSession, Term!CtrlC, Term!Escape,
    Term!SelectSession, Term!Gesture, Term!daemon, Term!driver, Term!app
<1>2. session \in Anyone /\ NoSession \in Anyone /\ view.run.run \in Nat
      /\ effects \in Seq(Asked) /\ Named(effects)
      /\ arm \in [on : {"none", "stop", "exit"}, run : Nat]
  BY TermValues DEF TermInv, TermTypes, Status
<1>3. arm' \in [on : {"none", "stop", "exit"}, run : Nat]
  <2>1. \/ arm' = arm \/ arm' = [on |-> "none", run |-> 0] \/ arm' = [on |-> "exit", run |-> 0]
        \/ arm' = [on |-> "stop", run |-> view.run.run]
    BY DEF Term!User, Term!Type, Term!Submit, Term!NewSession, Term!CtrlC, Term!Escape,
      Term!SelectSession, Term!Disarm, Term!Disarmed
  <2>2. QED  BY <1>2, <2>1
<1>4. \/ effects' = effects
      \/ \E s \in Anyone : effects' = effects \o <<Term!Effect("open", s)>>
      \/ effects' = effects \o <<Term!Effect("create", NoSession)>>
      \/ session = NoSession /\ effects' = effects \o <<Term!Effect("create", session)>>
      \/ session # NoSession /\ effects' = effects \o <<Term!Effect("turn", session)>>
      \/ effects' = effects \o <<[Term!Effect("cancel", session) EXCEPT !.run = view.run.run]>>
  BY DEF Term!User, Term!Type, Term!Submit, Term!NewSession, Term!CtrlC, Term!Escape,
    Term!SelectSession, Term!Ask, Term!Cancel, Anyone
<1>5. \A kind \in Orders, s \in Anyone :
        /\ Term!Effect(kind, s) \in Asked /\ Term!Effect(kind, s).kind = kind
        /\ Term!Effect(kind, s).session = s
        /\ [Term!Effect(kind, s) EXCEPT !.run = view.run.run] \in Asked
        /\ [Term!Effect(kind, s) EXCEPT !.run = view.run.run].kind = kind
  BY <1>2 DEF Term!Effect, Asked
<1>6. {"open", "create", "turn", "cancel"} \subseteq Orders  BY DEF Orders
<1>7. effects' \in Seq(Asked) /\ Named(effects')
  <2>1. CASE effects' = effects  BY <1>2, <2>1
  <2>2. ASSUME NEW e \in Asked, effects' = effects \o <<e>>,
               e.kind \in {"subscribe", "turn"} => e.session # NoSession
        PROVE  effects' \in Seq(Asked) /\ Named(effects')
    BY <1>2, <2>2, NamedNext
  <2>3. \A s \in Anyone : Term!Effect("open", s) \in Asked /\ Term!Effect("open", s).kind = "open"
    BY <1>5, <1>6
  <2>4. \A s \in Anyone : Term!Effect("create", s) \in Asked /\ Term!Effect("create", s).kind = "create"
    BY <1>5, <1>6
  <2>5. Term!Effect("turn", session) \in Asked /\ Term!Effect("turn", session).session = session
    BY <1>2, <1>5, <1>6
  <2>6. /\ [Term!Effect("cancel", session) EXCEPT !.run = view.run.run] \in Asked
        /\ [Term!Effect("cancel", session) EXCEPT !.run = view.run.run].kind = "cancel"
    BY <1>2, <1>5, <1>6
  <2>7. QED  BY <1>2, <1>4, <2>1, <2>2, <2>3, <2>4, <2>5, <2>6
<1>8. QED  BY <1>1, <1>3, <1>7 DEF TermInv, TermTypes

LEMMA TermStep ==
  ASSUME Term!TerminalAssumption, TermInv, [Term!Next]_(Term!vars)
  PROVE  TermInv'
<1>1. CASE UNCHANGED Term!vars
  <2>1. UNCHANGED <<runs, started, effects, live, wire, actions, session, view, stream, asked, arm>>
    BY <1>1 DEF Term!vars, Term!daemon, Term!driver, Term!app, Term!line
  <2>2. QED  BY <2>1 DEF TermInv, TermTypes
<1>2. CASE \E s \in Sessions : Term!RunStarts(s) \/ Term!RunEnds(s)
  <2>1. PICK s \in Sessions : Term!RunStarts(s) \/ Term!RunEnds(s)  BY <1>2
  <2>2. UNCHANGED <<effects, live, actions, session, view, stream, asked, arm>>
    BY <2>1 DEF Term!RunStarts, Term!RunEnds, Term!app, Term!line
  <2>3. [runs[s] EXCEPT !.live = FALSE] \in Status
    BY DaemonTypes DEF TermInv, Status
  <2>4. runs' \in [Sessions -> Status] /\ started' \in Nat /\ wire' \in Seq(Told)
    <3>1. CASE Term!RunStarts(s)  BY <3>1, DaemonTypes DEF Term!RunStarts, TermInv
    <3>2. CASE Term!RunEnds(s)
      BY <2>3, <3>2, DaemonTypes DEF Term!RunEnds, TermInv, TermTypes
    <3>3. QED  BY <2>1, <3>1, <3>2
  <2>5. QED  BY <2>2, <2>4 DEF TermInv, TermTypes
<1>3. QED  BY <1>1, <1>2, ClientStep, LoopStep, UserStep DEF Term!Next

LEMMA StreamIsHeld ==
  ASSUME TermInv
  PROVE  Term!TypeOK /\ Term!LiveStreamIsHeld
BY DEF TermInv, TermTypes, Term!TypeOK, Term!LiveStreamIsHeld, Lost, Anyone
-----------------------------------------------------------------------------
(* The headless command reports each row once.                             *)

\* Headless
run == x1
rows == x2
closed == x3
subscribed == x4
front == x5
reported == x7
clock == x11
work == x12
trouble == x13
failure == x15
opened == x16
held == x17
stage == x18
printed == x19
unread == x20
turn == x21
leaving == x22
lines == x23
signals == x24
USE DEF run, rows, closed, subscribed, front, reported, clock, work, trouble, failure, opened,
        held, stage, printed, unread, turn, leaving, lines, signals

LEMMA LineCount == ASSUME NEW S PROVE Line!Cardinality(S) = Cardinality(S)
BY DEF Line!Cardinality, Cardinality

\* The newest of the rows is one of them.
LEMMA NewestOf ==
  ASSUME NEW n \in Nat, NEW X, X \subseteq 1 .. n
  PROVE  /\ Line!Newest(X) \in 0 .. n
         /\ X # {} => Line!Newest(X) \in X
         /\ X = {} => Line!Newest(X) = 0
         /\ \A i \in X : i <= Line!Newest(X)
<1>1. CASE X = {}  BY <1>1 DEF Line!Newest
<1>2. CASE X # {}
  <2>1. X \subseteq 0 .. n  OBVIOUS
  <2>2. PICK m \in X : \A y \in X : y <= m  BY <1>2, <2>1, GreatestElement
  <2>3. \A y \in X : m >= y  BY <2>2
  <2>4. Line!Max(X) \in X /\ \A y \in X : Line!Max(X) >= y  BY <2>3 DEF Line!Max
  <2>5. Line!Newest(X) = Line!Max(X)  BY <1>2 DEF Line!Newest
  <2>6. \A x : x \in X => x \in 0 .. n /\ x \in Nat  BY <2>1
  <2>7. \A i \in X : i \in Nat  BY <2>1
  <2>8. \A i \in X : i <= Line!Max(X)
    <3>1. Line!Max(X) \in Nat  BY <2>4, <2>6
    <3>2. QED  BY <2>4, <2>7, <3>1
  <2>9. QED  BY <1>2, <2>4, <2>5, <2>6, <2>8
<1>3. QED  BY <1>1, <1>2

LEMMA NewestIs ==
  ASSUME NEW n \in Nat, NEW X, X \subseteq 1 .. n, NEW m \in X, \A i \in X : i <= m
  PROVE  Line!Newest(X) = m
<1>1. Line!Newest(X) \in X /\ \A i \in X : i <= Line!Newest(X)  BY NewestOf
<1>2. m <= Line!Newest(X) /\ Line!Newest(X) <= m /\ m \in Nat /\ Line!Newest(X) \in Nat
  <2>1. \A x : x \in X => x \in Nat  OBVIOUS
  <2>2. QED  BY <1>1, <2>1
<1>3. QED  BY <1>2

\* The window keeps the newest rows, the newest of all among them.
LEMMA RetainOf ==
  ASSUME Line!HeadlessAssumption, NEW n \in Nat, NEW X, X \subseteq 1 .. n
  PROVE  /\ Line!Retain(X) \subseteq X
         /\ Line!Newest(Line!Retain(X)) = Line!Newest(X)
         /\ Cardinality(Line!Retain(X)) <= Retained
<1> DEFINE W == Line!Retain(X)
           After(i) == {j \in X : j > i}
<1>1. W \subseteq X /\ W = {i \in X : Cardinality({j \in X : j > i}) < Retained}
  <2>1. Line!Retain(X) = {i \in X : Line!Cardinality({j \in X : j > i}) < Retained}
    BY DEF Line!Retain
  <2>2. \A i : Line!Cardinality({j \in X : j > i}) = Cardinality({j \in X : j > i})  BY LineCount
  <2>3. QED  BY <2>1, <2>2
<1>2. IsFiniteSet(X) /\ \A Y \in SUBSET X : IsFiniteSet(Y) /\ Cardinality(Y) \in Nat
  <2>1. IsFiniteSet(1 .. n)  BY FS_Interval
  <2>2. IsFiniteSet(X)  BY <2>1, FS_Subset
  <2>3. QED  BY <2>2, FS_Subset, FS_CardinalityType
<1>3. Retained \in Nat \ {0}  BY DEF Line!HeadlessAssumption
<1>4. Line!Newest(W) = Line!Newest(X)
  <2>1. CASE X = {}  BY <1>1, <2>1
  <2>2. CASE X # {}
    <3> DEFINE m == Line!Newest(X)
    <3>1. m \in X /\ \A i \in X : i <= m  BY <2>2, NewestOf
    <3>2. After(m) = {}
      <4>1. \A x : x \in X => x \in Nat  OBVIOUS
      <4>3. \A i \in X : ~(i > m)  BY <3>1, <4>1
      <4>2. QED  BY <4>3
    <3>3. Cardinality(After(m)) = 0  BY <3>2, FS_EmptySet
    <3>4. m \in W  BY <1>1, <1>3, <3>1, <3>3
    <3>5. W \subseteq 1 .. n /\ \A i \in W : i <= m  BY <1>1, <3>1
    <3> HIDE DEF m, W
    <3>6. QED  BY <3>4, <3>5, NewestIs DEF m
  <2>3. QED  BY <2>1, <2>2
<1>5. Cardinality(W) <= Retained
  <2>1. CASE W = {}  BY <1>3, <2>1, FS_EmptySet
  <2>2. CASE W # {}
    <3>1. W \subseteq Nat
      <4>1. X \subseteq Nat  OBVIOUS
      <4>2. QED  BY <1>1, <4>1
    <3>2. PICK o \in W : \A y \in W : o <= y
      <4> HIDE DEF W
      <4> QED  BY <2>2, <3>1, LeastElement
    <3>3. Cardinality(After(o)) < Retained /\ o \in X  BY <1>1, <3>2
    <3>4. IsFiniteSet(After(o)) /\ Cardinality(After(o)) \in Nat /\ o \notin After(o)
      BY <1>2, <3>3
    <3>5. W \subseteq After(o) \cup {o}
      <4>1. ASSUME NEW y \in W, y # o PROVE y \in After(o)
        <5>1. y \in X /\ o <= y /\ y \in Nat /\ o \in Nat  BY <1>1, <3>1, <3>2
        <5>2. QED  BY <4>1, <5>1
      <4>2. QED  BY <4>1
    <3> HIDE DEF W, After
    <3>6. /\ IsFiniteSet(After(o) \cup {o})
          /\ Cardinality(After(o) \cup {o}) = Cardinality(After(o)) + 1
      BY <3>4, FS_AddElement
    <3>7. Cardinality(W) <= Cardinality(After(o)) + 1  BY <3>5, <3>6, FS_Subset
    <3>8. Cardinality(W) \in Nat  BY <1>1, <1>2
    <3>9. QED  BY <1>3, <3>3, <3>4, <3>7, <3>8
  <2>3. QED  BY <2>1, <2>2
<1>6. QED  BY <1>1, <1>4, <1>5

\* Also when more is read later.
LEMMA RetainAnd ==
  ASSUME Line!HeadlessAssumption, NEW n \in Nat, NEW X, X \subseteq 1 .. n, NEW Y, Y \subseteq 1 .. n
  PROVE  Line!Newest(Line!Retain(X) \cup Y) = Line!Newest(X \cup Y)
<1> DEFINE W == Line!Retain(X)
           m == Line!Newest(X \cup Y)
<1>1. W \subseteq X /\ Line!Newest(W) = Line!Newest(X)  BY RetainOf
<1>2. W \cup Y \subseteq 1 .. n /\ X \cup Y \subseteq 1 .. n  BY <1>1
<1>3. CASE X = {}  BY <1>1, <1>3
<1>4. CASE X # {}
  <2>1. m \in X \cup Y /\ \A i \in X \cup Y : i <= m  BY <1>2, <1>4, NewestOf
  <2>2. \A i \in W \cup Y : i <= m  BY <1>1, <2>1
  <2>3. m \in W \cup Y
    <3>1. CASE m \in Y  BY <3>1
    <3>2. CASE m \notin Y
      <4>1. m \in X /\ \A i \in X : i <= m  BY <2>1, <3>2
      <4>2. Line!Newest(X) = m
        <5> HIDE DEF m
        <5> QED  BY <4>1, NewestIs
      <4>3. W # {}
        <5>1. W = {} => Line!Newest(W) = 0  BY DEF Line!Newest
        <5>2. m \in 1 .. n  BY <4>1
        <5>3. QED  BY <1>1, <4>2, <5>1, <5>2
      <4>4. Line!Newest(W) \in W
        <5>1. W \subseteq 1 .. n  BY <1>1
        <5> HIDE DEF W
        <5> QED  BY <4>3, <5>1, NewestOf
      <4>5. QED  BY <1>1, <4>2, <4>4
    <3>3. QED  BY <3>1, <3>2
  <2> HIDE DEF W, m
  <2>4. QED  BY <1>2, <2>2, <2>3, NewestIs DEF m, W
<1>5. QED  BY <1>3, <1>4

\* The rows of a set in their order.
LEMMA RowsInOrder ==
  ASSUME NEW n \in Nat, NEW T
  PROVE  LET w == Within([i \in 1 .. n |-> i], T)
         IN  /\ w \in Seq(Nat) /\ Range(w) = T \cap 1 .. n
             /\ \A a, b \in DOMAIN w : a < b => w[a] < w[b]
<1> DEFINE Upto(k) == [i \in 1 .. k |-> i]
           w(k) == Within(Upto(k), T)
           Good(k) == \A a, b \in DOMAIN w(k) : a < b => w(k)[a] < w(k)[b]
           P == {k \in Nat : Good(k)}
<1>1. \A k \in Nat : Upto(k) \in Seq(Nat) /\ Range(Upto(k)) = 1 .. k  BY DEF Range
<1>2. \A k \in Nat : w(k) \in Seq(Nat) /\ Range(w(k)) = T \cap 1 .. k
  <2>1. SUFFICES ASSUME NEW k \in Nat
                 PROVE  w(k) \in Seq(Nat) /\ Range(w(k)) = T \cap 1 .. k
    BY Zenon
  <2>2. Upto(k) \in Seq(Nat) /\ Range(Upto(k)) = 1 .. k  BY <1>1
  <2> HIDE DEF Upto
  <2>3. QED  BY <2>2, WithinRange
<1>3. 0 \in P
  <2>1. Upto(0) = <<>>  BY <1>1
  <2>2. w(0) = <<>>
    <3>1. <<>> \in Seq(Nat)  OBVIOUS
    <3>3. Within(<<>>, T) = <<>>  BY <3>1, WithinGrows
    <3> HIDE DEF Upto
    <3>2. QED  BY <2>1, <3>3
  <2>3. QED  BY <2>2
<1>4. ASSUME NEW k \in P PROVE k + 1 \in P
  <2>1. k \in Nat /\ k + 1 \in Nat /\ Good(k)  OBVIOUS
  <2>2. Upto(k + 1) = Append(Upto(k), k + 1)
    <3>1. /\ Upto(k) \in Seq(Nat) /\ Upto(k + 1) \in Seq(Nat) /\ Len(Upto(k)) = k
          /\ Len(Upto(k + 1)) = k + 1 /\ \A i \in 1 .. k : Upto(k + 1)[i] = Upto(k)[i]
          /\ Upto(k + 1)[k + 1] = k + 1
      BY <1>1, <2>1
    <3> HIDE DEF Upto
    <3>2. QED  BY <2>1, <3>1, IsAppend
  <2>3. w(k + 1) = IF k + 1 \in T THEN Append(w(k), k + 1) ELSE w(k)
    <3>1. Upto(k) \in Seq(Nat)  BY <1>1, <2>1
    <3> HIDE DEF Upto
    <3>2. Within(Append(Upto(k), k + 1), T)
            = IF k + 1 \in T THEN Append(Within(Upto(k), T), k + 1) ELSE Within(Upto(k), T)
      <4>1. ASSUME NEW v \in Seq(Nat), NEW e \in Nat
            PROVE  Within(Append(v, e), T)
                     = IF e \in T THEN Append(Within(v, T), e) ELSE Within(v, T)
        BY WithinGrows
      <4>2. QED  BY <2>1, <3>1, <4>1
    <3>3. QED  BY <2>2, <3>2
  <2>4. w(k) \in Seq(Nat) /\ \A a \in DOMAIN w(k) : w(k)[a] \in 1 .. k
    BY <1>2, <2>1 DEF Range
  <2>5. Good(k + 1)
    <3> DEFINE v == w(k)
    <3>1. v \in Seq(Nat) /\ (\A a \in DOMAIN v : v[a] \in 1 .. k)
          /\ (\A a, b \in DOMAIN v : a < b => v[a] < v[b])
          /\ w(k + 1) = IF k + 1 \in T THEN Append(v, k + 1) ELSE v
      BY <2>1, <2>3, <2>4
    <3> HIDE DEF v, w
    <3>2. CASE k + 1 \in T
      <4>1. ASSUME NEW a \in DOMAIN Append(v, k + 1), NEW b \in DOMAIN Append(v, k + 1), a < b
            PROVE  Append(v, k + 1)[a] < Append(v, k + 1)[b]
        <5>1. a \in 1 .. Len(v) /\ b \in 1 .. Len(v) + 1 /\ Len(v) \in Nat  BY <2>1, <3>1, <4>1
        <5>2. CASE b \in 1 .. Len(v)  BY <2>1, <3>1, <4>1, <5>1, <5>2
        <5>3. CASE b = Len(v) + 1
          <6>1. Append(v, k + 1)[a] = v[a] /\ Append(v, k + 1)[b] = k + 1 /\ v[a] \in 1 .. k
            BY <2>1, <3>1, <5>1, <5>3
          <6>2. QED  BY <2>1, <6>1
        <5>4. QED  BY <5>1, <5>2, <5>3
      <4>2. QED  BY <3>1, <3>2, <4>1
    <3>3. CASE k + 1 \notin T  BY <3>1, <3>3
    <3>4. QED  BY <3>2, <3>3
  <2>6. QED  BY <2>1, <2>5
<1>5. P = Nat
  <2>1. P \subseteq Nat  OBVIOUS
  <2> HIDE DEF P
  <2>2. QED  BY <1>3, <1>4, <2>1, SetInduction
<1>6. Good(n)
  <2>1. n \in P  BY <1>5
  <2>2. QED  BY <2>1
<1>7. QED  BY <1>2, <1>6

-----------------------------------------------------------------------------
\* Only a carrier brings rows into what the state holds while the stream is
\* live, or opens it; the others are requests and their answers, those of the
\* list of sessions apart.
Minor == {"ListSessions", "listed", "failed"}
Carriers == {"opened", "frame"}
Kinds == Minor \cup Carriers \cup
  {"Connect", "OpenSession", "CreateSession", "SendTurn", "CancelRun", "Subscribe",
   "bootstrapped", "snapshot", "created", "accepted", "cancelled", "lost", "turn", "cancel"}
Runs == [live : BOOLEAN, run : Nat]
Items == [kind : Kinds, read : SUBSET Nat, view : Runs]
Frames == [kind : {"frame"}, read : SUBSET Nat, view : Runs]

\* What is applied and performed is one chain, with the list of sessions beside.
Alone(list) ==
  \A i, j \in DOMAIN list : list[i].kind \notin Minor /\ list[j].kind \notin Minor => i = j
Upto(list, n) == \A it \in Range(list) : it.read \subseteq 1 .. n
Carried(list) == {it \in Range(list) : it.kind \in Carriers}

\* The frames of a subscription carry the rows after base, one after another,
\* and the last one unless the subscription closed.
Chained(list, base, n) ==
  /\ \A k \in DOMAIN list :
       list[k].read = {} \/ \E r \in base + 1 .. n : list[k].read = {r}
  /\ \A j, k \in DOMAIN list :
       j < k => \A a \in list[j].read, b \in list[k].read : a < b
  /\ \A k \in DOMAIN list : \A r \in list[k].read : \A x \in base + 1 .. r - 1 :
       \E j \in DOMAIN list : j < k /\ x \in list[j].read
Whole(list, base, n) == \A x \in base + 1 .. n : \E j \in DOMAIN list : x \in list[j].read
Follows(list, base, n, open) == Chained(list, base, n) /\ (open => Whole(list, base, n))

LineTypes ==
  /\ rows \in 0 .. MaxRows /\ run \in Runs /\ view \in Runs
  /\ subscribed \in BOOLEAN /\ closed \in BOOLEAN
  /\ wire \in Seq(Frames) /\ Upto(wire, rows)
  /\ work \in Seq(Items) /\ Upto(work, rows) /\ Alone(work)
  /\ held \subseteq 1 .. rows /\ Cardinality(held) <= Retained
  /\ reported \in Nat /\ printed \in Seq(Nat)
  /\ stage \in {"launch", "opening", "prompt", "sending", "pump", "grace", "gone"}
  /\ clock \in {"none", "armed", "passed"} /\ stream \in {"inactive", "live", "lost"}

\* The rows up to Base are held or about to be; while the stream is live or about
\* to be, what follows them is on the wire.
Base == Line!Newest(held \cup UNION {it.read : it \in Carried(work)})
Following == stream = "live" \/ \E it \in Carried(work) : it.kind = "opened"
WireInv == subscribed /\ Following => Follows(wire, Base, rows, ~closed)

\* A frame is taken when everything held is reported, and brings the next row.
FrameInv ==
  \A it \in Carried(work) : it.kind = "frame" =>
    /\ \A i \in held : i <= reported
    /\ stream = "live" => it.read \subseteq {Line!Newest(held) + 1}

\* What was printed is in order up to the row reported last, and what is not
\* reported yet is held, or was left out by a bounded read.
InOrder(list, left) ==
  \A k \in 2 .. Len(list) :
    /\ list[k - 1] < list[k]
    /\ \A i \in list[k - 1] + 1 .. list[k] - 1 : i \in left
SinkInv ==
  /\ InOrder(printed, unread)
  /\ stage \in {"launch", "opening"} => printed = <<>>
  /\ printed # <<>> => printed[Len(printed)] = reported
  /\ reported <= Line!Newest(held)
  /\ \A i \in reported + 1 .. Line!Newest(held) : i \in held \/ i \in unread

LineInv == LineTypes /\ WireInv /\ FrameInv /\ SinkInv

\* A frame more on the wire: of a new row, or of none.
LEMMA NextFrame ==
  ASSUME NEW list \in Seq(Frames), NEW base \in Nat, NEW n \in Nat, base <= n, NEW f \in Frames,
         NEW open \in BOOLEAN, Follows(list, base, n, open)
  PROVE  /\ f.read = {} => Follows(Append(list, f), base, n, open)
         /\ f.read = {n + 1} /\ open => Follows(Append(list, f), base, n + 1, open)
<1> DEFINE l == Len(list)
           new == Append(list, f)
<1>1. /\ l \in Nat /\ DOMAIN list = 1 .. l /\ DOMAIN new = 1 .. l + 1 /\ new[l + 1] = f
      /\ \A k \in 1 .. l : new[k] = list[k]
      /\ \A k \in 1 .. l + 1 : k \in 1 .. l \/ k = l + 1
      /\ l + 1 \in 1 .. l + 1 /\ \A k \in 1 .. l : k \in 1 .. l + 1 /\ k < l + 1 /\ ~(l + 1 < k)
  OBVIOUS
<1> HIDE DEF l, new
<1>2. \A k \in 1 .. l : list[k].read = {} \/ \E r \in base + 1 .. n : list[k].read = {r}
  BY <1>1 DEF Follows, Chained
<1>3. \A k \in 1 .. l : \A r \in list[k].read : r \in Nat /\ base < r /\ r <= n
  BY <1>2
<1>4. CASE f.read = {}
  <2>1. \A k \in DOMAIN new : new[k].read = {} \/ \E r \in base + 1 .. n : new[k].read = {r}
    BY <1>1, <1>2, <1>4
  <2>2. \A j, k \in DOMAIN new : j < k => \A a \in new[j].read, b \in new[k].read : a < b
    BY <1>1, <1>4 DEF Follows, Chained
  <2>3. \A k \in DOMAIN new : \A r \in new[k].read : \A x \in base + 1 .. r - 1 :
          \E j \in DOMAIN new : j < k /\ x \in new[j].read
    BY <1>1, <1>4 DEF Follows, Chained
  <2>4. open => Whole(new, base, n)  BY <1>1 DEF Follows, Whole
  <2>5. QED  BY <1>1, <1>4, <2>1, <2>2, <2>3, <2>4 DEF Follows, Chained, new
<1>5. CASE f.read = {n + 1} /\ open
  <2>1. \A k \in DOMAIN new : new[k].read = {} \/ \E r \in base + 1 .. n + 1 : new[k].read = {r}
    <3>1. base + 1 .. n \subseteq base + 1 .. n + 1 /\ n + 1 \in base + 1 .. n + 1  OBVIOUS
    <3>2. QED  BY <1>1, <1>2, <1>5, <3>1
  <2>2. ASSUME NEW j \in DOMAIN new, NEW k \in DOMAIN new, j < k,
               NEW a \in new[j].read, NEW b \in new[k].read
        PROVE  a < b
    <3>1. j \in 1 .. l  BY <1>1, <2>2
    <3>2. CASE k \in 1 .. l  BY <1>1, <2>2, <3>1, <3>2 DEF Follows, Chained
    <3>3. CASE k = l + 1
      <4>1. b = n + 1 /\ a <= n /\ a \in Nat  BY <1>1, <1>3, <1>5, <2>2, <3>1, <3>3
      <4>2. QED  BY <4>1
    <3>4. QED  BY <1>1, <2>2, <3>2, <3>3
  <2>3. ASSUME NEW k \in DOMAIN new, NEW r \in new[k].read, NEW x \in base + 1 .. r - 1
        PROVE  \E j \in DOMAIN new : j < k /\ x \in new[j].read
    <3>1. CASE k \in 1 .. l  BY <1>1, <2>3, <3>1 DEF Follows, Chained
    <3>2. CASE k = l + 1
      <4>1. r = n + 1  BY <1>1, <1>5, <2>3, <3>2
      <4>2. x \in base + 1 .. n  BY <2>3, <4>1
      <4>3. PICK j \in 1 .. l : x \in list[j].read  BY <1>1, <1>5, <4>2 DEF Follows, Whole
      <4>4. QED  BY <1>1, <3>2, <4>3
    <3>3. QED  BY <1>1, <2>3, <3>1, <3>2
  <2>4. ASSUME NEW x \in base + 1 .. n + 1 PROVE \E j \in DOMAIN new : x \in new[j].read
    <3>1. CASE x = n + 1  BY <1>1, <1>5, <3>1
    <3>2. CASE x # n + 1
      <4>1. x \in base + 1 .. n  BY <2>4, <3>2
      <4>2. PICK j \in 1 .. l : x \in list[j].read  BY <1>1, <1>5, <4>1 DEF Follows, Whole
      <4>3. QED  BY <1>1, <4>2
    <3>3. QED  BY <3>1, <3>2
  <2>5. Chained(new, base, n + 1)  BY <2>1, <2>2, <2>3 DEF Chained
  <2>6. Whole(new, base, n + 1)  BY <2>4 DEF Whole
  <2>7. QED  BY <1>1, <1>5, <2>5, <2>6 DEF Follows, new
<1>6. QED  BY <1>4, <1>5 DEF new

\* The session may grow meanwhile, unseen by a subscription that closed.
LEMMA FollowsOn ==
  ASSUME NEW list \in Seq(Frames), NEW base \in Nat, NEW n \in Nat, NEW m \in Nat, n <= m,
         NEW open \in BOOLEAN, Follows(list, base, n, open)
  PROVE  n = m \/ ~open => Follows(list, base, m, open)
<1>1. CASE n = m  BY <1>1
<1>2. CASE ~open
  <2>1. base + 1 .. n \subseteq base + 1 .. m  OBVIOUS
  <2>2. QED  BY <1>2, <2>1 DEF Follows, Chained
<1>3. QED  BY <1>1, <1>2

\* The first frame taken, base is its row.
LEMMA FrameTaken ==
  ASSUME NEW list \in Seq(Frames), list # <<>>, NEW base \in Nat, NEW n \in Nat,
         NEW open \in BOOLEAN, Follows(list, base, n, open)
  PROVE  /\ Tail(list) \in Seq(Frames)
         /\ \/ Head(list).read = {} /\ Follows(Tail(list), base, n, open)
            \/ /\ Head(list).read = {base + 1} /\ base + 1 <= n
               /\ Follows(Tail(list), base + 1, n, open)
<1> DEFINE l == Len(list)
           new == Tail(list)
<1>1. /\ l \in Nat \ {0} /\ DOMAIN list = 1 .. l /\ DOMAIN new = 1 .. l - 1
      /\ Head(list) = list[1] /\ new \in Seq(Frames) /\ 1 \in 1 .. l
      /\ \A k \in 1 .. l - 1 : new[k] = list[k + 1] /\ k + 1 \in 1 .. l /\ 1 < k + 1
      /\ \A k \in 1 .. l : k # 1 => k - 1 \in 1 .. l - 1 /\ (k - 1) + 1 = k
      /\ \A j, k \in 1 .. l - 1 : j < k <=> j + 1 < k + 1
  OBVIOUS
<1> HIDE DEF l, new
<1>2. Chained(list, base, n) /\ (open => Whole(list, base, n)) /\ DOMAIN list = 1 .. l
  BY <1>1 DEF Follows
<1>7. \A k \in 1 .. l : list[k].read = {} \/ \E r \in base + 1 .. n : list[k].read = {r}
  BY <1>2 DEF Chained
<1>8. ASSUME NEW j \in 1 .. l, NEW k \in 1 .. l, j < k, NEW a \in list[j].read, NEW b \in list[k].read
      PROVE  a < b
  BY <1>2, <1>8 DEF Chained
<1>9. ASSUME NEW k \in 1 .. l, NEW r \in list[k].read, NEW x \in base + 1 .. r - 1
      PROVE  \E j \in 1 .. l : j < k /\ x \in list[j].read
  BY <1>2 DEF Chained
<1>10. ASSUME open, NEW x \in base + 1 .. n PROVE \E j \in 1 .. l : x \in list[j].read
  BY <1>2, <1>10 DEF Whole
<1>3. \A j, k \in DOMAIN new : j < k => \A a \in new[j].read, b \in new[k].read : a < b
  <2>1. SUFFICES ASSUME NEW j \in 1 .. l - 1, NEW k \in 1 .. l - 1, j < k
                 PROVE  \A a \in new[j].read, b \in new[k].read : a < b
    BY <1>1
  <2>2. new[j] = list[j + 1] /\ new[k] = list[k + 1] /\ j + 1 < k + 1
        /\ j + 1 \in 1 .. l /\ k + 1 \in 1 .. l
    BY <1>1, <2>1
  <2>3. QED  BY <1>8, <2>2
<1>4. CASE list[1].read = {}
  <2>1. \A k \in DOMAIN new : new[k].read = {} \/ \E r \in base + 1 .. n : new[k].read = {r}
    <3>1. SUFFICES ASSUME NEW k \in 1 .. l - 1
                   PROVE  new[k].read = {} \/ \E r \in base + 1 .. n : new[k].read = {r}
      BY <1>1
    <3>2. k + 1 \in 1 .. l /\ new[k] = list[k + 1]  BY <1>1
    <3>3. QED  BY <1>7, <3>2
  <2>2. ASSUME NEW k \in 1 .. l - 1, NEW r \in new[k].read, NEW x \in base + 1 .. r - 1
        PROVE  \E j \in 1 .. l - 1 : j < k /\ x \in new[j].read
    <3>5. k + 1 \in 1 .. l /\ r \in list[k + 1].read  BY <1>1, <2>2
    <3>1. PICK j \in 1 .. l : j < k + 1 /\ x \in list[j].read  BY <1>9, <2>2, <3>5
    <3>2. j # 1  BY <1>4, <3>1
    <3>3. j - 1 \in 1 .. l - 1 /\ j - 1 < k /\ new[j - 1] = list[j]  BY <1>1, <3>1, <3>2
    <3>4. QED  BY <3>1, <3>3
  <2>3. ASSUME open, NEW x \in base + 1 .. n PROVE \E j \in 1 .. l - 1 : x \in new[j].read
    <3>1. PICK j \in 1 .. l : x \in list[j].read  BY <1>10, <2>3
    <3>2. j # 1  BY <1>4, <3>1
    <3>3. j - 1 \in 1 .. l - 1 /\ new[j - 1] = list[j]  BY <1>1, <3>1, <3>2
    <3>4. QED  BY <3>1, <3>3
  <2>4. Chained(new, base, n)  BY <1>1, <1>3, <2>1, <2>2 DEF Chained
  <2>5. open => Whole(new, base, n)  BY <1>1, <2>3 DEF Whole
  <2>6. QED  BY <1>1, <1>4, <2>4, <2>5 DEF Follows, new
<1>5. CASE list[1].read # {}
  <2>1. PICK r \in base + 1 .. n : list[1].read = {r}  BY <1>1, <1>7, <1>5
  <2>2. r = base + 1
    <3>1. CASE base + 1 \in base + 1 .. r - 1
      <4>3. r \in list[1].read /\ 1 \in 1 .. l  BY <1>1, <2>1
      <4>1. PICK j \in 1 .. l : j < 1 /\ base + 1 \in list[j].read  BY <1>9, <3>1, <4>3
      <4>2. QED  BY <4>1, <1>1
    <3>2. QED  BY <2>1, <3>1
  <2>3. \A k \in 1 .. l - 1 : \A y \in new[k].read : base + 1 < y
    <3>1. SUFFICES ASSUME NEW k \in 1 .. l - 1, NEW y \in new[k].read PROVE base + 1 < y
      OBVIOUS
    <3>2. k + 1 \in 1 .. l /\ 1 \in 1 .. l /\ 1 < k + 1 /\ y \in list[k + 1].read
      BY <1>1, <3>1
    <3>3. base + 1 \in list[1].read  BY <2>1, <2>2
    <3>4. QED  BY <1>8, <3>2, <3>3
  <2>4. ASSUME NEW k \in 1 .. l - 1
        PROVE  new[k].read = {} \/ \E y \in base + 2 .. n : new[k].read = {y}
    <3>1. list[k + 1].read = {} \/ \E y \in base + 1 .. n : list[k + 1].read = {y}
      BY <1>1, <1>7
    <3>2. \A y \in base + 1 .. n : base + 1 < y => y \in base + 2 .. n  OBVIOUS
    <3>3. QED  BY <1>1, <2>3, <3>1, <3>2
  <2>5. ASSUME NEW k \in 1 .. l - 1, NEW y \in new[k].read, NEW x \in base + 2 .. y - 1
        PROVE  \E j \in 1 .. l - 1 : j < k /\ x \in new[j].read
    <3>1. x \in base + 1 .. y - 1 /\ x # base + 1  BY <2>5
    <3>2. PICK j \in 1 .. l : j < k + 1 /\ x \in list[j].read  BY <1>1, <1>9, <2>5, <3>1
    <3>3. j # 1  BY <2>1, <2>2, <3>1, <3>2
    <3>4. j - 1 \in 1 .. l - 1 /\ j - 1 < k /\ new[j - 1] = list[j]  BY <1>1, <3>2, <3>3
    <3>5. QED  BY <3>2, <3>4
  <2>6. ASSUME open, NEW x \in base + 2 .. n PROVE \E j \in 1 .. l - 1 : x \in new[j].read
    <3>1. x \in base + 1 .. n /\ x # base + 1  BY <2>6
    <3>2. PICK j \in 1 .. l : x \in list[j].read  BY <1>10, <2>6, <3>1
    <3>3. j # 1  BY <2>1, <2>2, <3>1, <3>2
    <3>4. j - 1 \in 1 .. l - 1 /\ new[j - 1] = list[j]  BY <1>1, <3>2, <3>3
    <3>5. QED  BY <3>2, <3>4
  <2>7. (base + 1) + 1 = base + 2  OBVIOUS
  <2>8. Chained(new, base + 1, n)  BY <1>1, <1>3, <2>4, <2>5, <2>7 DEF Chained
  <2>9. open => Whole(new, base + 1, n)  BY <1>1, <2>6, <2>7 DEF Whole
  <2>10. base + 1 <= n  BY <2>1, <2>2
  <2>11. QED  BY <1>1, <2>1, <2>2, <2>8, <2>9, <2>10 DEF Follows, new
<1>6. QED  BY <1>4, <1>5

-----------------------------------------------------------------------------
\* What is pending, item by item.
LEMMA ItemsAre ==
  /\ \A kind \in Kinds : /\ Line!Item(kind) \in Items /\ Line!Item(kind).kind = kind
                         /\ Line!Item(kind).read = {}
  /\ \A kind \in Kinds, list \in SUBSET Nat, v \in Runs :
       /\ Line!Read(kind, list, v) \in Items /\ Line!Read(kind, list, v).kind = kind
       /\ Line!Read(kind, list, v).read = list
  /\ Line!NoRun \in Runs
  /\ \A list \in SUBSET Nat, v \in Runs : Line!Read("frame", list, v) \in Frames
  /\ Frames \subseteq Items
<1>1. Line!NoRun \in Runs  BY DEF Line!NoRun, Runs
<1>2. Frames \subseteq Items  BY DEF Frames, Items, Kinds, Carriers
<1>3. QED  BY <1>1, <1>2 DEF Line!Item, Line!Read, Items, Frames

LEMMA WorkRest ==
  ASSUME NEW n, NEW list \in Seq(Items), list # <<>>, Alone(list), Upto(list, n)
  PROVE  /\ Tail(list) \in Seq(Items) /\ Alone(Tail(list)) /\ Upto(Tail(list), n)
         /\ Head(list) \in Items /\ Head(list).read \subseteq 1 .. n
         /\ Carried(list) = Carried(Tail(list))
              \cup (IF Head(list).kind \in Carriers THEN {Head(list)} ELSE {})
         /\ Head(list).kind \notin Minor => \A it \in Range(Tail(list)) : it.kind \in Minor
<1> DEFINE l == Len(list)
           rest == Tail(list)
<1>1. /\ rest \in Seq(Items) /\ Head(list) \in Items /\ Head(list) \in Range(list)
      /\ Range(list) = {Head(list)} \cup Range(rest)
  BY RangeOfTail
<1>2. /\ l \in Nat \ {0} /\ DOMAIN list = 1 .. l /\ DOMAIN rest = 1 .. l - 1
      /\ Head(list) = list[1] /\ 1 \in 1 .. l
      /\ \A k \in 1 .. l - 1 : rest[k] = list[k + 1] /\ k + 1 \in 1 .. l /\ k + 1 # 1
      /\ \A j, k \in 1 .. l - 1 : j + 1 = k + 1 => j = k
  OBVIOUS
<1> HIDE DEF l, rest
<1>3. Upto(rest, n) /\ Head(list).read \subseteq 1 .. n  BY <1>1 DEF Upto
<1>4. Carried(list) = Carried(rest) \cup (IF Head(list).kind \in Carriers THEN {Head(list)} ELSE {})
  BY <1>1 DEF Carried
<1>5. Alone(rest)
  <2>1. SUFFICES ASSUME NEW i \in 1 .. l - 1, NEW j \in 1 .. l - 1,
                        rest[i].kind \notin Minor, rest[j].kind \notin Minor
                 PROVE  i = j
    BY <1>2 DEF Alone
  <2>2. QED  BY <1>2, <2>1 DEF Alone
<1>6. ASSUME Head(list).kind \notin Minor, NEW it \in Range(rest) PROVE it.kind \in Minor
  <2>1. PICK k \in 1 .. l - 1 : rest[k] = it  BY <1>2 DEF Range
  <2>2. QED  BY <1>2, <1>6, <2>1 DEF Alone
<1>7. QED  BY <1>1, <1>3, <1>4, <1>5, <1>6 DEF rest

LEMMA WorkJoined ==
  ASSUME NEW n, NEW p \in Seq(Items), NEW q \in Seq(Items), Alone(p), Alone(q),
         Upto(p, n), Upto(q, n),
         (\A it \in Range(p) : it.kind \in Minor) \/ (\A it \in Range(q) : it.kind \in Minor)
  PROVE  /\ p \o q \in Seq(Items) /\ Alone(p \o q) /\ Upto(p \o q, n)
         /\ Carried(p \o q) = Carried(p) \cup Carried(q)
<1>1. p \o q \in Seq(Items) /\ Range(p \o q) = Range(p) \cup Range(q)  BY RangeOfConcat
<1>2. Upto(p \o q, n) /\ Carried(p \o q) = Carried(p) \cup Carried(q)  BY <1>1 DEF Upto, Carried
<1>3. /\ Len(p) \in Nat /\ Len(q) \in Nat /\ DOMAIN (p \o q) = 1 .. Len(p) + Len(q)
      /\ DOMAIN p = 1 .. Len(p) /\ DOMAIN q = 1 .. Len(q)
      /\ \A i \in 1 .. Len(p) : (p \o q)[i] = p[i]
      /\ \A i \in 1 .. Len(p) + Len(q) : i \notin 1 .. Len(p) =>
           i - Len(p) \in 1 .. Len(q) /\ (p \o q)[i] = q[i - Len(p)]
  OBVIOUS
<1>4. (\A i \in 1 .. Len(p) : p[i] \in Range(p)) /\ (\A i \in 1 .. Len(q) : q[i] \in Range(q))
  BY <1>3 DEF Range
<1>5. ASSUME NEW i \in 1 .. Len(p) + Len(q), NEW j \in 1 .. Len(p) + Len(q),
             (p \o q)[i].kind \notin Minor, (p \o q)[j].kind \notin Minor
      PROVE  i = j
  <2>1. CASE \A it \in Range(p) : it.kind \in Minor
    <3>1. i \notin 1 .. Len(p) /\ j \notin 1 .. Len(p)  BY <1>3, <1>4, <1>5, <2>1
    <3>2. i - Len(p) = j - Len(p)  BY <1>3, <1>5, <3>1 DEF Alone
    <3>3. QED  BY <1>3, <3>2
  <2>2. CASE \A it \in Range(q) : it.kind \in Minor
    <3>1. i \in 1 .. Len(p) /\ j \in 1 .. Len(p)  BY <1>3, <1>4, <1>5, <2>2
    <3>2. QED  BY <1>3, <1>5, <3>1 DEF Alone
  <2>3. QED  BY <2>1, <2>2
<1>6. QED  BY <1>1, <1>2, <1>3, <1>5 DEF Alone

LEMMA WorkOf ==
  ASSUME NEW n, NEW a \in Items, a.read \subseteq 1 .. n
  PROVE  /\ <<a>> \in Seq(Items) /\ Alone(<<a>>) /\ Upto(<<a>>, n) /\ Range(<<a>>) = {a}
         /\ a.kind \notin Carriers => Carried(<<a>>) = {}
         /\ a.kind \in Carriers => Carried(<<a>>) = {a}
         /\ <<>> \in Seq(Items) /\ Alone(<<>>) /\ Upto(<<>>, n) /\ Carried(<<>>) = {}
<1>1. Range(<<a>>) = {a} /\ Range(<<>>) = {}  BY DEF Range
<1>2. QED  BY <1>1 DEF Alone, Upto, Carried

\* A report that goes to the end of what is pending.
LEMMA ReportsOne ==
  ASSUME LineTypes, work # <<>>, NEW n \in Nat, rows <= n, NEW a \in Items, a.read \subseteq 1 .. n,
         a.kind \in Minor \/ Head(work).kind \notin Minor
  PROVE  /\ Tail(work) \o <<a>> \in Seq(Items) /\ Alone(Tail(work) \o <<a>>)
         /\ Upto(Tail(work) \o <<a>>, n)
         /\ Carried(Tail(work) \o <<a>>) =
              Carried(Tail(work)) \cup (IF a.kind \in Carriers THEN {a} ELSE {})
<1>1. work \in Seq(Items) /\ Alone(work) /\ Upto(work, n)
  <2>1. 1 .. rows \subseteq 1 .. n  BY DEF LineTypes
  <2>2. QED  BY <2>1 DEF LineTypes, Upto
<1>2. /\ Tail(work) \in Seq(Items) /\ Alone(Tail(work)) /\ Upto(Tail(work), n)
      /\ Head(work).kind \notin Minor => \A it \in Range(Tail(work)) : it.kind \in Minor
  BY <1>1, WorkRest
<1>3. /\ <<a>> \in Seq(Items) /\ Alone(<<a>>) /\ Upto(<<a>>, n) /\ Range(<<a>>) = {a}
      /\ Carried(<<a>>) = IF a.kind \in Carriers THEN {a} ELSE {}
  BY WorkOf
<1>4. (\A it \in Range(Tail(work)) : it.kind \in Minor) \/ (\A it \in Range(<<a>>) : it.kind \in Minor)
  BY <1>2, <1>3
<1> DEFINE t == Tail(work)
           b == <<a>>
<1>5. /\ t \in Seq(Items) /\ b \in Seq(Items) /\ Alone(t) /\ Alone(b) /\ Upto(t, n) /\ Upto(b, n)
      /\ (\A it \in Range(t) : it.kind \in Minor) \/ (\A it \in Range(b) : it.kind \in Minor)
      /\ Carried(b) = IF a.kind \in Carriers THEN {a} ELSE {}
  BY <1>2, <1>3, <1>4
<1>6. /\ t \o b \in Seq(Items) /\ Alone(t \o b) /\ Upto(t \o b, n)
      /\ Carried(t \o b) = Carried(t) \cup Carried(b)
  <2> HIDE DEF t, b
  <2> QED  BY <1>5, WorkJoined
<1>7. QED  BY <1>5, <1>6

-----------------------------------------------------------------------------
\* What the daemon does, of itself or for a request.
LEMMA DaemonGoesOn ==
  ASSUME Line!HeadlessAssumption, LineTypes, UNCHANGED <<closed, subscribed>>,
         \/ Line!Opens
         \/ /\ run.live /\ rows < MaxRows /\ rows' = rows + 1 /\ run' = run
            /\ Line!Publish(<<Line!RowFrame(rows + 1)>>)
         \/ Line!Ends /\ rows' = rows
         \/ UNCHANGED <<rows, run, wire>>
  PROVE  /\ rows' \in 0 .. MaxRows /\ rows <= rows' /\ run' \in Runs
         /\ wire' \in Seq(Frames) /\ Upto(wire', rows')
         /\ \A base \in 0 .. rows :
              subscribed /\ Follows(wire, base, rows, ~closed) =>
                Follows(wire', base, rows', ~closed)
<1> DEFINE row == Line!RowFrame(rows + 1)
           status == Line!StatusFrame(run')
<1>1. /\ rows \in 0 .. MaxRows /\ rows \in Nat /\ MaxRows \in Nat /\ run \in Runs
      /\ wire \in Seq(Frames) /\ Upto(wire, rows) /\ (~closed) \in BOOLEAN
  BY DEF LineTypes, Line!HeadlessAssumption
<1>2. /\ rows' \in 0 .. MaxRows /\ (rows' = rows \/ rows' = rows + 1) /\ run' \in Runs
  <2>1. run.run \in Nat /\ run.run + 1 \in Nat  BY <1>1 DEF Runs
  <2>2. [live |-> TRUE, run |-> run.run + 1] \in Runs  BY <2>1 DEF Runs
  <2>3. [run EXCEPT !.live = FALSE] \in Runs  BY <1>1 DEF Runs
  <2>4. CASE Line!Opens
    <3>1. rows' = rows + 1 /\ rows < MaxRows /\ run' = [live |-> TRUE, run |-> run.run + 1]
      BY <2>4 DEF Line!Opens
    <3>2. QED  BY <1>1, <2>2, <3>1
  <2>5. CASE Line!Ends /\ rows' = rows  BY <1>1, <2>3, <2>5 DEF Line!Ends
  <2>6. CASE rows' = rows + 1 /\ rows < MaxRows /\ run' = run  BY <1>1, <2>6
  <2>7. CASE rows' = rows /\ run' = run  BY <1>1, <2>7
  <2>8. QED  BY <2>4, <2>5, <2>6, <2>7
<1>3. /\ row \in Frames /\ row.read = {rows + 1} /\ status \in Frames /\ status.read = {}
      /\ Append(wire, row) \in Seq(Frames) /\ Append(wire, status) \in Seq(Frames)
      /\ Append(Append(wire, row), status) \in Seq(Frames)
  <2>1. {rows + 1} \in SUBSET Nat /\ {} \in SUBSET Nat /\ Frames \subseteq Items
        /\ "frame" \in Kinds
    BY <1>1, ItemsAre DEF Kinds, Carriers
  <2>2. row \in Frames /\ row.read = {rows + 1} /\ status \in Frames /\ status.read = {}
    BY <1>2, <2>1, ItemsAre DEF Line!RowFrame, Line!StatusFrame
  <2> HIDE DEF row, status
  <2>3. Append(wire, row) \in Seq(Frames) /\ Append(wire, status) \in Seq(Frames)
    BY <1>1, <2>2, RangeOfAppend
  <2>4. QED  BY <2>2, <2>3, RangeOfAppend
<1> HIDE DEF row, status
<1>4. \/ wire' = wire /\ (rows' = rows \/ ~(subscribed /\ ~closed))
      \/ /\ wire' = wire \o <<row, status>> /\ rows' = rows + 1 /\ subscribed /\ ~closed
      \/ /\ wire' = wire \o <<row>> /\ rows' = rows + 1 /\ subscribed /\ ~closed
      \/ /\ wire' = wire \o <<status>> /\ rows' = rows /\ subscribed /\ ~closed
  BY DEF Line!Opens, Line!Ends, Line!Publish, row, status
<1>5. /\ wire \o <<row, status>> = Append(Append(wire, row), status)
      /\ wire \o <<row>> = Append(wire, row) /\ wire \o <<status>> = Append(wire, status)
  BY <1>1, <1>3
<1>6. wire' \in Seq(Frames)  BY <1>1, <1>3, <1>4, <1>5
<1>7. Upto(wire', rows')
  <2>1. Upto(wire, rows + 1)
    <3>1. 1 .. rows \subseteq 1 .. rows + 1  BY <1>1
    <3>2. QED  BY <1>1, <3>1 DEF Upto
  <2>2. Range(Append(wire, row)) = Range(wire) \cup {row}  BY <1>1, <1>3, RangeOfAppend
  <2>3. Range(Append(Append(wire, row), status)) = Range(wire) \cup {row, status}
    <3>1. Range(Append(Append(wire, row), status)) = Range(Append(wire, row)) \cup {status}
      BY <1>3, RangeOfAppend
    <3>2. QED  BY <2>2, <3>1
  <2>4. Range(Append(wire, status)) = Range(wire) \cup {status}  BY <1>1, <1>3, RangeOfAppend
  <2>5. row.read \subseteq 1 .. rows + 1 /\ \A n : status.read \subseteq 1 .. n  BY <1>1, <1>3
  <2>6. CASE wire' = wire  BY <1>1, <1>2, <2>1, <2>6
  <2>7. CASE wire' = Append(Append(wire, row), status) /\ rows' = rows + 1
    BY <2>1, <2>3, <2>5, <2>7 DEF Upto
  <2>8. CASE wire' = Append(wire, row) /\ rows' = rows + 1  BY <2>1, <2>2, <2>5, <2>8 DEF Upto
  <2>9. CASE wire' = Append(wire, status) /\ rows' = rows  BY <1>1, <2>4, <2>5, <2>9 DEF Upto
  <2>10. QED  BY <1>4, <1>5, <2>6, <2>7, <2>8, <2>9
<1>8. ASSUME NEW base \in 0 .. rows, subscribed, Follows(wire, base, rows, ~closed)
      PROVE  Follows(wire', base, rows', ~closed)
  <2>1. base \in Nat /\ base <= rows /\ base <= rows + 1 /\ rows + 1 \in Nat  BY <1>1
  <2>2. CASE wire' = wire /\ (rows' = rows \/ closed)
    <3>1. rows' \in Nat /\ rows <= rows'  BY <1>1, <1>2
    <3>2. QED  BY <1>1, <1>8, <2>1, <2>2, <3>1, FollowsOn
  <2>3. CASE wire' = Append(Append(wire, row), status) /\ rows' = rows + 1 /\ ~closed
    <3>1. Follows(Append(wire, row), base, rows + 1, ~closed)
      BY <1>1, <1>3, <1>8, <2>1, <2>3, NextFrame
    <3>2. QED  BY <1>1, <1>3, <2>1, <2>3, <3>1, NextFrame
  <2>4. CASE wire' = Append(wire, row) /\ rows' = rows + 1 /\ ~closed
    BY <1>1, <1>3, <1>8, <2>1, <2>4, NextFrame
  <2>5. CASE wire' = Append(wire, status) /\ rows' = rows
    BY <1>1, <1>3, <1>8, <2>1, <2>5, NextFrame
  <2>6. QED  BY <1>4, <1>5, <1>8, <2>2, <2>3, <2>4, <2>5
<1>9. QED  BY <1>1, <1>2, <1>6, <1>7, <1>8

\* The rows the state holds or is about to are the session's.
LEMMA BaseType ==
  ASSUME LineTypes
  PROVE  Base \in 0 .. rows /\ Line!Newest(held) \in 0 .. rows /\ rows \in Nat
<1>1. rows \in Nat  BY DEF LineTypes
<1>2. held \cup UNION {it.read : it \in Carried(work)} \subseteq 1 .. rows
  BY DEF LineTypes, Upto, Carried
<1>3. QED  BY <1>1, <1>2, NewestOf DEF Base, LineTypes

\* A step that changes neither what is held nor what was reported, and no carrier.
LEMMA CoreStays ==
  ASSUME LineInv, NEW n, n = rows',
         rows' \in 0 .. MaxRows, rows <= rows', run' \in Runs, wire' \in Seq(Frames),
         Upto(wire', rows'),
         \A base \in 0 .. rows : subscribed /\ Follows(wire, base, rows, ~closed) =>
           Follows(wire', base, rows', ~closed),
         work' \in Seq(Items), Upto(work', rows'), Alone(work'), Carried(work') = Carried(work),
         UNCHANGED <<closed, subscribed, held, view, reported, printed, unread>>,
         stream' = stream \/ (Carried(work) = {} /\ stream' \in {"inactive", "lost"}),
         stage' \in {"launch", "opening", "prompt", "sending", "pump", "grace", "gone"},
         stage' \in {"launch", "opening"} => stage' = stage,
         clock' \in {"none", "armed", "passed"}
  PROVE  LineInv'
<1>1. LineTypes'
  <2>1. rows \in Nat /\ rows' \in Nat  BY DEF LineInv, LineTypes
  <2>2. 1 .. rows \subseteq 1 .. rows'  BY <2>1
  <2>3. QED  BY <2>2 DEF LineInv, LineTypes
<1>2. Base' = Base /\ Base \in 0 .. rows  BY BaseType DEF LineInv, Base
<1>3. WireInv'
  <2>1. Following' => Following  BY DEF Following
  <2>2. QED  BY <1>2, <2>1 DEF LineInv, WireInv
<1>4. FrameInv'  BY DEF LineInv, FrameInv
<1>5. SinkInv'  BY DEF LineInv, SinkInv
<1>6. QED  BY <1>1, <1>3, <1>4, <1>5 DEF LineInv

-----------------------------------------------------------------------------
LEMMA LineInit ==
  ASSUME Line!HeadlessAssumption, Line!Init
  PROVE  LineInv
<1>1. /\ rows = 0 /\ run = Line!NoRun /\ wire = <<>> /\ closed = FALSE /\ subscribed = FALSE
      /\ stage = "launch" /\ clock = "none" /\ work = <<>> /\ held = {} /\ view = Line!NoRun
      /\ stream = "inactive" /\ reported = 0 /\ printed = <<>> /\ unread = {}
  BY DEF Line!Init
<1>2. Line!NoRun \in Runs /\ MaxRows \in Nat /\ Retained \in Nat
  BY ItemsAre DEF Line!HeadlessAssumption
<1>3. Range(<<>>) = {} /\ Cardinality({}) = 0  BY FS_EmptySet DEF Range
<1>4. LineTypes
  <2>1. Upto(wire, rows) /\ Upto(work, rows) /\ Alone(work)  BY <1>1, <1>3 DEF Upto, Alone
  <2>2. wire \in Seq(Frames) /\ work \in Seq(Items) /\ printed \in Seq(Nat)  BY <1>1
  <2>3. Cardinality(held) <= Retained /\ held \subseteq 1 .. rows  BY <1>1, <1>2, <1>3
  <2>4. rows \in 0 .. MaxRows /\ run \in Runs /\ view \in Runs /\ reported \in Nat
    BY <1>1, <1>2
  <2>5. /\ subscribed \in BOOLEAN /\ closed \in BOOLEAN /\ stream \in {"inactive", "live", "lost"}
        /\ stage \in {"launch", "opening", "prompt", "sending", "pump", "grace", "gone"}
        /\ clock \in {"none", "armed", "passed"}
    BY <1>1
  <2>6. QED  BY <2>1, <2>2, <2>3, <2>4, <2>5 DEF LineTypes
<1>5. Carried(work) = {}  BY <1>1, <1>3 DEF Carried
<1>6. WireInv /\ FrameInv  BY <1>1, <1>5 DEF WireInv, FrameInv
<1>7. Line!Newest(held) = 0  BY <1>1 DEF Line!Newest
<1>8. SinkInv  BY <1>1, <1>7 DEF SinkInv, InOrder
<1>9. QED  BY <1>4, <1>6, <1>8 DEF LineInv

\* The newest rows, that a snapshot carries.
LEMMA SnapshotIs ==
  ASSUME Line!HeadlessAssumption, LineTypes, NEW kind \in Kinds
  PROVE  /\ Line!Snapshot(kind) \in Items /\ Line!Snapshot(kind).kind = kind
         /\ Line!Snapshot(kind).read = Line!Retain(1 .. rows)
         /\ Line!Retain(1 .. rows) \subseteq 1 .. rows
<1>1. rows \in Nat /\ run \in Runs  BY DEF LineTypes
<1>2. Line!Retain(1 .. rows) \subseteq 1 .. rows  BY <1>1, RetainOf
<1>3. Line!Retain(1 .. rows) \in SUBSET Nat  BY <1>2
<1>4. (IF run.live THEN run ELSE Line!NoRun) \in Runs  BY <1>1, ItemsAre
<1>5. QED  BY <1>2, <1>3, <1>4, ItemsAre DEF Line!Snapshot

\* A request of the core that opens nothing.
LEMMA PerformStep ==
  ASSUME Line!HeadlessAssumption, LineInv, Line!Perform, ~Line!Subscribe
  PROVE  LineInv'
<1> DEFINE K == {"Connect", "ListSessions", "OpenSession", "CreateSession", "SendTurn", "CancelRun"}
<1>1. \E kind \in K : Line!Performed(kind)
  BY DEF Line!Perform, Line!Connect, Line!ListSessions, Line!OpenSession, Line!SendTurn,
    Line!CancelRun
<1>2. /\ work # <<>> /\ Head(work).kind \in K /\ LineTypes
      /\ UNCHANGED <<closed, subscribed, held, view, reported, printed, unread, stream, stage, clock>>
  BY <1>1 DEF Line!Performed, Line!Due, Line!Current, Line!core, Line!sink, Line!loop, LineInv
<1>3. \/ Line!Opens
      \/ Line!Ends /\ rows' = rows
      \/ UNCHANGED <<rows, run, wire>>
  BY DEF Line!Perform, Line!Connect, Line!ListSessions, Line!OpenSession, Line!SendTurn,
    Line!CancelRun, Line!Accept, Line!daemon, Line!Opens, Line!Ends
<1>4. \/ \E kind \in {"bootstrapped", "created", "accepted", "cancelled"} :
           Head(work).kind # "ListSessions" /\ work' = Tail(work) \o <<Line!Item(kind)>>
      \/ \E kind \in {"listed", "failed"} : work' = Tail(work) \o <<Line!Item(kind)>>
      \/ Head(work).kind # "ListSessions" /\ work' = Tail(work) \o <<Line!Snapshot("snapshot")>>
  BY DEF Line!Perform, Line!Connect, Line!ListSessions, Line!OpenSession, Line!SendTurn,
    Line!CancelRun, Line!Refused, Line!Reports, Line!Performed, Line!Due, Line!Current
<1>5. /\ rows' \in 0 .. MaxRows /\ rows <= rows' /\ run' \in Runs
      /\ wire' \in Seq(Frames) /\ Upto(wire', rows')
      /\ \A base \in 0 .. rows : subscribed /\ Follows(wire, base, rows, ~closed) =>
           Follows(wire', base, rows', ~closed)
  BY <1>2, <1>3, DaemonGoesOn
<1>6. rows \in Nat /\ rows' \in Nat /\ 1 .. rows \subseteq 1 .. rows'  BY <1>2, <1>5 DEF LineTypes
<1>7. \E a \in Items : /\ work' = Tail(work) \o <<a>> /\ a.kind \notin Carriers
                       /\ a.read \subseteq 1 .. rows'
                       /\ a.kind \in Minor \/ Head(work).kind \notin Minor
  <2>1. CASE \E kind \in {"bootstrapped", "created", "accepted", "cancelled"} :
               Head(work).kind # "ListSessions" /\ work' = Tail(work) \o <<Line!Item(kind)>>
    <3>1. PICK kind \in {"bootstrapped", "created", "accepted", "cancelled"} :
            Head(work).kind # "ListSessions" /\ work' = Tail(work) \o <<Line!Item(kind)>>
      BY <2>1
    <3>2. kind \in Kinds /\ kind \notin Carriers /\ Head(work).kind \notin Minor
      BY <1>2, <3>1 DEF Kinds, Carriers, Minor
    <3>3. Line!Item(kind) \in Items /\ Line!Item(kind).kind = kind /\ Line!Item(kind).read = {}
      BY <3>2, ItemsAre
    <3>4. QED  BY <3>1, <3>2, <3>3
  <2>2. CASE \E kind \in {"listed", "failed"} : work' = Tail(work) \o <<Line!Item(kind)>>
    <3>1. PICK kind \in {"listed", "failed"} : work' = Tail(work) \o <<Line!Item(kind)>>
      BY <2>2
    <3>2. kind \in Kinds /\ kind \notin Carriers /\ kind \in Minor
      BY <3>1 DEF Kinds, Carriers, Minor
    <3>3. Line!Item(kind) \in Items /\ Line!Item(kind).kind = kind /\ Line!Item(kind).read = {}
      BY <3>2, ItemsAre
    <3>4. QED  BY <3>1, <3>2, <3>3
  <2>3. CASE Head(work).kind # "ListSessions" /\ work' = Tail(work) \o <<Line!Snapshot("snapshot")>>
    <3>1. "snapshot" \in Kinds /\ "snapshot" \notin Carriers /\ Head(work).kind \notin Minor
      BY <1>2, <2>3 DEF Kinds, Carriers, Minor
    <3>2. /\ Line!Snapshot("snapshot") \in Items /\ Line!Snapshot("snapshot").kind = "snapshot"
          /\ Line!Snapshot("snapshot").read \subseteq 1 .. rows
      BY <1>2, <3>1, SnapshotIs
    <3>3. QED  BY <1>6, <2>3, <3>1, <3>2
  <2>4. QED  BY <1>4, <2>1, <2>2, <2>3
<1>8. PICK a \in Items : /\ work' = Tail(work) \o <<a>> /\ a.kind \notin Carriers
                         /\ a.read \subseteq 1 .. rows'
                         /\ a.kind \in Minor \/ Head(work).kind \notin Minor
  BY <1>7
<1>9. /\ work' \in Seq(Items) /\ Alone(work') /\ Upto(work', rows')
      /\ Carried(work') = Carried(Tail(work))
  <2>1. /\ Tail(work) \o <<a>> \in Seq(Items) /\ Alone(Tail(work) \o <<a>>)
        /\ Upto(Tail(work) \o <<a>>, rows')
        /\ Carried(Tail(work) \o <<a>>) =
             Carried(Tail(work)) \cup (IF a.kind \in Carriers THEN {a} ELSE {})
    BY <1>2, <1>5, <1>6, <1>8, ReportsOne
  <2>2. Carried(Tail(work)) \cup (IF a.kind \in Carriers THEN {a} ELSE {}) = Carried(Tail(work))
    BY <1>8
  <2>3. QED  BY <1>8, <2>1, <2>2
<1>10. Carried(work) = Carried(Tail(work))
  <2>1. Head(work).kind \notin Carriers  BY <1>2 DEF Carriers
  <2>2. QED  BY <1>2, <2>1, WorkRest DEF LineTypes
<1>11. stage' \in {"launch", "opening", "prompt", "sending", "pump", "grace", "gone"}
       /\ clock' \in {"none", "armed", "passed"} /\ stage' = stage
  BY <1>2 DEF LineTypes
<1>12. QED  BY <1>2, <1>5, <1>9, <1>10, <1>11, CoreStays

\* A subscription begins with what was committed.
LEMMA SubscribeStep ==
  ASSUME Line!HeadlessAssumption, LineInv, Line!Subscribe
  PROVE  LineInv'
<1>1. /\ work # <<>> /\ Head(work).kind = "Subscribe" /\ LineTypes
      /\ UNCHANGED <<rows, run, held, view, reported, printed, unread, stream, stage, clock>>
      /\ \/ /\ subscribed' = TRUE /\ closed' = FALSE /\ wire' = <<>>
            /\ work' = Tail(work) \o <<Line!Snapshot("opened")>>
         \/ /\ work' = Tail(work) \o <<Line!Item("lost")>>
            /\ UNCHANGED <<subscribed, wire, closed>>
  BY DEF Line!Subscribe, Line!Due, Line!Current, Line!core, Line!sink, Line!loop, LineInv,
    Line!daemon, Line!channel, Line!Reports
<1>2. rows \in Nat /\ rows <= rows  BY <1>1 DEF LineTypes
<1>3. /\ "Subscribe" \notin Minor /\ "Subscribe" \notin Carriers /\ "lost" \in Kinds
      /\ "lost" \notin Carriers /\ "opened" \in Kinds /\ "opened" \in Carriers
  BY DEF Kinds, Carriers, Minor
<1>4. Carried(work) = {} /\ Carried(Tail(work)) = {}
  <2>1. /\ Carried(work) = Carried(Tail(work))
        /\ \A it \in Range(Tail(work)) : it.kind \in Minor
    BY <1>1, <1>3, WorkRest DEF LineTypes
  <2>2. QED  BY <2>1 DEF Carried, Carriers, Minor
<1>5. CASE work' = Tail(work) \o <<Line!Item("lost")>> /\ UNCHANGED <<subscribed, wire, closed>>
  <2>1. /\ Line!Item("lost") \in Items /\ Line!Item("lost").kind = "lost"
        /\ Line!Item("lost").read \subseteq 1 .. rows
    BY <1>3, ItemsAre
  <2>2. /\ work' \in Seq(Items) /\ Alone(work') /\ Upto(work', rows)
        /\ Carried(work') = {}
    BY <1>1, <1>2, <1>3, <1>4, <1>5, <2>1, ReportsOne
  <2>3. /\ rows' \in 0 .. MaxRows /\ rows <= rows' /\ run' \in Runs
        /\ wire' \in Seq(Frames) /\ Upto(wire', rows')
        /\ \A base \in 0 .. rows : subscribed /\ Follows(wire, base, rows, ~closed) =>
             Follows(wire', base, rows', ~closed)
    BY <1>1, <1>2, <1>5 DEF LineTypes
  <2>4. QED  BY <1>1, <1>4, <1>5, <2>2, <2>3, CoreStays DEF LineTypes
<1>6. CASE /\ subscribed' = TRUE /\ closed' = FALSE /\ wire' = <<>>
           /\ work' = Tail(work) \o <<Line!Snapshot("opened")>>
  <2> DEFINE a == Line!Snapshot("opened")
  <2>1. /\ a \in Items /\ a.kind = "opened" /\ a.read = Line!Retain(1 .. rows)
        /\ a.read \subseteq 1 .. rows
    BY <1>1, <1>3, SnapshotIs
  <2> HIDE DEF a
  <2>2. /\ work' \in Seq(Items) /\ Alone(work') /\ Upto(work', rows) /\ Carried(work') = {a}
    BY <1>1, <1>2, <1>3, <1>4, <1>6, <2>1, ReportsOne DEF a
  <2>3. LineTypes'
    <3>1. Range(<<>>) = {}  BY DEF Range
    <3>2. <<>> \in Seq(Frames) /\ Upto(<<>>, rows)  BY <3>1 DEF Upto
    <3>3. QED  BY <1>1, <1>6, <2>2, <3>2 DEF LineTypes
  <2>4. Base' = rows
    <3>1. UNION {it.read : it \in Carried(work')} = a.read  BY <2>2
    <3>2. Base' = Line!Newest(held \cup a.read)  BY <1>1, <3>1 DEF Base
    <3>3. held \subseteq 1 .. rows  BY <1>1 DEF LineTypes
    <3>4. Line!Newest(Line!Retain(1 .. rows) \cup held) = Line!Newest(1 .. rows \cup held)
      BY <1>2, <3>3, RetainAnd
    <3>5. 1 .. rows \cup held = 1 .. rows  BY <3>3
    <3>6. Line!Newest(1 .. rows) = rows
      <4>1. CASE rows = 0
        <5>1. 1 .. rows = {}  BY <4>1
        <5>2. QED  BY <4>1, <5>1 DEF Line!Newest
      <4>2. CASE rows # 0
        <5>1. rows \in 1 .. rows /\ \A i \in 1 .. rows : i <= rows  BY <1>2, <4>2
        <5>2. QED  BY <1>2, <5>1, NewestIs
      <4>3. QED  BY <4>1, <4>2
    <3>7. held \cup a.read = Line!Retain(1 .. rows) \cup held  BY <2>1
    <3>8. QED  BY <3>2, <3>4, <3>5, <3>6, <3>7
  <2>5. WireInv'
    <3>1. rows + 1 .. rows = {}  BY <1>2
    <3>2. Follows(<<>>, rows, rows, TRUE)  BY <3>1 DEF Follows, Chained, Whole
    <3>3. QED  BY <1>1, <1>6, <2>4, <3>2 DEF WireInv
  <2>6. FrameInv'  BY <2>1, <2>2 DEF FrameInv
  <2>7. SinkInv'  BY <1>1 DEF LineInv, SinkInv
  <2>8. QED  BY <2>3, <2>5, <2>6, <2>7 DEF LineInv
<1>7. QED  BY <1>1, <1>5, <1>6

-----------------------------------------------------------------------------
\* What an action asks for comes before what is pending.
LEMMA AsksFirst ==
  ASSUME LineTypes, work # <<>>, NEW e \in Seq(Items), Alone(e), Upto(e, rows),
         e = <<>> \/ Head(work).kind \notin Minor
  PROVE  /\ e \o Tail(work) \in Seq(Items) /\ Alone(e \o Tail(work)) /\ Upto(e \o Tail(work), rows)
         /\ Carried(e \o Tail(work)) = Carried(e) \cup Carried(Tail(work))
<1> DEFINE t == Tail(work)
<1>1. /\ t \in Seq(Items) /\ Alone(t) /\ Upto(t, rows)
      /\ Head(work).kind \notin Minor => \A it \in Range(t) : it.kind \in Minor
  BY WorkRest DEF LineTypes
<1>2. (\A it \in Range(e) : it.kind \in Minor) \/ (\A it \in Range(t) : it.kind \in Minor)
  <2>1. Range(<<>>) = {}  BY DEF Range
  <2>2. QED  BY <1>1, <2>1
<1> HIDE DEF t
<1>3. /\ e \o t \in Seq(Items) /\ Alone(e \o t) /\ Upto(e \o t, rows)
      /\ Carried(e \o t) = Carried(e) \cup Carried(t)
  BY <1>1, <1>2, WorkJoined
<1>4. QED  BY <1>3 DEF t

LEMMA OneAndTwo ==
  ASSUME NEW S, NEW a \in S, NEW b \in S
  PROVE  <<a>> \o <<b>> = <<a, b>> /\ <<a>> \o <<>> = <<a>>
<1>1. <<a>> \in Seq(S) /\ <<b>> \in Seq(S) /\ <<a, b>> \in Seq(S)  OBVIOUS
<1>2. <<a>> \o <<b>> = Append(<<a>>, b)  BY <1>1, AppendIsConcat
<1>3. Append(<<a>>, b) = <<a, b>>
  <2>1. Len(<<a>>) = 1 /\ <<a>>[1] = a /\ Len(<<a, b>>) = 2 /\ <<a, b>>[1] = a /\ <<a, b>>[2] = b
    OBVIOUS
  <2> DEFINE one == <<a>>
             two == <<a, b>>
  <2>2. one \in Seq(S) /\ two \in Seq(S) /\ Len(one) = 1 /\ one[1] = a /\ Len(two) = 2
        /\ two[1] = a /\ two[2] = b
    BY <1>1, <2>1
  <2>3. Append(one, b) = two
    <3> HIDE DEF one, two
    <3>4. one \in Seq(S)  BY <2>2
    <3>5. /\ Append(one, b) \in Seq(S) /\ Len(Append(one, b)) = Len(one) + 1
          /\ Append(one, b)[Len(one) + 1] = b
          /\ \A i \in 1 .. Len(one) : Append(one, b)[i] = one[i]
      BY <3>4, AppendProperties
    <3>1. /\ Append(one, b) \in Seq(S) /\ Len(Append(one, b)) = 2
          /\ Append(one, b)[1] = a /\ Append(one, b)[2] = b
      BY <2>2, <3>5
    <3>2. \A i \in 1 .. 2 : Append(one, b)[i] = two[i]
      <4>1. \A i \in 1 .. 2 : i = 1 \/ i = 2  OBVIOUS
      <4>2. QED  BY <2>2, <3>1, <4>1
    <3>3. QED  BY <2>2, <3>1, <3>2, SeqEqual
  <2>4. QED  BY <2>3
<1>4. <<a>> \o <<>> = <<a>>  BY <1>1, ConcatEmptySeq
<1>5. QED  BY <1>2, <1>3, <1>4

\* Effects that carry no row.
Effects == {<<>>} \cup {<<Line!Item(kind)>> : kind \in Kinds \ Carriers}
             \cup {<<Line!Read("CancelRun", {}, view)>>}
             \cup {<<Line!Item("ListSessions"), Line!Item("OpenSession")>>}

LEMMA EffectsAre ==
  ASSUME LineTypes, NEW e \in Effects, NEW n
  PROVE  e \in Seq(Items) /\ Alone(e) /\ Upto(e, n) /\ Carried(e) = {}
<1>0. view \in Runs /\ "CancelRun" \in Kinds /\ {} \in SUBSET Nat
      /\ {"ListSessions", "OpenSession"} \subseteq Kinds \ Carriers
      /\ "CancelRun" \notin Carriers /\ "ListSessions" \in Minor
  BY DEF LineTypes, Kinds, Carriers, Minor
<1>1. CASE e = <<>>
  <2>1. Range(<<>>) = {}  BY DEF Range
  <2>2. QED  BY <1>1, <2>1 DEF Alone, Upto, Carried
<1>2. ASSUME NEW a \in Items, a.read = {}, a.kind \notin Carriers, e = <<a>>
      PROVE  e \in Seq(Items) /\ Alone(e) /\ Upto(e, n) /\ Carried(e) = {}
  BY <1>2, WorkOf
<1>3. CASE \E kind \in Kinds \ Carriers : e = <<Line!Item(kind)>>  BY <1>2, <1>3, ItemsAre
<1>4. CASE e = <<Line!Read("CancelRun", {}, view)>>  BY <1>0, <1>2, <1>4, ItemsAre
<1>5. CASE e = <<Line!Item("ListSessions"), Line!Item("OpenSession")>>
  <2> DEFINE a == Line!Item("ListSessions")
             b == Line!Item("OpenSession")
  <2>1. /\ a \in Items /\ b \in Items /\ a.read = {} /\ b.read = {} /\ a.kind \in Minor
        /\ a.kind \notin Carriers /\ b.kind \notin Carriers
    BY <1>0, ItemsAre
  <2> HIDE DEF a, b
  <2>2. /\ <<a>> \in Seq(Items) /\ Alone(<<a>>) /\ Upto(<<a>>, n) /\ Range(<<a>>) = {a}
        /\ <<b>> \in Seq(Items) /\ Alone(<<b>>) /\ Upto(<<b>>, n)
        /\ Carried(<<a>>) = {} /\ Carried(<<b>>) = {}
    BY <2>1, WorkOf
  <2>3. \A it \in Range(<<a>>) : it.kind \in Minor  BY <2>1, <2>2
  <2>4. /\ <<a>> \o <<b>> \in Seq(Items) /\ Alone(<<a>> \o <<b>>) /\ Upto(<<a>> \o <<b>>, n)
        /\ Carried(<<a>> \o <<b>>) = {}
    <3> DEFINE p == <<a>>
               q == <<b>>
    <3>1. /\ p \in Seq(Items) /\ q \in Seq(Items) /\ Alone(p) /\ Alone(q) /\ Upto(p, n)
          /\ Upto(q, n) /\ \A it \in Range(p) : it.kind \in Minor
      BY <2>2, <2>3
    <3>2. /\ p \o q \in Seq(Items) /\ Alone(p \o q) /\ Upto(p \o q, n)
          /\ Carried(p \o q) = Carried(p) \cup Carried(q)
      <4> HIDE DEF p, q
      <4> QED  BY <3>1, WorkJoined
    <3>3. QED  BY <2>2, <3>2
  <2>5. <<a>> \o <<b>> = <<a, b>>  BY <2>1, OneAndTwo
  <2>6. QED  BY <1>5, <2>4, <2>5 DEF a, b
<1>6. QED  BY <1>1, <1>3, <1>4, <1>5 DEF Effects

\* The daemon unmoved, what CoreStays asks of it holds.
LEMMA DaemonStays ==
  ASSUME LineTypes, UNCHANGED <<rows, run, wire>>
  PROVE  /\ rows' \in 0 .. MaxRows /\ rows <= rows' /\ run' \in Runs
         /\ wire' \in Seq(Frames) /\ Upto(wire', rows')
         /\ \A base \in 0 .. rows : subscribed /\ Follows(wire, base, rows, ~closed) =>
              Follows(wire', base, rows', ~closed)
<1>1. rows <= rows  BY DEF LineTypes
<1>2. QED  BY <1>1 DEF LineTypes

\* Every update but the two reads and the frame.
LEMMA UpdateStep ==
  ASSUME Line!HeadlessAssumption, LineInv, Line!Update,
         ~Line!SnapshotLoaded, ~Line!StreamOpened, ~Line!FrameReceived
  PROVE  LineInv'
<1> DEFINE U == {"bootstrapped", "created", "accepted", "lost", "turn", "cancel", "failed", "listed",
                 "cancelled"}
<1>1. \E kind \in U : Line!Applied(kind)
  BY DEF Line!Update, Line!Bootstrapped, Line!SessionCreated, Line!TurnAccepted, Line!StreamLost,
    Line!TurnSubmitted, Line!CancelRequested, Line!OtherReport
<1>2. /\ work # <<>> /\ Head(work).kind \in U /\ LineTypes
      /\ UNCHANGED <<rows, run, wire, closed, subscribed, reported, printed, stage, clock>>
  BY <1>1 DEF Line!Applied, Line!Due, Line!Current, Line!daemon, Line!channel, Line!sink, Line!loop,
    LineInv
<1>3. UNCHANGED <<held, view, unread>> /\ (stream' = stream \/ Line!StreamLost)
  BY DEF Line!Update, Line!Bootstrapped, Line!SessionCreated, Line!TurnAccepted, Line!StreamLost,
    Line!TurnSubmitted, Line!CancelRequested, Line!OtherReport, Line!core
<1>4. \E e \in Effects : work' = e \o Tail(work) /\ (e = <<>> \/ Head(work).kind \notin Minor)
  <2>1. /\ <<>> \in Effects /\ \A kind \in Kinds \ Carriers : <<Line!Item(kind)>> \in Effects
        /\ <<Line!Read("CancelRun", {}, view)>> \in Effects
        /\ <<Line!Item("ListSessions"), Line!Item("OpenSession")>> \in Effects
        /\ {"ListSessions", "OpenSession", "Subscribe", "Connect", "SendTurn", "CreateSession"}
             \subseteq Kinds \ Carriers
    BY DEF Effects, Kinds, Carriers, Minor
  <2>2. CASE Line!OtherReport  BY <2>1, <2>2 DEF Line!OtherReport, Line!Asks
  <2>3. CASE ~Line!OtherReport
    <3>1. \E kind \in {"bootstrapped", "created", "accepted", "lost", "turn", "cancel"} :
            Line!Applied(kind)
      BY <2>3 DEF Line!Update, Line!Bootstrapped, Line!SessionCreated, Line!TurnAccepted,
        Line!StreamLost, Line!TurnSubmitted, Line!CancelRequested
    <3>2. Head(work).kind \notin Minor
      BY <3>1 DEF Line!Applied, Line!Due, Line!Current, Minor
    <3>3. CASE Line!Bootstrapped
      <4>1. <<Line!Item("ListSessions")>> \o <<>> = <<Line!Item("ListSessions")>>
            /\ <<Line!Item("ListSessions")>> \o <<Line!Item("OpenSession")>>
                 = <<Line!Item("ListSessions"), Line!Item("OpenSession")>>
        <5>1. Line!Item("ListSessions") \in Items /\ Line!Item("OpenSession") \in Items
          BY <2>1, ItemsAre
        <5>2. QED  BY <5>1, OneAndTwo
      <4>2. QED  BY <2>1, <3>2, <3>3, <4>1 DEF Line!Bootstrapped, Line!Asks
    <3>4. CASE Line!SessionCreated  BY <2>1, <3>2, <3>4 DEF Line!SessionCreated, Line!Asks
    <3>5. CASE Line!TurnAccepted  BY <2>1, <3>2, <3>5 DEF Line!TurnAccepted, Line!Asks
    <3>6. CASE Line!StreamLost  BY <2>1, <3>2, <3>6 DEF Line!StreamLost, Line!Asks
    <3>7. CASE Line!TurnSubmitted
      <4>1. work' = <<Line!Item("SendTurn")>> \o Tail(work)
            \/ work' = <<Line!Item("CreateSession")>> \o Tail(work)
        BY <3>7 DEF Line!TurnSubmitted, Line!Asks
      <4>2. QED  BY <2>1, <3>2, <4>1
    <3>8. CASE Line!CancelRequested  BY <2>1, <3>2, <3>8 DEF Line!CancelRequested, Line!Asks
    <3>9. QED  BY <2>3, <3>3, <3>4, <3>5, <3>6, <3>7, <3>8 DEF Line!Update
  <2>4. QED  BY <2>2, <2>3
<1>5. PICK e \in Effects : work' = e \o Tail(work) /\ (e = <<>> \/ Head(work).kind \notin Minor)
  BY <1>4
<1>6. e \in Seq(Items) /\ Alone(e) /\ Upto(e, rows) /\ Carried(e) = {}  BY <1>2, EffectsAre
<1>7. /\ Carried(work) = Carried(Tail(work))
      /\ Head(work).kind \notin Minor => \A it \in Range(Tail(work)) : it.kind \in Minor
  <2>1. Head(work).kind \notin Carriers  BY <1>2 DEF Carriers
  <2>2. QED  BY <1>2, <2>1, WorkRest DEF LineTypes
<1>8. /\ work' \in Seq(Items) /\ Alone(work') /\ Upto(work', rows') /\ Carried(work') = Carried(work)
  BY <1>2, <1>5, <1>6, <1>7, AsksFirst
<1>9. stream' = stream \/ (Carried(work) = {} /\ stream' \in {"inactive", "lost"})
  <2>1. ASSUME Line!StreamLost PROVE Carried(work) = {} /\ stream' = "lost"
    <3>1. Head(work).kind = "lost" /\ stream' = "lost"
      BY <2>1 DEF Line!StreamLost, Line!Applied, Line!Due, Line!Current
    <3>2. \A it \in Range(Tail(work)) : it.kind \in Minor  BY <1>7, <3>1 DEF Minor
    <3>3. QED  BY <1>7, <3>1, <3>2 DEF Carried, Carriers, Minor
  <2>2. QED  BY <1>3, <2>1
<1>10. stage' \in {"launch", "opening", "prompt", "sending", "pump", "grace", "gone"}
       /\ clock' \in {"none", "armed", "passed"}
  BY <1>2 DEF LineTypes
<1>11. rows' = rows  BY <1>2
<1>12. /\ rows' \in 0 .. MaxRows /\ rows <= rows' /\ run' \in Runs
       /\ wire' \in Seq(Frames) /\ Upto(wire', rows')
       /\ \A base \in 0 .. rows : subscribed /\ Follows(wire, base, rows, ~closed) =>
            Follows(wire', base, rows', ~closed)
  BY <1>2, DaemonStays
<1>13. QED  BY <1>2, <1>3, <1>8, <1>9, <1>10, <1>12, CoreStays

\* A read that is reconciled: what it left out is noted.
LEMMA ReadStep ==
  ASSUME Line!HeadlessAssumption, LineInv, Line!SnapshotLoaded \/ Line!StreamOpened
  PROVE  LineInv'
<1> DEFINE read == Head(work).read
<1>1. /\ work # <<>> /\ Head(work).kind \in {"snapshot", "opened"} /\ LineTypes
      /\ UNCHANGED <<rows, run, wire, closed, subscribed, reported, printed, stage, clock>>
      /\ held' = Line!Retain(held \cup read) /\ view' = Head(work).view
      /\ unread' = unread \cup {i \in (reported + 1) .. Line!Newest(held') : i \notin held'}
  BY DEF Line!SnapshotLoaded, Line!StreamOpened, Line!Applied, Line!Due, Line!Current, Line!daemon,
    Line!channel, Line!sink, Line!loop, Line!Reconcile, LineInv
<1>2. \/ /\ Head(work).kind = "snapshot" /\ stream' = "inactive"
         /\ work' = <<Line!Item("Subscribe")>> \o Tail(work)
      \/ Head(work).kind = "opened" /\ stream' = "live" /\ work' = <<>> \o Tail(work)
  BY DEF Line!SnapshotLoaded, Line!StreamOpened, Line!Applied, Line!Due, Line!Current, Line!Asks
<1>3. /\ Head(work) \in Items /\ read \subseteq 1 .. rows
      /\ \A it \in Range(Tail(work)) : it.kind \in Minor
      /\ Carried(work) = Carried(Tail(work))
              \cup (IF Head(work).kind \in Carriers THEN {Head(work)} ELSE {})
  <2>1. Head(work).kind \notin Minor  BY <1>1 DEF Minor
  <2>2. QED  BY <1>1, <2>1, WorkRest DEF LineTypes
<1>4. Carried(Tail(work)) = {}  BY <1>3 DEF Carried, Carriers, Minor
<1>5. rows \in Nat /\ held \subseteq 1 .. rows  BY <1>1 DEF LineTypes
<1>6. held \cup read \subseteq 1 .. rows  BY <1>3, <1>5
<1> HIDE DEF read
<1>7. /\ held' \subseteq held \cup read /\ Line!Newest(held') = Line!Newest(held \cup read)
      /\ Cardinality(held') <= Retained
  BY <1>1, <1>5, <1>6, RetainOf
<1>8. work' \in Seq(Items) /\ Alone(work') /\ Upto(work', rows') /\ Carried(work') = {}
  <2>1. \E e \in Effects : work' = e \o Tail(work)
    <3>1. "Subscribe" \in Kinds \ Carriers  BY DEF Kinds, Carriers
    <3>2. QED  BY <1>2, <3>1 DEF Effects
  <2>2. PICK e \in Effects : work' = e \o Tail(work)  BY <2>1
  <2>3. e \in Seq(Items) /\ Alone(e) /\ Upto(e, rows) /\ Carried(e) = {}  BY <1>1, EffectsAre
  <2>4. Head(work).kind \notin Minor  BY <1>1 DEF Minor
  <2>5. QED  BY <1>1, <1>4, <2>2, <2>3, <2>4, AsksFirst
<1>9. LineTypes'
  <2>1. Head(work).view \in Runs  BY <1>3 DEF Items
  <2>2. stream' \in {"inactive", "live", "lost"}  BY <1>2
  <2>3. held' \subseteq 1 .. rows'  BY <1>1, <1>6, <1>7
  <2>4. QED  BY <1>1, <1>7, <1>8, <2>1, <2>2, <2>3 DEF LineTypes
<1>10. WireInv'
  <2>1. CASE Head(work).kind = "snapshot" /\ stream' = "inactive"
    BY <1>8, <2>1 DEF WireInv, Following
  <2>2. CASE Head(work).kind = "opened"
    <3>1. Carried(work) = {Head(work)}  BY <1>3, <1>4, <2>2 DEF Carriers
    <3>2. Following  BY <2>2, <3>1 DEF Following
    <3>3. Base = Line!Newest(held \cup read)
      <4>1. UNION {it.read : it \in Carried(work)} = read  BY <3>1 DEF read
      <4>2. QED  BY <4>1 DEF Base
    <3>4. Base' = Line!Newest(held')
      <4>1. held' \cup UNION {it.read : it \in Carried(work')} = held'  BY <1>8
      <4>2. QED  BY <4>1 DEF Base
    <3>5. QED  BY <1>1, <1>7, <3>2, <3>3, <3>4 DEF LineInv, WireInv
  <2>3. QED  BY <1>2, <2>1, <2>2
<1>11. FrameInv'  BY <1>8 DEF FrameInv
<1>12. Line!Newest(held) <= Line!Newest(held')
  <2>1. CASE held = {}
    <3>1. held' \subseteq 1 .. rows  BY <1>6, <1>7
    <3>2. Line!Newest(held') \in 0 .. rows  BY <1>5, <3>1, NewestOf
    <3>3. QED  BY <1>5, <2>1, <3>2, NewestOf
  <2>2. CASE held # {}
    <3>1. Line!Newest(held) \in held \cup read  BY <1>5, <2>2, NewestOf
    <3>2. QED  BY <1>5, <1>6, <1>7, <3>1, NewestOf
  <2>3. QED  BY <2>1, <2>2
<1>13. SinkInv'
  <2>1. InOrder(printed, unread)'
    BY <1>1 DEF LineInv, SinkInv, InOrder
  <2>2. reported' <= Line!Newest(held')
    <3>1. reported \in Nat /\ Line!Newest(held) \in 0 .. rows /\ reported <= Line!Newest(held)
      BY <1>1, BaseType DEF LineInv, SinkInv, LineTypes
    <3>2. held' \subseteq 1 .. rows  BY <1>6, <1>7
    <3>3. Line!Newest(held') \in 0 .. rows  BY <1>5, <3>2, NewestOf
    <3>4. QED  BY <1>1, <1>5, <1>12, <3>1, <3>3
  <2>3. \A i \in reported' + 1 .. Line!Newest(held') : i \in held' \/ i \in unread'  BY <1>1
  <2>4. QED  BY <1>1, <2>1, <2>2, <2>3 DEF LineInv, SinkInv
<1>14. QED  BY <1>9, <1>10, <1>11, <1>13 DEF LineInv

\* A frame is the next row, or none.
LEMMA FrameStep ==
  ASSUME Line!HeadlessAssumption, LineInv, Line!FrameReceived
  PROVE  LineInv'
<1> DEFINE f == Head(work)
<1>1. /\ work # <<>> /\ f.kind = "frame" /\ LineTypes /\ work' = <<>> \o Tail(work)
      /\ UNCHANGED <<rows, run, wire, closed, subscribed, reported, printed, stage, clock, unread, stream>>
      /\ IF stream # "live" THEN UNCHANGED <<held, view>>
         ELSE /\ held' = IF Line!Newest(held) \in f.read THEN held ELSE Line!Retain(held \cup f.read)
              /\ view' = IF f.view = Line!NoRun THEN view ELSE f.view
  BY DEF Line!FrameReceived, Line!Applied, Line!Due, Line!Current, Line!daemon, Line!channel,
    Line!sink, Line!loop, Line!core, Line!Asks, LineInv
<1>2. /\ f \in Items /\ f.read \subseteq 1 .. rows
      /\ \A it \in Range(Tail(work)) : it.kind \in Minor
      /\ Carried(work) = Carried(Tail(work)) \cup {f}
  <2>1. Head(work).kind \notin Minor /\ Head(work).kind \in Carriers
    BY <1>1 DEF Minor, Carriers
  <2>2. QED  BY <1>1, <2>1, WorkRest DEF LineTypes
<1>3. Carried(Tail(work)) = {}  BY <1>2 DEF Carried, Carriers, Minor
<1>4. rows \in Nat /\ held \subseteq 1 .. rows /\ reported \in Nat
      /\ Line!Newest(held) \in 0 .. rows
  BY <1>1, BaseType DEF LineTypes
<1>5. work' \in Seq(Items) /\ Alone(work') /\ Upto(work', rows') /\ Carried(work') = {}
  <2>1. <<>> \in Effects  BY DEF Effects
  <2>2. <<>> \in Seq(Items) /\ Alone(<<>>) /\ Upto(<<>>, rows) /\ Carried(<<>>) = {}
    BY <1>1, <2>1, EffectsAre
  <2>3. QED  BY <1>1, <1>3, <2>2, AsksFirst
<1>6. /\ \A i \in held : i <= reported
      /\ stream = "live" => f.read \subseteq {Line!Newest(held) + 1}
  BY <1>1, <1>2 DEF LineInv, FrameInv
<1>7. reported = Line!Newest(held)
  <2>1. reported <= Line!Newest(held)  BY DEF LineInv, SinkInv
  <2>2. CASE held = {}
    <3>1. Line!Newest(held) = 0  BY <2>2 DEF Line!Newest
    <3>2. QED  BY <1>4, <2>1, <3>1
  <2>3. CASE held # {}
    <3>1. Line!Newest(held) \in held  BY <1>4, <2>3, NewestOf
    <3>2. QED  BY <1>4, <1>6, <2>1, <3>1
  <2>4. QED  BY <2>2, <2>3
<1>8. (~Following /\ Carried(work') = {}) \/ stream = "live" \/ stream # "live"  OBVIOUS
<1>9. CASE stream # "live"
  <2>1. LineTypes'  BY <1>1, <1>5, <1>9 DEF LineTypes
  <2>2. WireInv'  BY <1>1, <1>5, <1>9 DEF WireInv, Following
  <2>3. FrameInv'  BY <1>5 DEF FrameInv
  <2>4. SinkInv'  BY <1>1, <1>9 DEF LineInv, SinkInv
  <2>5. QED  BY <2>1, <2>2, <2>3, <2>4 DEF LineInv
<1>10. CASE stream = "live"
  <2> DEFINE n == Line!Newest(held)
  <2>1. held' = Line!Retain(held \cup f.read)
    <3>1. n \notin f.read  BY <1>4, <1>6, <1>10
    <3>2. QED  BY <1>1, <1>10, <3>1
  <2>2. held \cup f.read \subseteq 1 .. rows  BY <1>2, <1>4
  <2> HIDE DEF f
  <2>3. /\ held' \subseteq held \cup f.read /\ Line!Newest(held') = Line!Newest(held \cup f.read)
        /\ Cardinality(held') <= Retained
    BY <1>4, <2>1, <2>2, RetainOf
  <2>4. LineTypes'
    <3>1. view' \in Runs  BY <1>1, <1>2, <1>10 DEF LineTypes, Items, f
    <3>2. QED  BY <1>1, <1>5, <2>2, <2>3, <3>1 DEF LineTypes
  <2>5. WireInv'
    <3>1. Base = Line!Newest(held \cup f.read)
      <4>1. UNION {it.read : it \in Carried(work)} = f.read  BY <1>2, <1>3
      <4>2. QED  BY <4>1 DEF Base
    <3>2. Base' = Line!Newest(held')
      <4>1. held' \cup UNION {it.read : it \in Carried(work')} = held'  BY <1>5
      <4>2. QED  BY <4>1 DEF Base
    <3>3. Following  BY <1>10 DEF Following
    <3>4. QED  BY <1>1, <2>3, <3>1, <3>2, <3>3 DEF LineInv, WireInv
  <2>6. FrameInv'  BY <1>5 DEF FrameInv
  <2>7. SinkInv'
    <3>1. \/ f.read = {} /\ Line!Newest(held') = n
          \/ f.read = {n + 1} /\ Line!Newest(held') = n + 1 /\ n + 1 \in held'
      <4>1. CASE f.read = {}
        <5>1. held \cup f.read = held  BY <4>1
        <5>2. QED  BY <2>3, <4>1, <5>1
      <4>2. CASE f.read = {n + 1}
        <5>1. n + 1 \in held \cup f.read  BY <4>2
        <5>2. \A i \in held \cup f.read : i <= n + 1
          <6>4. \A i \in held : i \in Nat  BY <1>4
          <6>5. \A i \in held : i <= n  BY <1>4, NewestOf
          <6>1. \A i \in held : i <= n /\ i \in Nat  BY <6>4, <6>5
          <6>2. n \in Nat  BY <1>4
          <6>3. QED  BY <4>2, <6>1, <6>2
        <5>3. Line!Newest(held \cup f.read) = n + 1  BY <1>4, <2>2, <5>1, <5>2, NewestIs
        <5>4. held' \subseteq 1 .. rows /\ n + 1 # 0  BY <1>4, <2>2, <2>3
        <5>5. Line!Newest(held') \in held'  BY <1>4, <2>3, <5>3, <5>4, NewestOf
        <5>6. QED  BY <2>3, <4>2, <5>3, <5>5
      <4>3. QED  BY <1>6, <1>10, <4>1, <4>2
    <3>2. n \in Nat  BY <1>4
    <3>3. reported' <= Line!Newest(held')
          /\ \A i \in reported' + 1 .. Line!Newest(held') : i \in held' \/ i \in unread'
      <4>1. n <= n /\ n <= n + 1 /\ n + 1 .. n = {} /\ \A i \in n + 1 .. n + 1 : i = n + 1
        BY <3>2
      <4>2. reported' = n  BY <1>1, <1>7
      <4> HIDE DEF n
      <4>3. QED  BY <3>1, <4>1, <4>2
    <3>4. QED  BY <1>1, <3>3 DEF LineInv, SinkInv
  <2>8. QED  BY <2>4, <2>5, <2>6, <2>7 DEF LineInv
<1>11. QED  BY <1>9, <1>10

-----------------------------------------------------------------------------
\* What the front ends and the user do without touching what is held: the work
\* there was, or one action.
LEMMA FrontStays ==
  ASSUME LineInv, UNCHANGED <<rows, run, wire>>,
         work' = work \/ (work = <<>> /\ work' \in Effects),
         UNCHANGED <<closed, subscribed, held, view, stream, reported, printed, unread>>,
         stage' \in {"launch", "opening", "prompt", "sending", "pump", "grace", "gone"},
         stage' \in {"launch", "opening"} => stage' = stage,
         clock' \in {"none", "armed", "passed"}
  PROVE  LineInv'
<1>1. LineTypes /\ rows' = rows  BY DEF LineInv
<1>2. work' \in Seq(Items) /\ Alone(work') /\ Upto(work', rows') /\ Carried(work') = Carried(work)
  <2>1. CASE work' = work  BY <1>1, <2>1 DEF LineTypes
  <2>2. CASE work = <<>> /\ work' \in Effects
    <3>1. work' \in Seq(Items) /\ Alone(work') /\ Upto(work', rows) /\ Carried(work') = {}
      BY <1>1, <2>2, EffectsAre
    <3>2. Carried(<<>>) = {}  BY DEF Carried, Range
    <3>3. QED  BY <1>1, <2>2, <3>1, <3>2
  <2>3. QED  BY <2>1, <2>2
<1>3. /\ rows' \in 0 .. MaxRows /\ rows <= rows' /\ run' \in Runs
      /\ wire' \in Seq(Frames) /\ Upto(wire', rows')
      /\ \A base \in 0 .. rows : subscribed /\ Follows(wire, base, rows, ~closed) =>
           Follows(wire', base, rows', ~closed)
  BY <1>1, DaemonStays
<1>4. QED  BY <1>2, <1>3, CoreStays

\* A session is named, or none is: nothing is held nor printed.
LEMMA ResetStep ==
  ASSUME Line!HeadlessAssumption, LineInv, work = <<>>, NEW named, Line!Reset(named), Line!Unmoved,
         work' \in Effects, stage' = "opening", clock' = clock
  PROVE  LineInv'
<1>1. /\ LineTypes /\ UNCHANGED <<rows, run, wire, closed, unread>>
      /\ held' = {} /\ view' = Line!NoRun /\ stream' = "inactive" /\ subscribed' = FALSE
      /\ reported' = 0 /\ printed' = <<>>
  BY DEF Line!Reset, Line!Unmoved, Line!daemon, LineInv
<1>2. work' \in Seq(Items) /\ Alone(work') /\ Upto(work', rows) /\ Carried(work') = {}
  BY <1>1, EffectsAre
<1>3. Line!NoRun \in Runs /\ Cardinality({}) = 0 /\ 0 <= Retained /\ Line!Newest({}) = 0
  BY ItemsAre, FS_EmptySet DEF Line!HeadlessAssumption, Line!Newest
<1>4. LineTypes'
  <2>1. Upto(work', rows')  BY <1>1, <1>2
  <2>2. held' \subseteq 1 .. rows' /\ Cardinality(held') <= Retained  BY <1>1, <1>3
  <2>3. reported' \in Nat /\ printed' \in Seq(Nat) /\ view' \in Runs  BY <1>1, <1>3
  <2>4. QED  BY <1>1, <1>2, <2>1, <2>2, <2>3 DEF LineTypes
<1>5. WireInv' /\ FrameInv'  BY <1>1, <1>2 DEF WireInv, FrameInv
<1>6. SinkInv'
  <2>1. InOrder(<<>>, unread)  BY DEF InOrder
  <2>2. reported' <= Line!Newest(held') /\ reported' + 1 .. Line!Newest(held') = {}
    BY <1>1, <1>3
  <2>3. InOrder(printed', unread')  BY <1>1, <2>1
  <2>4. QED  BY <1>1, <2>2, <2>3 DEF SinkInv
<1>7. QED  BY <1>4, <1>5, <1>6 DEF LineInv

\* What the read carried is no news.
LEMMA OpenedStep ==
  ASSUME LineInv, Line!OpenEnds
  PROVE  LineInv'
<1>1. /\ LineTypes /\ stage = "opening" /\ work = <<>> /\ reported' = Line!Newest(held)
      /\ unread' = {} /\ stage' \in {"gone", "prompt"}
      /\ UNCHANGED <<rows, run, wire, closed, subscribed, work, held, view, stream, printed, clock>>
  BY DEF Line!OpenEnds, Line!At, Line!Quiet, Line!GoTo, Line!daemon, Line!channel, Line!core, LineInv
<1>2. printed = <<>>  BY <1>1 DEF LineInv, SinkInv
<1>3. Line!Newest(held) \in Nat /\ rows \in Nat  BY <1>1, BaseType
<1>4. LineTypes'  BY <1>1, <1>3 DEF LineTypes
<1>5. WireInv' /\ FrameInv'
  <2>1. Carried(work) = {}  BY <1>1 DEF Carried, Range
  <2>2. Base' = Base /\ Following' = Following  BY <1>1 DEF Base, Following
  <2>3. QED  BY <1>1, <2>1, <2>2 DEF LineInv, WireInv, FrameInv
<1>6. SinkInv'
  <2>1. InOrder(printed, {})  BY <1>2 DEF InOrder
  <2>2. reported' <= Line!Newest(held') /\ reported' + 1 .. Line!Newest(held') = {}
    BY <1>1, <1>3
  <2>3. QED  BY <1>1, <1>2, <2>1, <2>2 DEF SinkInv, InOrder
<1>7. QED  BY <1>4, <1>5, <1>6 DEF LineInv

\* The rows reported are the ones held after the last, in their order.
LEMMA ReportStep ==
  ASSUME Line!HeadlessAssumption, LineInv, Line!ReportPending
  PROVE  LineInv'
<1> DEFINE due == Line!Unreported
           q == Line!Within([i \in 1 .. rows |-> i], due)
           top == Line!Newest(held)
<1>1. /\ LineTypes /\ work = <<>> /\ due # {} /\ printed' = printed \o q /\ reported' = top
      /\ UNCHANGED <<rows, run, wire, closed, subscribed, work, held, view, stream, unread, clock, stage>>
      /\ stage \in {"pump", "grace"}
  BY DEF Line!ReportPending, Line!Pumping, Line!Quiet, Line!Unmoved, Line!daemon, Line!core,
    Line!loop, LineInv
<1>2. /\ rows \in Nat /\ held \subseteq 1 .. rows /\ reported \in Nat /\ printed \in Seq(Nat)
      /\ top \in 0 .. rows /\ top \in Nat
  BY <1>1, BaseType DEF LineTypes
<1>3. due = {i \in held : i > reported}  BY DEF Line!Unreported
<1>4. q = Within([i \in 1 .. rows |-> i], due)  BY DEF Line!Within, Within
<1> HIDE DEF q, top
<1>5. /\ q \in Seq(Nat) /\ Range(q) = due /\ \A a, b \in DOMAIN q : a < b => q[a] < q[b]
  <2>1. due \cap 1 .. rows = due  BY <1>2, <1>3
  <2>2. /\ q \in Seq(Nat) /\ Range(q) = due \cap 1 .. rows
        /\ \A a, b \in DOMAIN q : a < b => q[a] < q[b]
    <3> HIDE DEF due
    <3>1. /\ Within([i \in 1 .. rows |-> i], due) \in Seq(Nat)
          /\ Range(Within([i \in 1 .. rows |-> i], due)) = due \cap 1 .. rows
          /\ \A a, b \in DOMAIN Within([i \in 1 .. rows |-> i], due) :
               a < b => Within([i \in 1 .. rows |-> i], due)[a]
                          < Within([i \in 1 .. rows |-> i], due)[b]
      BY <1>2, RowsInOrder
    <3>2. QED  BY <1>4, <3>1
  <2>3. QED  BY <2>1, <2>2
<1>6. /\ \A i \in due : reported < i /\ i <= top /\ i \in Nat
      /\ \A i \in reported + 1 .. top : i \in due \/ i \in unread
  <2>5. \A i \in held : i \in Nat  BY <1>2
  <2>6. \A i \in held : i <= top  BY <1>2, NewestOf DEF top
  <2>1. \A i \in held : i <= top /\ i \in Nat  BY <2>5, <2>6
  <2>2. \A i \in reported + 1 .. top : i \in held \/ i \in unread
    BY DEF LineInv, SinkInv, top
  <2>3. \A i \in reported + 1 .. top : i > reported  BY <1>2
  <2>4. QED  BY <1>2, <1>3, <2>1, <2>2, <2>3
<1>7. top \in due
  <2>1. held # {}  BY <1>1, <1>3
  <2>2. top \in held  BY <1>2, <2>1, NewestOf DEF top
  <2>3. PICK i \in due : TRUE  BY <1>1
  <2>4. reported < i /\ i <= top /\ i \in Nat  BY <1>6, <2>3
  <2>5. reported < top  BY <1>2, <2>4
  <2>6. QED  BY <1>2, <1>3, <2>2, <2>5
<1> DEFINE l == Len(printed)
           m == Len(q)
           new == printed \o q
<1>8. /\ l \in Nat /\ m \in Nat /\ DOMAIN q = 1 .. m /\ new \in Seq(Nat) /\ Len(new) = l + m
      /\ \A k \in 1 .. l : new[k] = printed[k] /\ printed[k] \in Nat
      /\ \A k \in 1 .. m : new[l + k] = q[k] /\ q[k] \in Nat
  BY <1>2, <1>5, ConcatProperties
<1>9. (\A k \in 1 .. m : q[k] \in due) /\ \A i \in due : \E k \in 1 .. m : q[k] = i
  BY <1>5, <1>8 DEF Range
<1> HIDE DEF due, l, m, new
<1>10. m > 0 /\ q[m] = top
  <2>1. PICK k \in 1 .. m : q[k] = top  BY <1>7, <1>9
  <2>2. m > 0 /\ m \in 1 .. m  BY <1>8, <2>1
  <2>3. q[m] <= top  BY <1>6, <1>9, <2>2
  <2>4. k = m
    <3>1. CASE k < m
      <4>1. q[k] < q[m]  BY <1>5, <1>8, <2>1, <2>2, <3>1
      <4>2. QED  BY <1>2, <1>8, <2>1, <2>2, <2>3, <4>1
    <3>2. QED  BY <1>8, <2>1, <3>1
  <2>5. QED  BY <2>1, <2>2, <2>4
<1>11. ASSUME NEW k \in 2 .. m
       PROVE  q[k - 1] < q[k] /\ \A i \in q[k - 1] + 1 .. q[k] - 1 : i \in unread
  <2>1. k - 1 \in 1 .. m /\ k \in 1 .. m /\ k - 1 < k  BY <1>8, <1>11
  <2>2. q[k - 1] < q[k] /\ q[k - 1] \in due /\ q[k] \in due /\ q[k - 1] \in Nat /\ q[k] \in Nat
    BY <1>5, <1>8, <1>9, <2>1
  <2>3. ASSUME NEW i \in q[k - 1] + 1 .. q[k] - 1 PROVE i \in unread
    <3>1. i \in reported + 1 .. top /\ q[k - 1] < i /\ i < q[k]
      <4>1. reported < q[k - 1] /\ q[k] <= top  BY <1>6, <2>2
      <4>2. QED  BY <1>2, <2>2, <2>3, <4>1
    <3>2. i \notin due
      <4>1. SUFFICES ASSUME i \in due PROVE FALSE  OBVIOUS
      <4>2. PICK j \in 1 .. m : q[j] = i  BY <1>9, <4>1
      <4>3. j <= k - 1 \/ k <= j  BY <1>8, <1>11, <4>2
      <4>4. CASE j <= k - 1
        <5>1. j = k - 1 \/ j < k - 1  BY <1>8, <1>11, <4>2, <4>4
        <5>2. q[j] = q[k - 1] \/ q[j] < q[k - 1]  BY <1>5, <1>8, <2>1, <4>2, <5>1
        <5>3. i \in Nat /\ q[k - 1] \in Nat /\ (i = q[k - 1] \/ i < q[k - 1]) /\ q[k - 1] < i
          BY <1>6, <2>2, <3>1, <4>1, <4>2, <5>2
        <5>4. QED  BY <5>3
      <4>5. CASE k <= j
        <5>1. j = k \/ k < j  BY <1>8, <1>11, <4>2, <4>5
        <5>2. q[j] = q[k] \/ q[k] < q[j]  BY <1>5, <1>8, <2>1, <4>2, <5>1
        <5>3. i \in Nat /\ q[k] \in Nat /\ (i = q[k] \/ q[k] < i) /\ i < q[k]
          BY <1>6, <2>2, <3>1, <4>1, <4>2, <5>2
        <5>4. QED  BY <5>3
      <4>6. QED  BY <4>3, <4>4, <4>5
    <3>3. QED  BY <1>6, <3>1, <3>2
  <2>4. QED  BY <2>2, <2>3
<1>12. ASSUME l > 0
       PROVE  printed[l] < q[1] /\ \A i \in printed[l] + 1 .. q[1] - 1 : i \in unread
  <2>1. printed[l] = reported
    <3>1. printed # <<>>  BY <1>12 DEF l
    <3>2. QED  BY <3>1 DEF LineInv, SinkInv, l
  <2>2. 1 \in 1 .. m /\ q[1] \in due /\ q[1] \in Nat  BY <1>8, <1>9, <1>10
  <2>3. reported < q[1] /\ q[1] <= top  BY <1>6, <2>2
  <2>4. ASSUME NEW i \in reported + 1 .. q[1] - 1 PROVE i \in unread
    <3>1. i \in reported + 1 .. top /\ i < q[1]  BY <1>2, <2>2, <2>3, <2>4
    <3>2. i \notin due
      <4>1. SUFFICES ASSUME i \in due PROVE FALSE  OBVIOUS
      <4>2. PICK j \in 1 .. m : q[j] = i  BY <1>9, <4>1
      <4>3. j = 1 \/ 1 < j  BY <1>8, <4>2
      <4>4. q[j] = q[1] \/ q[1] < q[j]  BY <1>5, <1>8, <2>2, <4>2, <4>3
      <4>5. QED  BY <1>8, <2>2, <3>1, <4>2, <4>4
    <3>3. QED  BY <1>6, <3>1, <3>2
  <2>5. QED  BY <2>1, <2>3, <2>4
<1>13. InOrder(new, unread)
  <2>1. InOrder(printed, unread)  BY DEF LineInv, SinkInv
  <2>2. SUFFICES ASSUME NEW k \in 2 .. l + m
                 PROVE  new[k - 1] < new[k] /\ \A i \in new[k - 1] + 1 .. new[k] - 1 : i \in unread
    BY <1>8 DEF InOrder
  <2>3. CASE k <= l
    <3>1. k \in 2 .. l /\ k - 1 \in 1 .. l /\ k \in 1 .. l  BY <1>8, <2>2, <2>3
    <3>2. new[k - 1] = printed[k - 1] /\ new[k] = printed[k]  BY <1>8, <3>1
    <3>3. QED  BY <2>1, <3>1, <3>2 DEF InOrder, l
  <2>4. CASE k = l + 1
    <3>1. l > 0 /\ k - 1 = l /\ l \in 1 .. l /\ 1 \in 1 .. m  BY <1>8, <1>10, <2>2, <2>4
    <3>2. new[k - 1] = printed[l] /\ new[k] = q[1]  BY <1>8, <2>4, <3>1
    <3>3. QED  BY <1>12, <3>1, <3>2
  <2>5. CASE k > l + 1
    <3>1. k - l \in 2 .. m /\ k - l \in 1 .. m /\ (k - l) - 1 \in 1 .. m /\ l + (k - l) = k
          /\ l + ((k - l) - 1) = k - 1
      BY <1>8, <2>2, <2>5
    <3>2. new[k - 1] = q[(k - l) - 1] /\ new[k] = q[k - l]  BY <1>8, <3>1
    <3>3. QED  BY <1>11, <3>1, <3>2
  <2>6. QED  BY <1>8, <2>2, <2>3, <2>4, <2>5
<1>14. new # <<>> /\ new[Len(new)] = top
  <2>1. m \in 1 .. m /\ l + m > 0  BY <1>8, <1>10
  <2>2. QED  BY <1>8, <1>10, <2>1
<1>15. SinkInv'
  <2>1. reported' <= Line!Newest(held') /\ reported' + 1 .. Line!Newest(held') = {}
    <3>1. reported' = top /\ Line!Newest(held') = top  BY <1>1 DEF top
    <3>2. QED  BY <1>2, <3>1
  <2>2. printed' = new /\ stage' \notin {"launch", "opening"}  BY <1>1 DEF new
  <2>3. InOrder(printed', unread') /\ printed'[Len(printed')] = reported'
    BY <1>1, <1>13, <1>14, <2>2
  <2>4. QED  BY <2>1, <2>2, <2>3 DEF SinkInv
<1>16. LineTypes'  BY <1>1, <1>2, <1>8 DEF LineTypes, new
<1>17. WireInv' /\ FrameInv'
  <2>1. Carried(work) = {}  BY <1>1 DEF Carried, Range
  <2>2. Base' = Base /\ Following' = Following  BY <1>1 DEF Base, Following
  <2>3. QED  BY <1>1, <2>1, <2>2 DEF LineInv, WireInv, FrameInv
<1>18. QED  BY <1>15, <1>16, <1>17 DEF LineInv

-----------------------------------------------------------------------------
\* A frame is taken from the wire only when everything held is reported.
LEMMA TakeFrame ==
  ASSUME LineInv, Line!Frame
  PROVE  LineInv'
<1> DEFINE f == Head(wire)
<1>1. /\ LineTypes /\ work = <<>> /\ wire # <<>> /\ subscribed /\ Line!Unreported = {}
      /\ work' = <<f>> /\ wire' = Tail(wire)
      /\ UNCHANGED <<rows, run, closed, subscribed, held, view, stream, reported, printed, unread, clock, stage>>
  BY DEF Line!Frame, Line!Receives, Line!Waiting, Line!Pumping, Line!Quiet, Line!Start, Line!daemon,
    Line!core, Line!sink, Line!loop, LineInv
<1>2. /\ rows \in Nat /\ held \subseteq 1 .. rows /\ reported \in Nat /\ Base \in 0 .. rows
      /\ Base \in Nat /\ Line!Newest(held) \in 0 .. rows
  BY <1>1, BaseType DEF LineTypes
<1>3. /\ f \in Frames /\ f \in Items /\ f.kind = "frame" /\ f \in Range(wire)
      /\ Tail(wire) \in Seq(Frames) /\ Range(Tail(wire)) \subseteq Range(wire)
  <2>1. wire \in Seq(Frames)  BY <1>1 DEF LineTypes
  <2>2. f \in Frames /\ f \in Range(wire) /\ Tail(wire) \in Seq(Frames)
        /\ Range(Tail(wire)) \subseteq Range(wire)
    BY <1>1, <2>1, RangeOfTail
  <2>3. QED  BY <2>2, ItemsAre DEF Frames
<1>4. f.read \subseteq 1 .. rows /\ Upto(Tail(wire), rows)
  BY <1>1, <1>3 DEF LineTypes, Upto
<1>5. \A i \in held : i <= reported  BY <1>1, <1>2 DEF Line!Unreported
<1> HIDE DEF f
<1>6. /\ work' \in Seq(Items) /\ Alone(work') /\ Upto(work', rows) /\ Carried(work') = {f}
  <2>1. f.kind \in Carriers  BY <1>3 DEF Carriers
  <2>2. QED  BY <1>1, <1>3, <1>4, <2>1, WorkOf
<1>7. LineTypes'  BY <1>1, <1>3, <1>4, <1>6 DEF LineTypes
<1>8. Carried(work) = {}  BY <1>1 DEF Carried, Range
<1>9. Base = Line!Newest(held)
  <2>1. held \cup UNION {it.read : it \in Carried(work)} = held  BY <1>8
  <2>2. QED  BY <2>1 DEF Base
<1>10. Base' = Line!Newest(held \cup f.read)
  <2>1. UNION {it.read : it \in Carried(work')} = f.read  BY <1>6
  <2>2. QED  BY <1>1, <2>1 DEF Base
<1>11. Following' => stream = "live" /\ Following
  BY <1>1, <1>3, <1>6 DEF Following
<1>12. ASSUME stream = "live"
       PROVE  /\ f.read \subseteq {Line!Newest(held) + 1}
              /\ Follows(Tail(wire), Line!Newest(held \cup f.read), rows, ~closed)
  <2> DEFINE n == Line!Newest(held)
  <2>1. Following  BY <1>12 DEF Following
  <2>2. Follows(wire, n, rows, ~closed) /\ n \in Nat  BY <1>1, <1>2, <1>9, <2>1 DEF LineInv, WireInv
  <2>3. wire \in Seq(Frames) /\ (~closed) \in BOOLEAN  BY <1>1 DEF LineTypes
  <2> HIDE DEF n
  <2>4. \/ f.read = {} /\ Follows(Tail(wire), n, rows, ~closed)
        \/ /\ f.read = {n + 1} /\ n + 1 <= rows
           /\ Follows(Tail(wire), n + 1, rows, ~closed)
    BY <1>1, <1>2, <2>2, <2>3, FrameTaken DEF f
  <2>5. CASE f.read = {} /\ Follows(Tail(wire), n, rows, ~closed)
    <3>1. held \cup f.read = held  BY <2>5
    <3>2. QED  BY <2>5, <3>1 DEF n
  <2>6. CASE f.read = {n + 1} /\ n + 1 <= rows /\ Follows(Tail(wire), n + 1, rows, ~closed)
    <3>1. n + 1 \in held \cup f.read /\ held \cup f.read \subseteq 1 .. rows  BY <1>2, <1>4, <2>6
    <3>2. \A i \in held : i <= n  BY <1>2, NewestOf DEF n
    <3>3. \A i \in held \cup f.read : i <= n + 1
      <4>1. \A i \in held : i \in Nat  BY <1>2
      <4>2. QED  BY <2>2, <2>6, <3>2, <4>1
    <3>4. Line!Newest(held \cup f.read) = n + 1  BY <1>2, <3>1, <3>3, NewestIs
    <3>5. QED  BY <2>6, <3>4 DEF n
  <2>7. QED  BY <2>4, <2>5, <2>6
<1>13. WireInv'  BY <1>1, <1>10, <1>11, <1>12 DEF WireInv
<1>14. FrameInv'  BY <1>1, <1>5, <1>6, <1>12 DEF FrameInv
<1>15. SinkInv'  BY <1>1 DEF LineInv, SinkInv
<1>16. QED  BY <1>7, <1>13, <1>14, <1>15 DEF LineInv

\* The end of the subscription, for the driver or for the daemon.
LEMMA StreamGone ==
  ASSUME LineInv, Line!StreamEnds \/ Line!SubscriptionCloses
  PROVE  LineInv'
<1>1. CASE Line!StreamEnds
  <2>1. /\ LineTypes /\ work = <<>> /\ work' = <<Line!Item("lost")>> /\ subscribed' = FALSE
        /\ UNCHANGED <<rows, run, wire, closed, held, view, stream, reported, printed, unread, clock, stage>>
    BY <1>1 DEF Line!StreamEnds, Line!Receives, Line!Waiting, Line!Pumping, Line!Quiet, Line!Start,
      Line!Unmoved, Line!daemon, Line!core, Line!sink, Line!loop, LineInv
  <2>2. work' \in Effects
    <3>1. "lost" \in Kinds \ Carriers  BY DEF Kinds, Carriers
    <3>2. QED  BY <2>1, <3>1 DEF Effects
  <2>3. work' \in Seq(Items) /\ Alone(work') /\ Upto(work', rows) /\ Carried(work') = {}
    BY <2>1, <2>2, EffectsAre
  <2>4. LineTypes'  BY <2>1, <2>3 DEF LineTypes
  <2>5. WireInv' /\ FrameInv'  BY <2>1, <2>3 DEF WireInv, FrameInv
  <2>6. SinkInv'  BY <2>1 DEF LineInv, SinkInv
  <2>7. QED  BY <2>4, <2>5, <2>6 DEF LineInv
<1>2. CASE Line!SubscriptionCloses
  <2>1. /\ LineTypes /\ closed' = TRUE
        /\ UNCHANGED <<rows, run, wire, subscribed, work, held, view, stream, reported, printed, unread, clock, stage>>
    BY <1>2 DEF Line!SubscriptionCloses, Line!daemon, Line!core, Line!sink, Line!loop, LineInv
  <2>2. LineTypes'  BY <2>1 DEF LineTypes
  <2>3. WireInv'
    <3>1. Base' = Base /\ Following' = Following  BY <2>1 DEF Base, Following
    <3>2. QED  BY <2>1, <3>1 DEF LineInv, WireInv, Follows
  <2>4. FrameInv' /\ SinkInv'  BY <2>1 DEF LineInv, FrameInv, SinkInv
  <2>5. QED  BY <2>2, <2>3, <2>4 DEF LineInv
<1>3. QED  BY <1>1, <1>2

\* The daemon of itself.
LEMMA DaemonStep ==
  ASSUME Line!HeadlessAssumption, LineInv, Line!RunStarts \/ Line!RowCommits \/ Line!RunEnds
  PROVE  LineInv'
<1>1. /\ LineTypes
      /\ UNCHANGED <<closed, subscribed, work, held, view, stream, reported, printed, unread, clock, stage>>
  BY DEF Line!RunStarts, Line!RowCommits, Line!RunEnds, Line!core, Line!sink, Line!loop, LineInv
<1>2. \/ Line!Opens
      \/ /\ run.live /\ rows < MaxRows /\ rows' = rows + 1 /\ run' = run
         /\ Line!Publish(<<Line!RowFrame(rows + 1)>>)
      \/ Line!Ends /\ rows' = rows
  BY DEF Line!RunStarts, Line!RowCommits, Line!RunEnds
<1>3. /\ rows' \in 0 .. MaxRows /\ rows <= rows' /\ run' \in Runs
      /\ wire' \in Seq(Frames) /\ Upto(wire', rows')
      /\ \A base \in 0 .. rows : subscribed /\ Follows(wire, base, rows, ~closed) =>
           Follows(wire', base, rows', ~closed)
  BY <1>1, <1>2, DaemonGoesOn
<1>4. work' \in Seq(Items) /\ Alone(work') /\ Upto(work', rows') /\ Carried(work') = Carried(work)
  <2>1. rows \in Nat /\ rows' \in Nat  BY <1>1, <1>3 DEF LineTypes
  <2>2. 1 .. rows \subseteq 1 .. rows'  BY <1>3, <2>1
  <2>3. QED  BY <1>1, <2>2 DEF LineTypes, Upto
<1>5. /\ stage' \in {"launch", "opening", "prompt", "sending", "pump", "grace", "gone"}
      /\ clock' \in {"none", "armed", "passed"}
  BY <1>1 DEF LineTypes
<1>6. QED  BY <1>1, <1>3, <1>4, <1>5, CoreStays

\* The waits, the prompts and the signals.
LEMMA FrontStep ==
  ASSUME Line!HeadlessAssumption, LineInv,
         Line!FrontEnd \/ Line!ShowSession \/ Line!Leave \/ Line!Interrupted \/ Line!Tick
  PROVE  LineInv'
<1>1. LineTypes  BY DEF LineInv
<1>2. /\ <<>> \in Effects /\ <<Line!Item("turn")>> \in Effects /\ <<Line!Item("cancel")>> \in Effects
      /\ <<Line!Item("OpenSession")>> \in Effects /\ <<Line!Item("bootstrapped")>> \in Effects
  BY DEF Effects, Kinds, Carriers
<1>3. Line!Onward \in {"prompt", "gone"}  BY DEF Line!Onward
<1> USE <1>1, <1>2, <1>3 DEF Line!At, Line!Quiet, Line!GoTo, Line!Start, Line!Unmoved, Line!daemon,
      Line!core, Line!sink, Line!loop, Line!Waiting, Line!Pumping, Line!Returned
<1>4. CASE Line!Launch
  <2>1. CASE Line!Reset(TRUE) /\ stage' = "opening" /\ work' = <<Line!Item("OpenSession")>>
    <3>1. work = <<>> /\ clock' = clock /\ Line!Unmoved  BY <1>4 DEF Line!Launch
    <3>2. QED  BY <2>1, <3>1, ResetStep
  <2>2. CASE Line!Reset(FALSE) /\ stage' = "opening" /\ work' = <<Line!Item("bootstrapped")>>
    <3>1. work = <<>> /\ clock' = clock /\ Line!Unmoved  BY <1>4 DEF Line!Launch
    <3>2. QED  BY <2>2, <3>1, ResetStep
  <2>3. CASE stage' = "prompt" /\ UNCHANGED <<subscribed, Line!core, Line!sink, work, failure>>
    <3>1. UNCHANGED <<rows, run, wire, closed, subscribed, work, held, view, stream, reported, printed, unread, clock>>
      BY <1>4, <2>3 DEF Line!Launch
    <3>2. clock' \in {"none", "armed", "passed"}  BY <3>1 DEF LineTypes
    <3>3. QED  BY <2>3, <3>1, <3>2, FrontStays
  <2>4. QED  BY <1>4, <2>1, <2>2, <2>3 DEF Line!Launch
<1>5. CASE Line!ShowSession
  <2>1. /\ work = <<>> /\ Line!Reset(TRUE) /\ stage' = "opening" /\ Line!Unmoved /\ clock' = clock
        /\ work' = <<Line!Item("OpenSession")>>
    BY <1>5 DEF Line!ShowSession
  <2>2. QED  BY <2>1, ResetStep
<1>6. ASSUME UNCHANGED <<rows, run, wire, closed, subscribed, held, view, stream, reported, printed, unread>>,
             work' = work \/ (work = <<>> /\ work' \in Effects),
             stage' = stage \/ stage' \in {"prompt", "sending", "pump", "grace", "gone"},
             clock' = clock \/ clock' \in {"none", "armed", "passed"}
      PROVE  LineInv'
  <2>1. /\ stage' \in {"launch", "opening", "prompt", "sending", "pump", "grace", "gone"}
        /\ stage' \in {"launch", "opening"} => stage' = stage
        /\ clock' \in {"none", "armed", "passed"}
    BY <1>6 DEF LineTypes
  <2>2. QED  BY <1>6, <2>1, FrontStays
<1>7. CASE Line!Prompt  BY <1>6, <1>7 DEF Line!Prompt
<1>8. CASE Line!Sent  BY <1>6, <1>8 DEF Line!Sent
<1>9. CASE Line!Leave  BY <1>6, <1>9 DEF Line!Leave
<1>10. CASE Line!Drain  BY <1>6, <1>10 DEF Line!Drain
<1>11. CASE Line!RunReported  BY <1>6, <1>11 DEF Line!RunReported
<1>12. CASE Line!DeadlinePasses  BY <1>6, <1>12 DEF Line!DeadlinePasses
<1>13. CASE Line!TimedOut  BY <1>6, <1>13 DEF Line!TimedOut
<1>14. CASE Line!Tick  BY <1>6, <1>14 DEF Line!Tick
<1>15. CASE Line!Interrupted  BY <1>6, <1>15 DEF Line!Interrupted, Line!Receives
<1>16. CASE Line!Unobserved  BY <1>6, <1>16 DEF Line!Unobserved
<1>17. QED
  BY <1>4, <1>5, <1>7, <1>8, <1>9, <1>10, <1>11, <1>12, <1>13, <1>14, <1>15, <1>16, OpenedStep,
    ReportStep, TakeFrame, StreamGone DEF Line!FrontEnd

LEMMA LineStep ==
  ASSUME Line!HeadlessAssumption, LineInv, [Line!Next]_(Line!vars)
  PROVE  LineInv'
<1>1. CASE UNCHANGED Line!vars
  <2>1. UNCHANGED <<rows, run, wire, closed, subscribed, work, held, view, stream, reported, printed,
                    unread, stage, clock>>
    BY <1>1 DEF Line!vars, Line!daemon, Line!channel, Line!core, Line!sink, Line!loop
  <2>2. LineTypes' /\ Base' = Base /\ Following' = Following
    BY <2>1 DEF LineInv, LineTypes, Base, Following
  <2>3. QED  BY <2>1, <2>2 DEF LineInv, WireInv, FrameInv, SinkInv
<1>2. CASE Line!Perform  BY <1>2, PerformStep, SubscribeStep
<1>3. CASE Line!Update  BY <1>3, UpdateStep, ReadStep, FrameStep
<1>4. CASE Line!FrontEnd \/ Line!User \/ Line!Tick  BY <1>4, FrontStep DEF Line!User
<1>5. CASE Line!RunStarts \/ Line!RowCommits \/ Line!RunEnds  BY <1>5, DaemonStep
<1>6. CASE Line!SubscriptionCloses  BY <1>6, StreamGone
<1>7. QED  BY <1>1, <1>2, <1>3, <1>4, <1>5, <1>6 DEF Line!Next, Line!Driver

LEMMA RowsReported ==
  ASSUME Line!HeadlessAssumption, LineInv
  PROVE  Line!TypeOK /\ Line!RowsAreReportedOnce
<1>1. Line!RowsAreReportedOnce
  BY DEF LineInv, SinkInv, InOrder, Line!RowsAreReportedOnce
<1>2. LineTypes /\ MaxRows \in Nat /\ rows \in 0 .. MaxRows  BY DEF LineInv, LineTypes, Line!HeadlessAssumption
<1>3. 1 .. rows \subseteq 1 .. MaxRows  BY <1>2
<1>4. Line!Cardinality(held) = Cardinality(held)  BY LineCount
<1>5. Line!TypeOK  BY <1>2, <1>3, <1>4 DEF LineTypes, Line!TypeOK
<1>6. QED  BY <1>1, <1>5

-----------------------------------------------------------------------------
(* The band of the input line ranks the word of the caret.                 *)

\* InputLine
band == x1
pastes == x2
cursor == x3
history == x4
position == x5
draft == x6
sent == x8
edits == x9
USE DEF band, pastes, cursor, history, position, draft, sent, edits

\* What a band is, if there is one.
Ranking(b) == b = <<>> \/ \E k, f, h : b = <<[kind |-> k, filter |-> f, highlight |-> h]>>

InputInv == Ranking(band) /\ Input!BandFollowsTheLine

LEMMA OpenedRanks ==
  ASSUME NEW s, NEW at
  PROVE  /\ Ranking(Input!Opened(s, at))
         /\ Input!Opened(s, at) # <<>> =>
              Input!RanksTheSame(Input!Opened(s, at), Input!Opened(s, at))
<1> DEFINE word == Input!WordAt(s, at)
           kind == word[1].kind
           filter == Input!Filter(s, word[1])
<1>1. Input!Opened(s, at) = <<>> \/ Input!Opened(s, at) = <<[kind |-> kind, filter |-> filter, highlight |-> 1]>>
  BY DEF Input!Opened
<1> HIDE DEF kind, filter
<1>2. QED  BY <1>1 DEF Ranking, Input!RanksTheSame

\* Every edit refreshes the band.
LEMMA BecomesKeeps ==
  ASSUME NEW s, NEW at, InputInv, Input!Becomes(s, at)
  PROVE  InputInv'
<1>1. line' = s /\ cursor' = at /\ band' = Input!Refreshed(s, at)  BY DEF Input!Becomes
<1> DEFINE menu == Input!Opened(Input!Text(s), at)
<1>2. /\ Ranking(menu) /\ (menu # <<>> => Input!RanksTheSame(menu, menu))
  BY OpenedRanks
<1>3. (band' = band /\ Input!RanksTheSame(band, menu)) \/ band' = menu
  BY <1>1 DEF Input!Refreshed
<1>4. menu = Input!Opened(Input!Text(line'), cursor')  BY <1>1
<1> HIDE DEF menu
<1>5. Ranking(band')  BY <1>2, <1>3 DEF InputInv
<1>6. band' # <<>> => Input!RanksTheSame(band', menu)  BY <1>2, <1>3
<1>7. Input!BandFollowsTheLine'
  BY <1>4, <1>6 DEF Input!BandFollowsTheLine, Input!Text
<1>8. QED  BY <1>5, <1>7 DEF InputInv, Ranking

\* A band that is gone ranks nothing.
LEMMA BandGone ==
  ASSUME band' = <<>>
  PROVE  InputInv'
BY DEF InputInv, Ranking, Input!BandFollowsTheLine

LEMMA MenuMoves ==
  ASSUME InputInv, Input!MoveMenu
  PROVE  InputInv'
<1>1. PICK at : band' = <<[band[1] EXCEPT !.highlight = at]>>  BY DEF Input!MoveMenu
<1>2. band # <<>> /\ line' = line /\ cursor' = cursor  BY DEF Input!MoveMenu
<1>3. PICK k, f, h : band = <<[kind |-> k, filter |-> f, highlight |-> h]>>
  BY <1>2 DEF InputInv, Ranking
<1> DEFINE b == [kind |-> k, filter |-> f, highlight |-> h]
           c == [kind |-> k, filter |-> f, highlight |-> at]
<1>4. [b EXCEPT !.highlight = at] = c  OBVIOUS
<1>5. band[1] = b  BY <1>3
<1>6. band' = <<c>>  BY <1>1, <1>4, <1>5
<1>7. Ranking(band')  BY <1>6 DEF Ranking
<1>8. Input!RanksTheSame(<<b>>, Input!Opened(Input!Text(line), cursor))
  BY <1>2, <1>3 DEF InputInv, Input!BandFollowsTheLine
<1>9. Input!RanksTheSame(<<c>>, Input!Opened(Input!Text(line), cursor))
  BY <1>8 DEF Input!RanksTheSame
<1>10. Input!BandFollowsTheLine'
  BY <1>2, <1>6, <1>9 DEF Input!BandFollowsTheLine, Input!Text
<1>11. QED  BY <1>7, <1>10 DEF InputInv, Ranking

LEMMA InputInit == Input!Init => InputInv
BY DEF Input!Init, InputInv, Ranking, Input!BandFollowsTheLine

LEMMA InputStep ==
  ASSUME InputInv, [Input!Next]_(Input!vars)
  PROVE  InputInv'
<1>1. CASE UNCHANGED Input!vars
  <2>1. UNCHANGED <<band, line, cursor>>  BY <1>1 DEF Input!vars
  <2>2. QED  BY <2>1 DEF InputInv, Ranking, Input!BandFollowsTheLine, Input!Text
<1>2. ASSUME NEW s, Input!Insert(s) PROVE InputInv'
  BY <1>2, BecomesKeeps DEF Input!Insert
<1>3. CASE \E c \in Input!Typeable : Input!InputChar(c)  BY <1>2, <1>3 DEF Input!InputChar
<1>4. CASE Input!InputPasted  BY <1>2, <1>4 DEF Input!InputPasted
<1>5. CASE Input!InputBackspace  BY <1>5, BecomesKeeps DEF Input!InputBackspace
<1>6. CASE Input!MoveCursor
  <2>1. ASSUME NEW at, Input!Moved(at) PROVE InputInv'
    BY <2>1, BecomesKeeps DEF Input!Moved
  <2>2. QED  BY <1>6, <2>1 DEF Input!MoveCursor
<1>7. CASE Input!Accept  BY <1>7, BecomesKeeps DEF Input!Accept
<1>8. CASE Input!AcceptMenu \/ Input!EnterCompletes
  BY <1>7, <1>8 DEF Input!AcceptMenu, Input!EnterCompletes
<1>9. ASSUME NEW s, Input!SetInput(s) PROVE InputInv'
  BY <1>9, BecomesKeeps DEF Input!SetInput
<1>10. CASE Input!RecallOlder  BY <1>9, <1>10 DEF Input!RecallOlder
<1>11. CASE Input!RecallNewer  BY <1>9, <1>11 DEF Input!RecallNewer
<1>12. CASE Input!InsertLineBreak  BY <1>12, BecomesKeeps DEF Input!InsertLineBreak
<1>13. CASE Input!ClearInput  BY <1>13, BandGone DEF Input!ClearInput
<1>14. CASE Input!ClearIntoHistory \/ Input!SubmitCommand \/ Input!SubmitPrompt
  BY <1>13, <1>14 DEF Input!ClearIntoHistory, Input!SubmitCommand, Input!SubmitPrompt, Input!Submits
<1>15. CASE Input!CloseMenu  BY <1>15, BandGone DEF Input!CloseMenu
<1>16. QED
  BY <1>1, <1>3, <1>4, <1>5, <1>6, <1>8, <1>10, <1>11, <1>12, <1>14, <1>15, MenuMoves
  DEF Input!Next

-----------------------------------------------------------------------------
(* The rows of the browser and the theme that is painted.                  *)

\* Pickers
durable == x1
stored == x4
queue == x5
reports == x6
screen == x7
sessions == x8
loaded == x9
tab == x11
theme == x12
filter == x13
preview == x14
unknown == x15
USE DEF durable, stored, queue, reports, screen, sessions, loaded, tab, theme, filter,
        preview, unknown

Palette == {AllThemes[i] : i \in DOMAIN AllThemes}
Errands == [kind : {"settings", "list", "open", "theme"}, what : Palette \cup Sessions \cup {NoTheme}]
Replies == [kind : {"listed"}, what : Seq(Sessions)]
           \cup [kind : {"failed", "settings_failed"}, what : {NoTheme}]
           \cup [kind : {"settings"}, what : Palette]

PickTypes ==
  /\ durable \in Seq(Sessions) /\ sessions \in Seq(Sessions) /\ rows \in Seq(Sessions)
  /\ cursor \in Nat \ {0} /\ screen \in {"chat", "sessions", "theme"}
  /\ queue \in Seq(Errands) /\ reports \in Seq(Replies)
  /\ \A i \in DOMAIN queue : queue[i].kind = "theme" => queue[i].what \in Palette
  /\ theme \in Palette /\ stored \in Palette /\ preview \in Palette \cup {NoTheme}

\* What the application will hold, when it has read what is reported: u.
Says(list, t, u) ==
  \/ u = t /\ \A i \in DOMAIN list : list[i].kind # "settings"
  \/ \E i \in DOMAIN list :
       /\ list[i].kind = "settings" /\ list[i].what = u
       /\ \A j \in DOMAIN list : j > i => list[j].kind # "settings"
Has(list, kinds) == \E i \in DOMAIN list : list[i].kind \in kinds

\* Its theme is becoming the stored one, and a candidate has its answer to come.
ThemeInv ==
  /\ Says(reports, theme, stored) \/ unknown \/ Has(queue, {"settings"})
  /\ screen # "theme" =>
       preview = NoTheme \/ Has(queue, {"theme"}) \/ Has(reports, {"settings", "settings_failed"})

PickInv == PickTypes /\ Pick!BrowserShowsTheList /\ ThemeInv

LEMMA PickWithin ==
  ASSUME NEW s, NEW T
  PROVE  Pick!Within(s, T) = Within(s, T)
BY DEF Pick!Within, Within

\* What is appended and what is read of a list of replies or errands.
LEMMA SaysNext ==
  ASSUME NEW S, NEW list \in Seq(S), NEW a \in S, NEW t
  PROVE  /\ Append(list, a) \in Seq(S)
         /\ a.kind = "settings" => Says(Append(list, a), t, a.what)
         /\ \A u : a.kind # "settings" /\ Says(list, t, u) => Says(Append(list, a), t, u)
         /\ \A K : a.kind \in K \/ Has(list, K) => Has(Append(list, a), K)
<1> DEFINE m == Append(list, a)
           n == Len(list)
<1>1. /\ m \in Seq(S) /\ n \in Nat /\ DOMAIN m = 1 .. n + 1 /\ DOMAIN list = 1 .. n
      /\ m[n + 1] = a /\ n + 1 \in 1 .. n + 1
      /\ \A i \in 1 .. n : m[i] = list[i] /\ i \in 1 .. n + 1
      /\ \A i \in 1 .. n + 1 : i \in 1 .. n \/ i = n + 1
      /\ \A i \in 1 .. n + 1 : ~(i > n + 1)
  OBVIOUS
<1> HIDE DEF m, n
<1>2. ASSUME a.kind = "settings" PROVE Says(m, t, a.what)
  BY <1>1, <1>2, Zenon DEF Says
<1>3. ASSUME NEW u, a.kind # "settings", Says(list, t, u) PROVE Says(m, t, u)
  <2>1. CASE u = t /\ \A i \in DOMAIN list : list[i].kind # "settings"
    BY <1>1, <1>3, <2>1 DEF Says
  <2>2. CASE \E i \in DOMAIN list :
               /\ list[i].kind = "settings" /\ list[i].what = u
               /\ \A j \in DOMAIN list : j > i => list[j].kind # "settings"
    BY <1>1, <1>3, <2>2 DEF Says
  <2>3. QED  BY <1>3, <2>1, <2>2 DEF Says
<1>4. ASSUME NEW K, a.kind \in K \/ Has(list, K) PROVE Has(m, K)
  BY <1>1, <1>4 DEF Has
<1>5. QED  BY <1>1, <1>2, <1>3, <1>4 DEF m

LEMMA SaysRest ==
  ASSUME NEW S, NEW list \in Seq(S), list # <<>>, NEW t, NEW u
  PROVE  /\ Tail(list) \in Seq(S) /\ Head(list) \in S
         /\ Head(list) = list[1] /\ 1 \in DOMAIN list
         /\ \A i \in DOMAIN Tail(list) : Tail(list)[i] = list[i + 1] /\ i + 1 \in DOMAIN list
         /\ Says(list, t, u) => Says(Tail(list), IF Head(list).kind = "settings"
                                                THEN Head(list).what ELSE t, u)
         /\ \A K : Has(list, K) => Head(list).kind \in K \/ Has(Tail(list), K)
<1> DEFINE m == Tail(list)
           n == Len(list)
           h == Head(list)
<1>1. /\ m \in Seq(S) /\ n \in Nat /\ n # 0 /\ DOMAIN m = 1 .. n - 1 /\ DOMAIN list = 1 .. n
      /\ h = list[1] /\ h \in S /\ 1 \in 1 .. n
      /\ \A i \in 1 .. n - 1 : m[i] = list[i + 1] /\ i + 1 \in 1 .. n /\ i + 1 > 1
  OBVIOUS
<1>2. \A i \in 1 .. n : i # 1 => i - 1 \in 1 .. n - 1 /\ (i - 1) + 1 = i  OBVIOUS
<1>3. \A i \in 1 .. n - 1, j \in 1 .. n : i > j - 1 => i + 1 > j  OBVIOUS
<1> HIDE DEF m, n, h
<1>4. ASSUME Says(list, t, u) PROVE Says(m, IF h.kind = "settings" THEN h.what ELSE t, u)
  <2>1. CASE \A i \in DOMAIN list : list[i].kind # "settings"
    BY <1>1, <1>4, <2>1 DEF Says
  <2>2. ASSUME NEW i \in 1 .. n, list[i].kind = "settings", list[i].what = u,
               \A j \in 1 .. n : j > i => list[j].kind # "settings"
        PROVE  Says(m, IF h.kind = "settings" THEN h.what ELSE t, u)
    <3>1. CASE i = 1
      <4>1. \A k \in DOMAIN m : m[k].kind # "settings"  BY <1>1, <2>2, <3>1
      <4>2. h.kind = "settings" /\ h.what = u  BY <1>1, <2>2, <3>1
      <4>3. QED  BY <4>1, <4>2 DEF Says
    <3>2. CASE i # 1
      <4>1. i - 1 \in DOMAIN m /\ m[i - 1] = list[i]  BY <1>1, <1>2, <3>2
      <4>2. \A k \in DOMAIN m : k > i - 1 => m[k].kind # "settings"  BY <1>1, <1>3, <2>2
      <4>3. QED  BY <2>2, <4>1, <4>2 DEF Says
    <3>3. QED  BY <3>1, <3>2
  <2>3. QED  BY <1>1, <1>4, <2>1, <2>2 DEF Says
<1>5. ASSUME NEW K, Has(list, K) PROVE h.kind \in K \/ Has(m, K)
  <2>1. PICK i \in 1 .. n : list[i].kind \in K  BY <1>1, <1>5 DEF Has
  <2>2. i # 1 => i - 1 \in DOMAIN m /\ m[i - 1] = list[i]  BY <1>1, <1>2
  <2>3. QED  BY <1>1, <2>1, <2>2 DEF Has
<1>6. QED  BY <1>1, <1>4, <1>5 DEF m, h

LEMMA PaletteTyped ==
  ASSUME Pick!PickersAssumption
  PROVE  /\ AllThemes \in Seq(Palette) /\ Len(AllThemes) > 0 /\ NoTheme \notin Palette
         /\ IsFiniteSet(Sessions)
<1>1. /\ AllThemes \in Seq(Pick!Range(AllThemes)) /\ Len(AllThemes) > 0
      /\ \A i \in DOMAIN AllThemes : AllThemes[i] # NoTheme
  BY DEF Pick!PickersAssumption
<1>2. Pick!Range(AllThemes) = Palette  BY DEF Pick!Range, Palette
<1>3. IsFiniteSet(Sessions)
  <2>1. Pick!IsFiniteSet(Sessions)  BY DEF Pick!PickersAssumption
  <2>2. QED  BY <2>1 DEF Pick!IsFiniteSet, IsFiniteSet
<1>4. QED  BY <1>1, <1>2, <1>3 DEF Palette

\* What a tab and a filter select of a list.
Chosen(t, f) == {s \in Sessions : ~Pick!Stub(t) /\ Pick!Matches(s, t, f)}

LEMMA SelectedIsWithin ==
  ASSUME NEW list \in Seq(Sessions), NEW t, NEW f
  PROVE  /\ Pick!Selected(list, t, f) = Within(list, Chosen(t, f))
         /\ Pick!Selected(list, t, f) \in Seq(Sessions)
<1>1. Within(list, Chosen(t, f)) \in Seq(Sessions)  BY WithinType
<1>2. CASE Pick!Stub(t)
  <2>1. Chosen(t, f) = {}  BY <1>2 DEF Chosen
  <2>2. Within(list, {}) = <<>>  BY WithinWhole
  <2>3. QED  BY <1>1, <1>2, <2>1, <2>2 DEF Pick!Selected
<1>3. CASE ~Pick!Stub(t)
  <2>1. Chosen(t, f) = {s \in Sessions : Pick!Matches(s, t, f)}  BY <1>3 DEF Chosen
  <2>2. Pick!Selected(list, t, f) = Pick!Within(list, {s \in Sessions : Pick!Matches(s, t, f)})
    BY <1>3 DEF Pick!Selected
  <2>3. QED  BY <1>1, <2>1, <2>2, PickWithin
<1>4. QED  BY <1>2, <1>3

\* The rows that are selected again have a cursor.
LEMMA RefreshKeeps ==
  ASSUME NEW list \in Seq(Sessions), NEW t, NEW f, NEW at \in Nat \ {0},
         Pick!Refresh(list, t, f, at), sessions' = list, tab' = t, filter' = f
  PROVE  rows' \in Seq(Sessions) /\ cursor' \in Nat \ {0} /\ Pick!BrowserShowsTheList'
<1>1. rows' = Pick!Selected(list, t, f) /\ cursor' = Pick!Clamp(at, rows')  BY DEF Pick!Refresh
<1>2. rows' = Within(list, Chosen(t, f)) /\ rows' \in Seq(Sessions)  BY <1>1, SelectedIsWithin
<1>3. cursor' \in Nat \ {0} /\ (rows' # <<>> => cursor' \in DOMAIN rows')
  <2>1. rows' # <<>> => Len(rows') > 0  BY <1>2
  <2>2. Len(rows') \in Nat /\ DOMAIN rows' = 1 .. Len(rows')  BY <1>2
  <2>3. cursor' = IF at <= Len(rows') THEN at ELSE IF rows' = <<>> THEN 1 ELSE Len(rows')
    BY <1>1 DEF Pick!Clamp
  <2>4. QED  BY <2>1, <2>2, <2>3
<1>4. Pick!Within(list, Chosen(t, f)) = Within(list, Chosen(t, f))  BY PickWithin
<1>5. rows' = Pick!Within(sessions', {s \in Sessions : ~Pick!Stub(tab') /\ Pick!Matches(s, tab', filter')})
  BY <1>2, <1>4 DEF Chosen
<1>6. Pick!BrowserShowsTheList'
  BY <1>3, <1>5 DEF Pick!BrowserShowsTheList, Pick!Stub, Pick!Matches, Pick!FuzzyMatch
<1>7. QED  BY <1>2, <1>3, <1>6

LEMMA BrowserStays ==
  ASSUME PickInv, screen' = "sessions" => screen = "sessions" /\ UNCHANGED <<sessions, tab, filter, rows>>,
         screen' = "sessions" /\ rows # <<>> => cursor' \in DOMAIN rows
  PROVE  Pick!BrowserShowsTheList'
BY DEF PickInv, Pick!BrowserShowsTheList, Pick!Stub, Pick!Matches, Pick!FuzzyMatch

\* The queue grows by an errand, or stays.
QueueGrows ==
  /\ queue' \in Seq(Errands)
  /\ \A i \in DOMAIN queue' : queue'[i].kind = "theme" => queue'[i].what \in Palette
  /\ \A K : Has(queue, K) => Has(queue', K)

LEMMA AskGrows ==
  ASSUME PickTypes, NEW kind, NEW what, Pick!Ask(kind, what),
         [kind |-> kind, what |-> what] \in Errands, kind = "theme" => what \in Palette
  PROVE  QueueGrows /\ \A K : kind \in K => Has(queue', K)
<1> DEFINE a == [kind |-> kind, what |-> what]
<1>1. queue' = Append(queue, a) /\ queue \in Seq(Errands) /\ a.kind = kind /\ a.what = what
  BY DEF Pick!Ask, PickTypes
<1>2. a \in Errands  OBVIOUS
<1> HIDE DEF a
<1>3. queue' \in Seq(Errands) /\ \A K : a.kind \in K \/ Has(queue, K) => Has(queue', K)
  BY <1>1, <1>2, SaysNext
<1>4. \A i \in DOMAIN queue' : (i \in DOMAIN queue /\ queue'[i] = queue[i]) \/ queue'[i] = a
  BY <1>1, <1>2
<1>5. QED  BY <1>1, <1>3, <1>4 DEF QueueGrows, PickTypes

LEMMA NothingAsked ==
  ASSUME PickTypes, Pick!AskNothing
  PROVE  QueueGrows
BY DEF Pick!AskNothing, QueueGrows, PickTypes, Has

\* A step of the user: the daemon and the reports stay.
LEMMA PickerStep ==
  ASSUME PickInv, QueueGrows, UNCHANGED <<durable, stored, reports, sessions, theme, unknown>>,
         rows' \in Seq(Sessions), cursor' \in Nat \ {0}, screen' \in {"chat", "sessions", "theme"},
         preview' \in Palette \cup {NoTheme}, Pick!BrowserShowsTheList',
         \/ preview' = NoTheme \/ Has(queue', {"theme"}) \/ screen' = "theme"
         \/ preview' = preview /\ screen # "theme"
  PROVE  PickInv'
<1>1. PickTypes'  BY DEF PickInv, PickTypes, QueueGrows
<1>2. ThemeInv'
  <2>1. \A K : Has(reports', K) = Has(reports, K)  BY DEF Has
  <2>2. Says(reports', theme', stored') = Says(reports, theme, stored)  BY DEF Says
  <2>3. QED  BY <2>1, <2>2 DEF PickInv, ThemeInv, QueueGrows, Has
<1>3. QED  BY <1>1, <1>2 DEF PickInv

LEMMA BrowserSteps ==
  ASSUME Pick!PickersAssumption, PickInv,
         \/ Pick!RequestBrowser \/ Pick!CloseBrowser \/ Pick!SelectSession \/ Pick!BackspaceFilter
         \/ \E step : Pick!MoveTab(step)
         \/ \E c : Pick!TypeFilter(c)
         \/ \E down \in BOOLEAN : Pick!MoveCursor(down)
  PROVE  PickInv'
<1>0. /\ PickTypes /\ sessions \in Seq(Sessions) /\ cursor \in Nat \ {0} /\ rows \in Seq(Sessions)
      /\ preview \in Palette \cup {NoTheme}
  BY DEF PickInv, PickTypes
<1>1. CASE Pick!RequestBrowser
  <2>1. Pick!Refresh(sessions, "all", <<>>, 1) /\ sessions' = sessions /\ tab' = "all" /\ filter' = <<>>
    BY <1>1 DEF Pick!RequestBrowser
  <2>2. rows' \in Seq(Sessions) /\ cursor' \in Nat \ {0} /\ Pick!BrowserShowsTheList'
    BY <1>0, <2>1, RefreshKeeps
  <2>3. QueueGrows  BY <1>0, <1>1, AskGrows DEF Pick!RequestBrowser, Errands
  <2>4. QED  BY <1>0, <1>1, <2>2, <2>3, PickerStep DEF Pick!RequestBrowser, Pick!daemon
<1>2. CASE Pick!CloseBrowser
  <2>1. QueueGrows  BY <1>0, <1>2, NothingAsked DEF Pick!CloseBrowser
  <2>2. screen' = "chat" /\ rows' = <<>> /\ cursor' = 1  BY <1>2 DEF Pick!CloseBrowser
  <2>3. Pick!BrowserShowsTheList'  BY <2>2, BrowserStays
  <2>4. QED  BY <1>0, <1>2, <2>1, <2>2, <2>3, PickerStep DEF Pick!CloseBrowser, Pick!daemon
<1>3. CASE Pick!SelectSession
  <2>1. rows[cursor] \in Sessions  BY <1>0, <1>3 DEF Pick!SelectSession
  <2>2. QueueGrows  BY <1>0, <1>3, <2>1, AskGrows DEF Pick!SelectSession, Errands
  <2>3. screen' = "chat" /\ rows' = <<>> /\ cursor' = 1  BY <1>3 DEF Pick!SelectSession
  <2>4. Pick!BrowserShowsTheList'  BY <2>3, BrowserStays
  <2>5. QED  BY <1>0, <1>3, <2>2, <2>3, <2>4, PickerStep DEF Pick!SelectSession, Pick!daemon
<1>4. ASSUME Pick!Refresh(sessions, tab', filter', cursor), Pick!AskNothing, screen = "sessions",
             UNCHANGED <<durable, stored, reports, screen, sessions, loaded, theme, preview, unknown>>
      PROVE  PickInv'
  <2>1. rows' \in Seq(Sessions) /\ cursor' \in Nat \ {0} /\ Pick!BrowserShowsTheList'
    BY <1>0, <1>4, RefreshKeeps
  <2>2. QueueGrows  BY <1>0, <1>4, NothingAsked
  <2>3. QED  BY <1>0, <1>4, <2>1, <2>2, PickerStep
<1>5. CASE Pick!BackspaceFilter
  BY <1>4, <1>5 DEF Pick!BackspaceFilter, Pick!BackspaceRows, Pick!daemon
<1>6. CASE \E step : Pick!MoveTab(step)  BY <1>4, <1>6 DEF Pick!MoveTab, Pick!daemon
<1>7. CASE \E c : Pick!TypeFilter(c)  BY <1>4, <1>7 DEF Pick!TypeFilter, Pick!daemon
<1>8. ASSUME NEW down \in BOOLEAN, Pick!MoveCursor(down) PROVE PickInv'
  <2>1. /\ cursor' = IF down THEN Pick!Clamp(cursor + 1, rows) ELSE IF cursor > 1 THEN cursor - 1 ELSE 1
        /\ screen = "sessions" /\ UNCHANGED <<durable, stored, reports, screen, sessions, loaded, tab,
                                              filter, rows, theme, preview, unknown>>
    BY <1>8 DEF Pick!MoveCursor, Pick!daemon
  <2>2. QueueGrows  BY <1>0, <1>8, NothingAsked DEF Pick!MoveCursor
  <2>3. rows # <<>> => cursor \in DOMAIN rows  BY <2>1 DEF PickInv, Pick!BrowserShowsTheList
  <2>4. DOMAIN rows = 1 .. Len(rows) /\ Len(rows) \in Nat /\ (rows # <<>> => Len(rows) > 0)  BY <1>0
  <2>5. cursor' \in Nat \ {0} /\ (rows # <<>> => cursor' \in DOMAIN rows)
    BY <1>0, <2>1, <2>3, <2>4 DEF Pick!Clamp
  <2>6. Pick!BrowserShowsTheList'  BY <2>1, <2>5, BrowserStays
  <2>7. QED  BY <1>0, <2>1, <2>2, <2>5, <2>6, PickerStep DEF PickTypes
<1>9. QED  BY <1>1, <1>2, <1>3, <1>5, <1>6, <1>7, <1>8

LEMMA ThemeSteps ==
  ASSUME Pick!PickersAssumption, PickInv,
         \/ Pick!RequestPicker \/ Pick!ClearPreview
         \/ \E down \in BOOLEAN : Pick!PreviewTheme(down)
         \/ \E i \in DOMAIN AllThemes : Pick!SelectTheme(AllThemes[i])
  PROVE  PickInv'
<1>0. /\ PickTypes /\ rows \in Seq(Sessions) /\ cursor \in Nat \ {0}
      /\ theme \in Palette /\ preview \in Palette \cup {NoTheme}
  BY DEF PickInv, PickTypes
<1>1. AllThemes \in Seq(Palette) /\ Len(AllThemes) > 0  BY PaletteTyped
<1>2. ASSUME UNCHANGED <<durable, stored, reports, rows, cursor, sessions, loaded, tab, filter, theme, unknown>>,
             screen' \in {"chat", "theme"}, preview' \in Palette \cup {NoTheme},
             \/ Pick!AskNothing /\ (screen' = "chat" => preview' = NoTheme)
             \/ Pick!Ask("theme", preview') /\ preview' \in Palette
      PROVE  PickInv'
  <2>1. Pick!BrowserShowsTheList'  BY <1>2, BrowserStays
  <2>2. CASE Pick!AskNothing /\ (screen' = "chat" => preview' = NoTheme)
    BY <1>0, <1>2, <2>1, <2>2, NothingAsked, PickerStep
  <2>3. CASE Pick!Ask("theme", preview') /\ preview' \in Palette
    <3>1. QueueGrows /\ Has(queue', {"theme"})  BY <1>0, <2>3, AskGrows DEF Errands
    <3>2. QED  BY <1>0, <1>2, <2>1, <3>1, PickerStep
  <2>4. QED  BY <1>2, <2>2, <2>3
<1>3. CASE Pick!RequestPicker
  BY <1>2, <1>3 DEF Pick!RequestPicker, Pick!daemon, Pick!browser
<1>4. CASE Pick!ClearPreview
  BY <1>2, <1>4 DEF Pick!ClearPreview, Pick!daemon, Pick!browser
<1>5. ASSUME NEW down \in BOOLEAN, Pick!PreviewTheme(down) PROVE PickInv'
  <2>1. Pick!EffectiveTheme \in Palette  BY <1>0 DEF Pick!EffectiveTheme
  <2>2. Pick!ThemeRow \in DOMAIN AllThemes  BY <2>1 DEF Pick!ThemeRow, Palette
  <2>3. DOMAIN AllThemes = 1 .. Len(AllThemes) /\ Len(AllThemes) \in Nat /\ AllThemes # <<>>  BY <1>1
  <2> DEFINE i == IF down THEN Pick!Clamp(Pick!ThemeRow + 1, AllThemes)
                  ELSE IF Pick!ThemeRow > 1 THEN Pick!ThemeRow - 1 ELSE 1
  <2>4. i \in DOMAIN AllThemes  BY <1>1, <2>2, <2>3 DEF Pick!Clamp
  <2>5. preview' = AllThemes[i] /\ screen = "theme" /\ screen' = screen /\ Pick!AskNothing
    BY <1>5 DEF Pick!PreviewTheme
  <2>6. preview' \in Palette  BY <2>4, <2>5 DEF Palette
  <2>7. QED  BY <1>2, <1>5, <2>5, <2>6 DEF Pick!PreviewTheme, Pick!daemon, Pick!browser
<1>6. ASSUME NEW i \in DOMAIN AllThemes, Pick!SelectTheme(AllThemes[i]) PROVE PickInv'
  <2>1. AllThemes[i] \in Palette  BY DEF Palette
  <2>2. QED  BY <1>2, <1>6, <2>1 DEF Pick!SelectTheme, Pick!daemon, Pick!browser
<1>7. QED  BY <1>3, <1>4, <1>5, <1>6

\* A reply more, of an errand performed.
LEMMA AnswerKeeps ==
  ASSUME PickInv, Pick!Perform
  PROVE  PickInv'
<1> DEFINE e == Head(queue)
<1>0. /\ PickTypes /\ Pick!BrowserShowsTheList /\ queue \in Seq(Errands) /\ queue # <<>>
      /\ reports \in Seq(Replies)
      /\ queue' = Tail(queue) /\ UNCHANGED <<durable, screen, sessions, loaded, tab, filter, rows, cursor,
                                             theme, preview>>
  BY DEF PickInv, PickTypes, Pick!Perform, Pick!browser
<1>1. /\ queue' \in Seq(Errands) /\ e \in Errands /\ e = queue[1] /\ 1 \in DOMAIN queue
      /\ \A i \in DOMAIN queue' : queue'[i] = queue[i + 1] /\ i + 1 \in DOMAIN queue
      /\ \A K : Has(queue, K) => e.kind \in K \/ Has(queue', K)
  BY <1>0, SaysRest
<1>2. \A i \in DOMAIN queue' : queue'[i].kind = "theme" => queue'[i].what \in Palette
  BY <1>0, <1>1 DEF PickTypes
<1>3. e.kind = "theme" => e.what \in Palette  BY <1>0, <1>1 DEF PickTypes
<1> HIDE DEF e
<1>4. Pick!BrowserShowsTheList'  BY <1>0, BrowserStays DEF PickInv, Pick!BrowserShowsTheList
<1>5. ASSUME reports' \in Seq(Replies), stored' \in Palette, ThemeInv' PROVE PickInv'
  BY <1>0, <1>1, <1>2, <1>4, <1>5 DEF PickInv, PickTypes
<1>6. ASSUME NEW kind, NEW what, Pick!Answer(kind, what), [kind |-> kind, what |-> what] \in Replies
      PROVE  /\ reports' \in Seq(Replies)
             /\ kind = "settings" => Says(reports', theme, what)
             /\ \A u : kind # "settings" /\ Says(reports, theme, u) => Says(reports', theme, u)
             /\ \A K : kind \in K \/ Has(reports, K) => Has(reports', K)
  <2> DEFINE a == [kind |-> kind, what |-> what]
  <2>1. a.kind = kind /\ a.what = what /\ a \in Replies /\ reports' = Append(reports, a)
    BY <1>6 DEF Pick!Answer
  <2> HIDE DEF a
  <2>2. QED  BY <1>0, <2>1, SaysNext
<1>7. /\ Says(reports, theme, stored) \/ unknown \/ e.kind = "settings" \/ Has(queue', {"settings"})
      /\ screen # "theme" =>
           preview = NoTheme \/ e.kind = "theme" \/ Has(queue', {"theme"})
           \/ Has(reports, {"settings", "settings_failed"})
  BY <1>1 DEF PickInv, ThemeInv
<1>8. CASE e.kind = "list" /\ Pick!ListSessions
  <2>1. stored' = stored /\ unknown' = unknown  BY <1>8 DEF Pick!ListSessions
  <2>2. PICK kind \in {"listed", "failed"}, what \in Seq(Sessions) \cup {NoTheme} :
          Pick!Answer(kind, what) /\ [kind |-> kind, what |-> what] \in Replies
    BY <1>0, <1>8 DEF Pick!ListSessions, PickTypes, Replies
  <2>3. /\ reports' \in Seq(Replies)
        /\ \A u : Says(reports, theme, u) => Says(reports', theme, u)
        /\ \A K : Has(reports, K) => Has(reports', K)
    BY <1>6, <2>2
  <2>4. ThemeInv'
    <3>1. Says(reports, theme, stored) => Says(reports', theme', stored')  BY <1>0, <2>1, <2>3
    <3>2. QED  BY <1>0, <1>7, <1>8, <2>1, <2>3, <3>1 DEF ThemeInv
  <2>5. QED  BY <1>0, <1>5, <2>1, <2>3, <2>4 DEF PickTypes
<1>9. CASE e.kind = "open" /\ UNCHANGED <<stored, reports, unknown>>
  <2>1. ThemeInv'  BY <1>0, <1>7, <1>9 DEF ThemeInv, Says, Has
  <2>2. QED  BY <1>0, <1>5, <1>9, <2>1 DEF PickTypes
<1>10. ASSUME Pick!Answer("settings", stored'), stored' \in Palette, unknown' = FALSE
       PROVE  PickInv'
  <2>1. [kind |-> "settings", what |-> stored'] \in Replies  BY <1>10 DEF Replies
  <2>2. /\ reports' \in Seq(Replies) /\ Says(reports', theme, stored')
        /\ Has(reports', {"settings", "settings_failed"})
    BY <1>6, <1>10, <2>1
  <2>3. ThemeInv'  BY <1>0, <2>2 DEF ThemeInv, Says, Has
  <2>4. QED  BY <1>5, <1>10, <2>2, <2>3
<1>11. ASSUME Pick!Answer("settings_failed", NoTheme), stored' \in Palette,
              unknown' = TRUE \/ (UNCHANGED <<stored, unknown>> /\ e.kind = "theme")
       PROVE  PickInv'
  <2>1. [kind |-> "settings_failed", what |-> NoTheme] \in Replies  BY DEF Replies
  <2>2. /\ reports' \in Seq(Replies) /\ \A u : Says(reports, theme, u) => Says(reports', theme, u)
        /\ Has(reports', {"settings", "settings_failed"})
    BY <1>6, <1>11, <2>1
  <2>3. ThemeInv'
    <3>1. CASE unknown' = TRUE  BY <2>2, <3>1 DEF ThemeInv
    <3>2. CASE UNCHANGED <<stored, unknown>> /\ e.kind = "theme"
      <4>1. Says(reports, theme, stored) => Says(reports', theme', stored')  BY <1>0, <2>2, <3>2
      <4>2. QED  BY <1>0, <1>7, <2>2, <3>2, <4>1 DEF ThemeInv
    <3>3. QED  BY <1>11, <3>1, <3>2
  <2>4. QED  BY <1>5, <1>11, <2>2, <2>3
<1>12. CASE e.kind = "settings" /\ Pick!TuiSettings
  <2>1. stored' = stored /\ stored \in Palette  BY <1>0, <1>12 DEF Pick!TuiSettings, PickTypes
  <2>2. \/ Pick!Answer("settings", stored') /\ unknown' = FALSE
        \/ Pick!Answer("settings_failed", NoTheme) /\ unknown' = TRUE
    BY <1>12, <2>1 DEF Pick!TuiSettings
  <2>3. stored' \in Palette  BY <2>1
  <2>4. CASE Pick!Answer("settings", stored') /\ unknown' = FALSE  BY <1>10, <2>3, <2>4
  <2>5. CASE Pick!Answer("settings_failed", NoTheme) /\ unknown' = TRUE  BY <1>11, <2>3, <2>5
  <2>6. QED  BY <2>2, <2>4, <2>5, Zenon
<1>13. CASE e.kind = "theme" /\ Pick!SetTuiTheme(e.what)
  <2>1. e.what \in Palette /\ stored \in Palette  BY <1>0, <1>3, <1>13 DEF PickTypes
  <2>2. QED  BY <1>10, <1>11, <1>13, <2>1 DEF Pick!SetTuiTheme, Pick!SaveTuiTheme
<1>14. \/ e.kind = "list" /\ Pick!ListSessions
       \/ e.kind = "open" /\ UNCHANGED <<stored, reports, unknown>>
       \/ e.kind = "settings" /\ Pick!TuiSettings
       \/ e.kind = "theme" /\ Pick!SetTuiTheme(e.what)
  BY DEF Pick!Perform, e
<1>15. QED  BY <1>8, <1>9, <1>12, <1>13, <1>14

\* A reply is read.
LEMMA ReportKeeps ==
  ASSUME PickInv,
         Pick!SessionsListed \/ Pick!SessionsListFailed \/ Pick!SettingsReceived \/ Pick!SettingsFailed
  PROVE  PickInv'
<1> DEFINE r == Head(reports)
<1>0. /\ PickTypes /\ reports \in Seq(Replies) /\ reports # <<>> /\ reports' = Tail(reports)
      /\ UNCHANGED <<durable, stored, queue, screen, tab, filter, unknown>>
  BY DEF PickInv, PickTypes, Pick!SessionsListed, Pick!SessionsListFailed, Pick!SettingsReceived,
         Pick!SettingsFailed, Pick!Report, Pick!daemon, Pick!browser
<1>1. /\ reports' \in Seq(Replies) /\ r \in Replies
      /\ Says(reports, theme, stored) =>
           Says(reports', IF r.kind = "settings" THEN r.what ELSE theme, stored)
      /\ \A K : Has(reports, K) => r.kind \in K \/ Has(reports', K)
  BY <1>0, SaysRest
<1> HIDE DEF r
<1>2. ASSUME theme' = IF r.kind = "settings" THEN r.what ELSE theme,
             \/ preview' = NoTheme
             \/ preview' = preview /\ r.kind \notin {"settings", "settings_failed"},
             sessions' \in Seq(Sessions), rows' \in Seq(Sessions), cursor' \in Nat \ {0},
             Pick!BrowserShowsTheList'
      PROVE  PickInv'
  <2>1. r.kind = "settings" => r.what \in Palette  BY <1>1 DEF Replies
  <2>2. theme' \in Palette /\ preview' \in Palette \cup {NoTheme}
    BY <1>0, <1>2, <2>1 DEF PickTypes
  <2>3. PickTypes'  BY <1>0, <1>1, <1>2, <2>2 DEF PickTypes
  <2>4. Says(reports, theme, stored) => Says(reports', theme', stored')  BY <1>0, <1>1, <1>2
  <2>5. ThemeInv'
    BY <1>0, <1>1, <1>2, <2>4 DEF PickInv, ThemeInv, Has
  <2>6. QED  BY <1>2, <2>3, <2>5 DEF PickInv
<1>3. CASE Pick!SessionsListed
  <2>1. /\ r.kind = "listed" /\ sessions' = r.what /\ Pick!Refresh(sessions', tab, filter, cursor)
        /\ theme' = theme /\ preview' = preview
    BY <1>3 DEF Pick!SessionsListed, Pick!Report, r
  <2>2. r.what \in Seq(Sessions)  BY <1>1, <2>1 DEF Replies
  <2>3. cursor \in Nat \ {0}  BY <1>0 DEF PickTypes
  <2>4. rows' \in Seq(Sessions) /\ cursor' \in Nat \ {0} /\ Pick!BrowserShowsTheList'
    BY <1>0, <2>1, <2>2, <2>3, RefreshKeeps
  <2>5. QED  BY <1>2, <2>1, <2>2, <2>4
<1>4. ASSUME UNCHANGED <<sessions, rows, cursor>>
      PROVE  /\ sessions' \in Seq(Sessions) /\ rows' \in Seq(Sessions) /\ cursor' \in Nat \ {0}
             /\ Pick!BrowserShowsTheList'
  BY <1>0, <1>4, BrowserStays DEF PickInv, PickTypes, Pick!BrowserShowsTheList
<1>5. CASE Pick!SessionsListFailed
  BY <1>2, <1>4, <1>5 DEF Pick!SessionsListFailed, Pick!Report, Pick!browser, r
<1>6. CASE Pick!SettingsReceived
  BY <1>2, <1>4, <1>6 DEF Pick!SettingsReceived, Pick!Report, Pick!browser, r
<1>7. CASE Pick!SettingsFailed
  BY <1>2, <1>4, <1>7 DEF Pick!SettingsFailed, Pick!DropPreview, Pick!Report, Pick!browser, r
<1>8. QED  BY <1>3, <1>5, <1>6, <1>7

LEMMA PickInit ==
  ASSUME Pick!PickersAssumption, Pick!Init
  PROVE  PickInv
<1>1. AllThemes \in Seq(Palette) /\ Len(AllThemes) > 0 /\ IsFiniteSet(Sessions)  BY PaletteTyped
<1>2. durable \in Seq(Sessions)
  <2> DEFINE c == Pick!Cardinality(Sessions)
  <2>1. c = Cardinality(Sessions)  BY DEF Pick!Cardinality, Cardinality
  <2>2. c \in Nat  BY <1>1, <2>1, FS_CardinalityType
  <2> HIDE DEF c
  <2>3. durable \in [1 .. c -> Sessions]
    BY DEF Pick!Init, Pick!Bijection, Pick!Injection, c
  <2>4. QED  BY <2>2, <2>3, SeqDef
<1>3. 1 \in DOMAIN AllThemes /\ AllThemes[1] \in Palette  BY <1>1 DEF Palette
<1> DEFINE first == [kind |-> "settings", what |-> NoTheme]
<1>4. queue = <<first>> /\ first \in Errands /\ first.kind = "settings"  BY DEF Pick!Init, Errands
<1> HIDE DEF first
<1>5. /\ queue \in Seq(Errands) /\ 1 \in DOMAIN queue /\ queue[1].kind = "settings"
      /\ \A i \in DOMAIN queue : queue[i] = first
  BY <1>4
<1>6. PickTypes  BY <1>2, <1>3, <1>4, <1>5 DEF PickTypes, Pick!Init, Palette
<1>7. ThemeInv  BY <1>5 DEF ThemeInv, Has, Pick!Init
<1>8. QED  BY <1>6, <1>7 DEF PickInv, Pick!Init, Pick!BrowserShowsTheList

LEMMA PickStep ==
  ASSUME Pick!PickersAssumption, PickInv, [Pick!Next]_(Pick!vars)
  PROVE  PickInv'
<1>0. PickTypes  BY DEF PickInv
<1>1. CASE UNCHANGED Pick!vars
  <2>1. /\ UNCHANGED <<durable, stored, queue, reports, screen, sessions, tab, filter, rows, cursor,
                       theme, preview, unknown>>
    BY <1>1 DEF Pick!vars, Pick!daemon, Pick!browser
  <2>2. Pick!BrowserShowsTheList'  BY <2>1, BrowserStays DEF PickInv, Pick!BrowserShowsTheList
  <2>3. QED  BY <2>1, <2>2 DEF PickInv, PickTypes, ThemeInv, Says, Has
<1>2. CASE \E s \in Sessions : Pick!Touch(s)
  <2>1. PICK s \in Sessions : Pick!Touch(s)  BY <1>2
  <2>2. /\ durable' = <<s>> \o Pick!Within(durable, Sessions \ {s}) /\ durable \in Seq(Sessions)
        /\ UNCHANGED <<stored, queue, reports, screen, sessions, tab, filter, rows, cursor,
                       theme, preview, unknown>>
    BY <1>0, <2>1 DEF Pick!Touch, Pick!browser, PickTypes
  <2>3. Pick!Within(durable, Sessions \ {s}) \in Seq(Sessions)  BY <2>2, PickWithin, WithinType
  <2>4. durable' \in Seq(Sessions)  BY <2>2, <2>3
  <2>5. Pick!BrowserShowsTheList'  BY <2>2, BrowserStays DEF PickInv, Pick!BrowserShowsTheList
  <2>6. QED  BY <2>2, <2>4, <2>5 DEF PickInv, PickTypes, ThemeInv, Says, Has
<1>3. CASE Pick!Next
  BY <1>2, <1>3, BrowserSteps, ThemeSteps, AnswerKeeps, ReportKeeps DEF Pick!Next
<1>4. QED  BY <1>1, <1>3

LEMMA PaintedIsStored ==
  ASSUME PickInv
  PROVE  Pick!BrowserShowsTheList /\ Pick!PaintedThemeIsStored /\ Pick!TypeOK
<1>1. ASSUME queue = <<>>, reports = <<>>, screen # "theme"
      PROVE  Pick!EffectiveTheme = theme /\ (theme = stored \/ unknown)
  <2>1. DOMAIN queue = {} /\ DOMAIN reports = {}  BY <1>1
  <2>2. preview = NoTheme  BY <1>1, <2>1 DEF PickInv, ThemeInv, Has
  <2>3. theme = stored \/ unknown  BY <2>1 DEF PickInv, ThemeInv, Has, Says
  <2>4. QED  BY <2>2, <2>3 DEF Pick!EffectiveTheme
<1>2. Pick!TypeOK  BY DEF PickInv, PickTypes, Pick!TypeOK, Palette
<1>3. QED  BY <1>1, <1>2 DEF PickInv, Pick!PaintedThemeIsStored

-----------------------------------------------------------------------------
(* What holds of a behaviour of any component.                             *)

ExchangeInv ==
  /\ part = "tools" => ToolInv
  /\ part = "terminal" => TermInv
  /\ part = "headless" => LineInv
  /\ part = "input" => InputInv
  /\ part = "pickers" => PickInv

LEMMA ExchangeStart == ExchangeInit => ExchangeInv
BY ExchangeAssumptions, ToolInit, TermInit, LineInit, InputInit, PickInit
DEF ExchangeInit, ExchangeInv

\* A step of a behaviour is a step of its component.
LEMMA PartSteps ==
  ASSUME [ExchangeNext]_vars
  PROVE  /\ part' = part
         /\ part = "tools" => [Tool!Next]_(Tool!vars)
         /\ part = "terminal" => [Term!Next]_(Term!vars)
         /\ part = "headless" => [Line!Next]_(Line!vars)
         /\ part = "input" => [Input!Next]_(Input!vars)
         /\ part = "pickers" => [Pick!Next]_(Pick!vars)
<1>1. CASE UNCHANGED vars
  <2>1. UNCHANGED <<part, x1, x2, x3, x4, x5, x6, x7, x8, x9, x10, x11, x12, x13, x14, x15, x16,
                    x17, x18, x19, x20, x21, x22, x23, x24>>
    BY <1>1 DEF vars
  <2>2. UNCHANGED Tool!vars  BY <2>1 DEF Tool!vars, Tool!search
  <2>3. UNCHANGED Term!vars
    BY <2>1 DEF Term!vars, Term!daemon, Term!driver, Term!app, Term!line
  <2>4. UNCHANGED Line!vars
    BY <2>1 DEF Line!vars, Line!daemon, Line!channel, Line!core, Line!sink, Line!loop
  <2>5. UNCHANGED Input!vars  BY <2>1 DEF Input!vars, Input!kept
  <2>6. UNCHANGED Pick!vars  BY <2>1 DEF Pick!vars, Pick!daemon, Pick!browser
  <2>7. QED  BY <2>1, <2>2, <2>3, <2>4, <2>5, <2>6
<1>2. CASE ExchangeNext
  <2>1. part' = part  BY <1>2 DEF ExchangeNext
  <2>2. /\ part = "tools" => Tool!Next
        /\ part = "terminal" => Term!Next
        /\ part = "headless" => Line!Next
        /\ part = "input" => Input!Next
        /\ part = "pickers" => Pick!Next
    BY <1>2 DEF ExchangeNext
  <2>3. QED  BY <2>1, <2>2
<1>3. QED  BY <1>1, <1>2

LEMMA ExchangeStep ==
  ASSUME ExchangeInv, [ExchangeNext]_vars
  PROVE  ExchangeInv'
<1>1. CASE part = "tools"
  BY <1>1, PartSteps, ToolStep, ExchangeAssumptions DEF ExchangeInv
<1>2. CASE part = "terminal"
  BY <1>2, PartSteps, TermStep, ExchangeAssumptions DEF ExchangeInv
<1>3. CASE part = "headless"
  BY <1>3, PartSteps, LineStep, ExchangeAssumptions DEF ExchangeInv
<1>4. CASE part = "input"
  BY <1>4, PartSteps, InputStep DEF ExchangeInv
<1>5. CASE part = "pickers"
  BY <1>5, PartSteps, PickStep, ExchangeAssumptions DEF ExchangeInv
<1>6. CASE part \notin {"tools", "terminal", "headless", "input", "pickers"}
  BY <1>6, PartSteps DEF ExchangeInv
<1>7. QED  BY <1>1, <1>2, <1>3, <1>4, <1>5, <1>6

LEMMA ExchangeAlways == ExchangeSpec => []ExchangeInv
<1>1. ExchangeInit => ExchangeInv  BY ExchangeStart
<1>2. ExchangeInv /\ [ExchangeNext]_vars => ExchangeInv'  BY ExchangeStep
<1>3. QED  BY <1>1, <1>2, PTL DEF ExchangeSpec

\* A search reports exactly the matching lines of what it read, up to its limits, and
\* says so when it left something out, whatever became of the files meanwhile; a write or
\* an edit that answers with a refusal changed no file (grep_scoped, edit_tool).
THEOREM ToolsAnswerAlways == ExchangeSpec => []ToolsAnswerHonestly
<1>1. ExchangeInv => ToolsAnswerHonestly
  BY ToolsHonest, ExchangeAssumptions DEF ExchangeInv, ToolsAnswerHonestly
<1>2. QED  BY <1>1, ExchangeAlways, PTL

\* The terminal that believes its stream live holds one or has its loss to apply
\* (client_task, AppState::update), and the headless command reports each row once and
\* in order: between two rows it reported there is only what a bounded read left out
\* (Driver::report_pending, reconcile).
THEOREM FollowersKeepTheirStreamAlways == ExchangeSpec => []FollowersKeepTheirStream
<1>1. ExchangeInv => FollowersKeepTheirStream
  BY StreamIsHeld, RowsReported, ExchangeAssumptions DEF ExchangeInv, FollowersKeepTheirStream
<1>2. QED  BY <1>1, ExchangeAlways, PTL

\* The band of the input line ranks the word under the caret (refresh_menu), the
\* browser shows what its filter and tab select of the last list, with a row under its
\* cursor (refresh), and a theme painted as chosen is the stored one (apply_theme).
THEOREM MenusShowAlways == ExchangeSpec => []MenusShowWhatTheyOffer
<1>1. ExchangeInv => MenusShowWhatTheyOffer
  BY PaintedIsStored DEF ExchangeInv, MenusShowWhatTheyOffer, InputInv
<1>2. QED  BY <1>1, ExchangeAlways, PTL
====
