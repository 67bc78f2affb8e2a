--------------------------- MODULE EventStreamProofs ---------------------------
(***************************************************************************)
(* What EventStream promises of the log and of a page that follows it, for *)
(* any capacity and any number of events, with proofs.                     *)
(*                                                                         *)
(* The heart of the invariant is Gaps: two lines of a file are at least as *)
(* far apart in their events as in their places, whatever was lost between *)
(* them.  So a full file reaches back for its capacity, and what a rotation *)
(* unlinks is older than that.  A step leaves the files alone, changes the *)
(* form of a line (Same), or adds a line to the last file (Grown).         *)
(***************************************************************************)
EXTENDS EventStream, SequenceTheorems, TLAPS

Logs == Seq(Seq(Line))

Lines(fs, f) == 1..Len(fs[f])

Gaps(fs) ==
  \A f \in 1..Len(fs) : \A i, j \in Lines(fs, f) :
    i <= j => fs[f][i].event + (j - i) <= fs[f][j].event

Ordered(fs) ==
  \A f, g \in 1..Len(fs) : f < g =>
    \A i \in Lines(fs, f), j \in Lines(fs, g) : fs[f][i].event < fs[g][j].event

Below(fs, n) == \A f \in 1..Len(fs) : \A i \in Lines(fs, f) : fs[f][i].event <= n

InShape(fs, n) == Gaps(fs) /\ Ordered(fs) /\ Below(fs, n)

Holds(fs, f, n) == \E i \in Lines(fs, f) : fs[f][i] = [event |-> n, form |-> "whole"]

\* Lines stay where they are, and whole ones as they are.
Keeps(fs, gs) ==
  /\ Len(fs) <= Len(gs)
  /\ \A f \in 1..Len(fs) :
       /\ Len(fs[f]) <= Len(gs[f])
       /\ \A i \in Lines(fs, f) : /\ gs[f][i].event = fs[f][i].event
                                  /\ fs[f][i].form = "whole" => gs[f][i] = fs[f][i]

\* No line is added.
Same(fs, gs) ==
  /\ Keeps(fs, gs) /\ Len(gs) = Len(fs)
  /\ \A f \in 1..Len(fs) : Len(gs[f]) = Len(fs[f])

\* One line is added, to the last file or to a new one.
Grown(fs, gs, line) ==
  LET last == Len(gs)
      place == Len(gs[last])
  IN  /\ Keeps(fs, gs)
      /\ last # 0 /\ place # 0 /\ gs[last][place] = line
      /\ last \in {Len(fs), Len(fs) + 1}
      /\ \A f \in 1..Len(fs) : Len(gs[f]) = IF f = last THEN Len(fs[f]) + 1 ELSE Len(fs[f])
      /\ last = Len(fs) + 1 => place = 1

-----------------------------------------------------------------------------
(* The files.                                                              *)

LEMMA LineTyped == \A line \in Line : line.event \in Events /\ line.event \in Int
  BY CapacityAssumption DEF Line, Events

LEMMA Typed ==
  ASSUME NEW fs \in Logs
  PROVE  /\ Len(fs) \in Nat /\ DOMAIN fs = 1..Len(fs)
         /\ \A f \in 1..Len(fs) :
              /\ fs[f] \in Seq(Line) /\ Len(fs[f]) \in Nat
              /\ DOMAIN fs[f] = Lines(fs, f)
              /\ \A i \in Lines(fs, f) : fs[f][i] \in Line
<1>1. Len(fs) \in Nat /\ DOMAIN fs = 1..Len(fs)
  BY LenProperties DEF Logs
<1>2. ASSUME NEW f \in 1..Len(fs)
      PROVE  /\ fs[f] \in Seq(Line) /\ Len(fs[f]) \in Nat
             /\ DOMAIN fs[f] = Lines(fs, f)
             /\ \A i \in Lines(fs, f) : fs[f][i] \in Line
  <2>1. fs[f] \in Seq(Line)
    BY ElementOfSeq DEF Logs
  <2>2. Len(fs[f]) \in Nat /\ DOMAIN fs[f] = Lines(fs, f)
    BY <2>1, LenProperties DEF Lines
  <2>3. \A i \in Lines(fs, f) : fs[f][i] \in Line
    BY <2>1, ElementOfSeq DEF Lines
  <2> QED
    BY <2>1, <2>2, <2>3
<1> QED
  BY <1>1, <1>2

LEMMA EventTyped ==
  ASSUME NEW fs \in Logs, NEW f \in 1..Len(fs), NEW i \in Lines(fs, f)
  PROVE  fs[f][i].event \in Int /\ fs[f][i].event \in Events /\ i \in Nat \ {0}
<1>1. fs[f][i] \in Line /\ Len(fs[f]) \in Nat
  BY Typed
<1> QED
  BY <1>1, LineTyped DEF Lines

\* A line is before its file's last one, and the last one is there.
LEMMA LastLine ==
  ASSUME NEW fs \in Logs, NEW f \in 1..Len(fs), NEW i \in Lines(fs, f)
  PROVE  Len(fs[f]) \in Lines(fs, f) /\ i <= Len(fs[f]) /\ Len(fs[f]) \in Nat
  BY Typed DEF Lines

LEMMA SameKeepsShape ==
  ASSUME NEW fs \in Logs, NEW gs \in Logs, NEW n \in Int, Same(fs, gs), InShape(fs, n)
  PROVE  InShape(gs, n)
<1>1. \A f \in 1..Len(gs) : /\ f \in 1..Len(fs) /\ Lines(gs, f) = Lines(fs, f)
                            /\ \A i \in Lines(gs, f) : gs[f][i].event = fs[f][i].event
  BY DEF Same, Keeps, Lines
<1>2. Len(gs) = Len(fs)
  BY DEF Same
<1>3. Gaps(gs)
  BY <1>1 DEF InShape, Gaps
<1>4. Ordered(gs)
  BY <1>1 DEF InShape, Ordered
<1>5. Below(gs, n)
  BY <1>1 DEF InShape, Below
<1> QED
  BY <1>3, <1>4, <1>5 DEF InShape

\* A line of the longer log is one of the shorter log or the new one.
LEMMA OldOrNew ==
  ASSUME NEW fs \in Logs, NEW gs \in Logs, NEW line \in Line, Grown(fs, gs, line),
         NEW f \in 1..Len(gs), NEW i \in Lines(gs, f)
  PROVE  \/ f \in 1..Len(fs) /\ i \in Lines(fs, f) /\ gs[f][i].event = fs[f][i].event
         \/ f = Len(gs) /\ i = Len(gs[f]) /\ gs[f][i] = line
<1>1. Len(fs) \in Nat /\ Len(gs) \in Nat /\ Len(gs[f]) \in Nat
  BY Typed
<1>2. CASE f \in 1..Len(fs)
  <2>1. Len(fs[f]) \in Nat
    BY <1>2, Typed
  <2>2. CASE f = Len(gs)
    BY <1>1, <1>2, <2>1, <2>2 DEF Grown, Keeps, Lines
  <2>3. CASE f # Len(gs)
    BY <1>1, <1>2, <2>1, <2>3 DEF Grown, Keeps, Lines
  <2> QED
    BY <2>2, <2>3
<1>3. CASE f \notin 1..Len(fs)
  <2>1. f = Len(gs) /\ Len(gs) = Len(fs) + 1
    BY <1>1, <1>3 DEF Grown
  <2>2. Len(gs[f]) = 1
    BY <2>1 DEF Grown
  <2>3. i = 1
    BY <2>2 DEF Lines
  <2> QED
    BY <2>1, <2>2, <2>3 DEF Grown
<1> QED
  BY <1>2, <1>3

LEMMA OneFurther ==
  ASSUME NEW a \in Int, NEW b \in Int, NEW n \in Int, NEW i \in Int, NEW j \in Int,
         a + (j - i) <= b, b <= n - 1
  PROVE  a + ((j + 1) - i) <= n
  OBVIOUS

LEMMA GrownKeepsShape ==
  ASSUME NEW fs \in Logs, NEW gs \in Logs, NEW line \in Line, Grown(fs, gs, line),
         InShape(fs, line.event - 1)
  PROVE  InShape(gs, line.event)
<1>1. ASSUME NEW f \in 1..Len(gs), NEW i \in Lines(gs, f), NEW j \in Lines(gs, f), i <= j
      PROVE  gs[f][i].event + (j - i) <= gs[f][j].event
  <2>1. CASE f \in 1..Len(fs) /\ i \in Lines(fs, f) /\ gs[f][i].event = fs[f][i].event
    <3>1. CASE j \in Lines(fs, f) /\ gs[f][j].event = fs[f][j].event
      BY <1>1, <2>1, <3>1 DEF InShape, Gaps
    <3>2. CASE f = Len(gs) /\ j = Len(gs[f]) /\ gs[f][j] = line
      <4> DEFINE m == Len(fs[f])
      <4>1. j = m + 1
        BY <2>1, <3>2 DEF Grown
      <4>2. m \in Lines(fs, f) /\ i <= m /\ m \in Nat
        BY <2>1, LastLine
      <4>3. fs[f][i].event + (m - i) <= fs[f][m].event /\ fs[f][m].event <= line.event - 1
        BY <2>1, <4>2 DEF InShape, Gaps, Below
      <4>4. fs[f][i].event \in Int /\ fs[f][m].event \in Int /\ line.event \in Int /\ i \in Int
        BY <2>1, <4>2, EventTyped, LineTyped
      <4> HIDE DEF m
      <4>5. fs[f][i].event + ((m + 1) - i) <= line.event
        BY <4>2, <4>3, <4>4, OneFurther
      <4> QED
        BY <2>1, <3>2, <4>1, <4>5
    <3> QED
      BY <2>1, <3>1, <3>2, OldOrNew
  <2>2. CASE f = Len(gs) /\ i = Len(gs[f]) /\ gs[f][i] = line
    <3>1. j = i /\ i \in Int
      BY <1>1, <2>2, LastLine, EventTyped
    <3> QED
      BY <3>1, EventTyped
  <2> QED
    BY <2>1, <2>2, OldOrNew
<1>2. ASSUME NEW f \in 1..Len(gs), NEW g \in 1..Len(gs), f < g,
             NEW i \in Lines(gs, f), NEW j \in Lines(gs, g)
      PROVE  gs[f][i].event < gs[g][j].event
  <2>1. f \in 1..Len(fs) /\ i \in Lines(fs, f) /\ gs[f][i].event = fs[f][i].event
    <3>1. f # Len(gs)
      BY <1>2, Typed
    <3> QED
      BY <3>1, OldOrNew
  <2>2. CASE g \in 1..Len(fs) /\ j \in Lines(fs, g) /\ gs[g][j].event = fs[g][j].event
    BY <1>2, <2>1, <2>2 DEF InShape, Ordered
  <2>3. CASE gs[g][j] = line
    <3>1. fs[f][i].event <= line.event - 1 /\ fs[f][i].event \in Int /\ line.event \in Int
      BY <2>1, EventTyped, LineTyped DEF InShape, Below
    <3> QED
      BY <2>1, <2>3, <3>1
  <2> QED
    BY <2>2, <2>3, OldOrNew
<1>3. ASSUME NEW f \in 1..Len(gs), NEW i \in Lines(gs, f)
      PROVE  gs[f][i].event <= line.event
  <2>1. CASE f \in 1..Len(fs) /\ i \in Lines(fs, f) /\ gs[f][i].event = fs[f][i].event
    <3>1. fs[f][i].event <= line.event - 1 /\ fs[f][i].event \in Int /\ line.event \in Int
      BY <2>1, EventTyped, LineTyped DEF InShape, Below
    <3> QED
      BY <2>1, <3>1
  <2>2. CASE gs[f][i] = line
    BY <2>2, LineTyped
  <2> QED
    BY <2>1, <2>2, OldOrNew
<1> QED
  BY <1>1, <1>2, <1>3 DEF InShape, Gaps, Ordered, Below

-----------------------------------------------------------------------------
(* What an append makes of the files.                                      *)

LEMMA LastFile ==
  ASSUME NEW fs \in Logs, Len(fs) # 0
  PROVE  /\ Len(fs) \in 1..Len(fs) /\ Len(fs) \in Nat
         /\ fs[Len(fs)] \in Seq(Line) /\ Len(fs[Len(fs)]) \in Nat
  BY Typed

\* gs is fs with another last file.
Replaced(fs, h, gs) == gs = [fs EXCEPT ![Len(fs)] = h]

LEMMA LastReplaced ==
  ASSUME NEW fs \in Logs, Len(fs) # 0, NEW h \in Seq(Line), NEW gs, Replaced(fs, h, gs)
  PROVE  /\ Len(fs) \in 1..Len(fs) /\ fs[Len(fs)] \in Seq(Line)
         /\ gs \in Logs /\ Len(gs) = Len(fs) /\ gs[Len(gs)] = h
         /\ \A g \in 1..Len(fs) : g # Len(fs) => gs[g] = fs[g]
<1> DEFINE n == Len(fs)
<1>1. n \in 1..Len(fs) /\ fs[n] \in Seq(Line)
  BY LastFile
<1>2. fs \in Seq(Seq(Line))
  BY DEF Logs
<1> HIDE DEF n
<1>3. /\ [fs EXCEPT ![n] = h] \in Seq(Seq(Line))
      /\ Len([fs EXCEPT ![n] = h]) = Len(fs)
      /\ \A g \in 1..Len(fs) : [fs EXCEPT ![n] = h][g] = IF g = n THEN h ELSE fs[g]
  BY <1>1, <1>2, ExceptSeq
<1>4. /\ gs \in Logs /\ Len(gs) = Len(fs) /\ gs[n] = h
      /\ \A g \in 1..Len(fs) : g # n => gs[g] = fs[g]
  <2>1. gs = [fs EXCEPT ![n] = h]
    BY DEF Replaced, n
  <2> QED
    BY <1>1, <1>3, <2>1 DEF Logs
<1> QED
  BY <1>1, <1>4 DEF n

\* h is the file f with its last line in another form.
Reformed(f, form, h) == h = [f EXCEPT ![Len(f)].form = form]

\* A line changes its form, unless it was whole.
LEMMA LastReformed ==
  ASSUME NEW f \in Seq(Line), f # <<>>, f[Len(f)].form # "whole",
         NEW form, form \in {"whole", "part", "bad"}, NEW h, Reformed(f, form, h)
  PROVE  /\ h \in Seq(Line) /\ Len(h) = Len(f) /\ Len(f) # 0
         /\ \A j \in 1..Len(f) : /\ h[j].event = f[j].event
                                 /\ f[j].form = "whole" => h[j] = f[j]
         /\ h[Len(h)] = [event |-> f[Len(f)].event, form |-> form]
<1> DEFINE n == Len(f)
           line == [event |-> f[n].event, form |-> form]
<1>1. n \in 1..Len(f) /\ f[n] \in Line
  BY EmptySeq, LenProperties, ElementOfSeq
<1>2. line \in Line /\ [f[n] EXCEPT !.form = form] = line
  BY <1>1 DEF Line
<1>3. [f EXCEPT ![Len(f)].form = form] = [f EXCEPT ![n] = line]
  BY <1>1, <1>2, LenProperties
<1>4. line.event = f[n].event /\ f[n].form # "whole" /\ n = Len(f)
  OBVIOUS
<1> HIDE DEF n, line
<1>5. /\ [f EXCEPT ![n] = line] \in Seq(Line)
      /\ Len([f EXCEPT ![n] = line]) = Len(f)
      /\ \A j \in 1..Len(f) : [f EXCEPT ![n] = line][j] = IF j = n THEN line ELSE f[j]
  BY <1>1, <1>2, ExceptSeq
<1>6. Len(f) # 0
  BY <1>1
<1>7. h = [f EXCEPT ![n] = line]
  BY <1>3 DEF Reformed
<1>8. /\ h \in Seq(Line) /\ Len(h) = Len(f)
      /\ \A j \in 1..Len(f) : h[j] = IF j = n THEN line ELSE f[j]
  BY <1>5, <1>7
<1>9. \A j \in 1..Len(f) : /\ h[j].event = f[j].event
                           /\ f[j].form = "whole" => h[j] = f[j]
  BY <1>4, <1>8
<1>10. h[Len(h)] = line
  BY <1>1, <1>4, <1>8
<1> QED
  BY <1>4, <1>6, <1>8, <1>9, <1>10 DEF line

\* A line of the last file changes its form, unless it was whole.
LEMMA FormChanges ==
  ASSUME NEW fs \in Logs, Len(fs) # 0, NEW h \in Seq(Line), Len(h) = Len(fs[Len(fs)]),
         \A j \in Lines(fs, Len(fs)) :
           /\ h[j].event = fs[Len(fs)][j].event
           /\ fs[Len(fs)][j].form = "whole" => h[j] = fs[Len(fs)][j],
         NEW gs, Replaced(fs, h, gs)
  PROVE  gs \in Logs /\ Same(fs, gs) /\ gs[Len(gs)] = h
<1>1. /\ Len(fs) \in 1..Len(fs)
      /\ gs \in Logs /\ Len(gs) = Len(fs) /\ gs[Len(gs)] = h
      /\ \A g \in 1..Len(fs) : g # Len(fs) => gs[g] = fs[g]
  BY LastReplaced
<1>2. ASSUME NEW g \in 1..Len(fs)
      PROVE  /\ Len(gs[g]) = Len(fs[g]) /\ Len(fs[g]) \in Nat
             /\ \A i \in Lines(fs, g) : /\ gs[g][i].event = fs[g][i].event
                                        /\ fs[g][i].form = "whole" => gs[g][i] = fs[g][i]
  <2>1. Len(fs[g]) \in Nat
    BY Typed
  <2>2. CASE g = Len(fs)
    BY <1>1, <2>1, <2>2
  <2>3. CASE g # Len(fs)
    BY <1>1, <2>1, <2>3
  <2> QED
    BY <2>2, <2>3
<1>3. Same(fs, gs)
  <2>1. Len(gs) = Len(fs) /\ Len(fs) <= Len(gs)
    BY <1>1
  <2>2. \A g \in 1..Len(fs) : Len(fs[g]) <= Len(gs[g])
    BY <1>2
  <2> QED
    BY <1>2, <2>1, <2>2 DEF Same, Keeps
<1> QED
  BY <1>1, <1>3

\* The last line of the last file changes its form.
LEMMA TailChanges ==
  ASSUME NEW fs \in Logs, Len(fs) # 0, NEW f, f = fs[Len(fs)],
         f # <<>>, f[Len(f)].form # "whole",
         NEW form, form \in {"whole", "part", "bad"},
         NEW h, Reformed(f, form, h), NEW gs, Replaced(fs, h, gs)
  PROVE  /\ gs \in Logs /\ Same(fs, gs)
         /\ Len(gs[Len(gs)]) \in Lines(gs, Len(gs))
         /\ gs[Len(gs)][Len(gs[Len(gs)])] = [event |-> f[Len(f)].event, form |-> form]
<1>1. f \in Seq(Line) /\ Len(f) \in Nat
  BY LastFile
<1>2. /\ h \in Seq(Line) /\ Len(h) = Len(f) /\ Len(f) # 0
      /\ \A j \in 1..Len(f) : /\ h[j].event = f[j].event
                              /\ f[j].form = "whole" => h[j] = f[j]
      /\ h[Len(h)] = [event |-> f[Len(f)].event, form |-> form]
  BY <1>1, LastReformed
<1>3. gs \in Logs /\ Same(fs, gs) /\ gs[Len(gs)] = h
  BY <1>2, FormChanges DEF Lines
<1> QED
  BY <1>1, <1>2, <1>3 DEF Lines

\* A line is appended to the last file.
LEMMA LineAdded ==
  ASSUME NEW fs \in Logs, Len(fs) # 0, NEW line \in Line,
         NEW h \in Seq(Line), Len(h) = Len(fs[Len(fs)]) + 1, h[Len(h)] = line,
         \A j \in Lines(fs, Len(fs)) : h[j] = fs[Len(fs)][j],
         NEW gs, Replaced(fs, h, gs)
  PROVE  gs \in Logs /\ Grown(fs, gs, line) /\ Len(gs) = Len(fs)
<1>1. /\ Len(fs) \in 1..Len(fs)
      /\ gs \in Logs /\ Len(gs) = Len(fs) /\ gs[Len(gs)] = h
      /\ \A g \in 1..Len(fs) : g # Len(fs) => gs[g] = fs[g]
  BY LastReplaced
<1>2. ASSUME NEW g \in 1..Len(fs)
      PROVE  /\ Len(gs[g]) = IF g = Len(fs) THEN Len(fs[g]) + 1 ELSE Len(fs[g])
             /\ Len(fs[g]) <= Len(gs[g])
             /\ \A i \in Lines(fs, g) : gs[g][i] = fs[g][i]
  <2>1. Len(fs[g]) \in Nat
    BY Typed
  <2>2. CASE g = Len(fs)
    BY <1>1, <2>1, <2>2
  <2>3. CASE g # Len(fs)
    BY <1>1, <2>1, <2>3
  <2> QED
    BY <2>2, <2>3
<1>3. Len(fs) \in Nat /\ Len(fs) # Len(fs) + 1 /\ Len(h) # 0
  BY LastFile
<1>4. Len(fs) <= Len(gs)
  BY <1>1, <1>3
<1>5. Keeps(fs, gs)
  BY <1>2, <1>4 DEF Keeps
<1> QED
  BY <1>1, <1>2, <1>3, <1>5 DEF Grown

\* A line is the first of a new file.
LEMMA FileAdded ==
  ASSUME NEW fs \in Logs, NEW line \in Line,
         NEW os \in Logs, Len(os) = Len(fs) + 1, \A g \in 1..Len(fs) : os[g] = fs[g],
         NEW h \in Seq(Line), Len(h) = 1, h[1] = line, NEW gs, Replaced(os, h, gs)
  PROVE  gs \in Logs /\ Grown(fs, gs, line) /\ Len(gs) = Len(fs) + 1
<1>1. Len(fs) \in Nat /\ Len(os) # 0
  BY Typed
<1>2. /\ gs \in Logs /\ Len(gs) = Len(os) /\ gs[Len(gs)] = h
      /\ \A g \in 1..Len(os) : g # Len(os) => gs[g] = os[g]
  BY <1>1, LastReplaced
<1>3. ASSUME NEW g \in 1..Len(fs)
      PROVE  gs[g] = fs[g] /\ g # Len(gs) /\ Len(fs[g]) \in Nat
  <2>1. g \in 1..Len(os) /\ g # Len(os)
    BY <1>1
  <2> QED
    BY <1>2, <2>1, Typed
<1>4. Keeps(fs, gs)
  <2>1. Len(fs) <= Len(gs)
    BY <1>1, <1>2
  <2>2. \A g \in 1..Len(fs) : Len(fs[g]) <= Len(gs[g])
    BY <1>3
  <2> QED
    BY <1>3, <2>1, <2>2 DEF Keeps
<1>5. Len(gs) = Len(fs) + 1 /\ Len(gs) # 0
  BY <1>1, <1>2
<1>6. Len(gs[Len(gs)]) = 1 /\ gs[Len(gs)][1] = line
  BY <1>2
<1>7. \A f \in 1..Len(fs) :
        Len(gs[f]) = IF f = Len(gs) THEN Len(fs[f]) + 1 ELSE Len(fs[f])
  BY <1>3
<1>8. Grown(fs, gs, line)
  BY <1>4, <1>5, <1>6, <1>7 DEF Grown
<1> QED
  BY <1>2, <1>5, <1>8

-----------------------------------------------------------------------------
(* What the worker's appends make of the files.                            *)

\* What was written is a line of its own, unless the tail is torn.
LEMMA Appends ==
  ASSUME files \in Logs, live \in BOOLEAN, live => Len(files) # 0, seq \in Events,
         NEW form \in {"whole", "part", "bad"}, ~TornTail,
         Replaced(Opened, AppendedTo(Opened[Len(Opened)], form), files')
  PROVE  /\ files' \in Logs /\ Grown(files, files', [event |-> seq, form |-> form])
         /\ Len(files') = IF live THEN Len(files) ELSE Len(files) + 1
<1> DEFINE line == [event |-> seq, form |-> form]
<1>1. line \in Line
  BY DEF Line
<1>2. CASE live
  <2> DEFINE f == files[Len(files)]
  <2>1. Opened = files /\ Len(files) # 0 /\ f \in Seq(Line)
    BY <1>2, LastFile DEF Opened
  <2>2. AppendedTo(f, form) = Append(f, line)
    BY <1>2, <2>1 DEF TornTail, AppendedTo, Newest
  <2>3. Replaced(files, Append(f, line), files')
    BY <2>1, <2>2
  <2> HIDE DEF line
  <2>4. /\ Append(f, line) \in Seq(Line) /\ Len(Append(f, line)) = Len(f) + 1
        /\ Append(f, line)[Len(f) + 1] = line
        /\ \A j \in 1..Len(f) : Append(f, line)[j] = f[j]
    BY <1>1, <2>1, AppendProperties
  <2>5. files' \in Logs /\ Grown(files, files', line) /\ Len(files') = Len(files)
    BY <1>1, <2>1, <2>3, <2>4, LineAdded DEF Lines
  <2> QED
    BY <1>2, <2>5 DEF line
<1>3. CASE ~live
  <2> DEFINE os == Append(files, <<>>)
             h == Append(<<>>, line)
  <2>1. Opened = os
    BY <1>3 DEF Opened
  <2>2. /\ os \in Logs /\ Len(os) = Len(files) + 1 /\ os[Len(os)] = <<>>
        /\ \A g \in 1..Len(files) : os[g] = files[g]
    <3>1. <<>> \in Seq(Line)
      BY EmptySeq
    <3> QED
      BY <3>1, AppendProperties DEF Logs
  <2>3. AppendedTo(<<>>, form) = h
    BY DEF AppendedTo
  <2> HIDE DEF os
  <2>4. Replaced(os, h, files')
    BY <2>1, <2>2, <2>3
  <2> HIDE DEF line
  <2>5. h \in Seq(Line) /\ Len(h) = 1 /\ h[1] = line
    BY <1>1, EmptySeq, AppendProperties
  <2> HIDE DEF h
  <2>6. files' \in Logs /\ Grown(files, files', line) /\ Len(files') = Len(files) + 1
    BY <1>1, <2>2, <2>4, <2>5, FileAdded
  <2> QED
    BY <1>3, <2>6 DEF line
<1> QED
  BY <1>2, <1>3

\* Behind a torn line, that line is spoiled.
LEMMA Spoils ==
  ASSUME files \in Logs, live => Len(files) # 0, TornTail, NEW form,
         Replaced(Opened, AppendedTo(Opened[Len(Opened)], form), files')
  PROVE  files' \in Logs /\ Same(files, files')
<1> DEFINE f == files[Len(files)]
           h == [f EXCEPT ![Len(f)].form = "bad"]
<1>1. Opened = files /\ Len(files) # 0 /\ f \in Seq(Line)
  BY LastFile DEF Opened, TornTail
<1>2. f # <<>> /\ f[Len(f)].form = "part"
  BY DEF TornTail, Newest, Last
<1>3. AppendedTo(f, form) = h
  BY <1>2 DEF AppendedTo, Last
<1>4. Replaced(files, h, files')
  BY <1>1, <1>3
<1>5. Reformed(f, "bad", h)
  BY DEF Reformed
<1>6. f = files[Len(files)] /\ f[Len(f)].form # "whole"
  BY <1>2
<1> HIDE DEF f, h
<1> QED
  BY <1>1, <1>2, <1>4, <1>5, <1>6, TailChanges

\* The rest of a line makes it whole.
LEMMA Completes ==
  ASSUME files \in Logs, Len(files) # 0, files[Newest] # <<>>,
         files[Newest][Len(files[Newest])] = [event |-> seq, form |-> "part"],
         Replaced(files, [files[Newest] EXCEPT ![Len(files[Newest])].form = "whole"], files')
  PROVE  /\ files' \in Logs /\ Same(files, files')
         /\ Holds(files', Len(files'), seq)
<1> DEFINE f == files[Len(files)]
           h == [f EXCEPT ![Len(f)].form = "whole"]
<1>1. Len(files) # 0 /\ f \in Seq(Line) /\ Len(f) \in Nat
  BY LastFile
<1>2. f # <<>> /\ f[Len(f)].form = "part" /\ f[Len(f)].event = seq
  BY DEF Newest
<1>3. Replaced(files, h, files')
  BY DEF Newest
<1>4. Reformed(f, "whole", h)
  BY DEF Reformed
<1>5. f = files[Len(files)] /\ f[Len(f)].form # "whole"
  BY <1>2
<1> HIDE DEF f, h
<1>6. /\ files' \in Logs /\ Same(files, files')
      /\ Len(files'[Len(files')]) \in Lines(files', Len(files'))
      /\ files'[Len(files')][Len(files'[Len(files')])] = [event |-> f[Len(f)].event, form |-> "whole"]
  BY <1>1, <1>2, <1>3, <1>4, <1>5, TailChanges
<1> QED
  BY <1>2, <1>6 DEF Holds

-----------------------------------------------------------------------------
(* The worker's side of the invariant.                                     *)

Busy == {"unlink", "rename", "append", "writing"}

Types ==
  /\ pc \in {"new", "idle", "unlink", "rename", "append", "writing", "emitted", "done", "dead"}
  /\ seq \in 0..MaxEvents
  /\ pc \in Busy => seq # 0
  /\ pc = "new" => seq = 0
  /\ kind \in Kinds /\ (kind = "failure" => seq < MaxEvents)
  /\ files \in Logs /\ live \in BOOLEAN /\ backup \in 0..Len(files)
  /\ disk \in Manifest
  /\ lost \subseteq Events

\* Where the files are named at each step of a rotation.
Places ==
  /\ live => Len(files) # 0 /\ backup # Len(files)
  /\ ~live => backup = Len(files)
  /\ pc \in {"unlink", "rename"} => live /\ Len(files[Len(files)]) >= Capacity
  /\ pc = "rename" => backup = 0
  /\ pc = "append" => ~Full
  /\ pc = "writing" =>
       /\ live /\ files[Newest] # <<>>
       /\ files[Newest][Len(files[Newest])] = [event |-> seq, form |-> "part"]

Writer == Types /\ Places

LEMMA FilesChange ==
  ASSUME [Next]_vars
  PROVE  UNCHANGED files \/ AppendLine \/ AppendPart \/ AppendRest
  BY DEF Next, Worker, Refresh, vars, worker, log, Start, Emit, Save, Die, Unlink, Rename,
         AppendFails, LoadManifest, Open, ReadLine, EndRead

\* The last event, when its line is not written yet.
Top == IF pc \in {"unlink", "rename", "append"} THEN seq - 1 ELSE seq

Whole(n) == [event |-> n, form |-> "whole"]
Part(n) == [event |-> n, form |-> "part"]

LEMMA SeqTyped ==
  ASSUME Types
  PROVE  /\ seq \in Int /\ Top \in Int /\ Top <= seq /\ Capacity \in Nat \ {0} /\ MaxEvents \in Nat \ {0}
         /\ pc \in Busy => seq \in Events /\ Whole(seq) \in Line /\ Part(seq) \in Line
<1>1. /\ seq \in Int /\ Top \in Int /\ Top <= seq /\ Capacity \in Nat \ {0} /\ MaxEvents \in Nat \ {0}
  BY CapacityAssumption DEF Types, Top
<1>2. pc \in Busy => seq \in Events
  BY CapacityAssumption DEF Types, Events
<1> QED
  BY <1>1, <1>2 DEF Line, Whole, Part

LEMMA AppendLineDoes ==
  ASSUME Writer, AppendLine
  PROVE  /\ files' \in Logs
         /\ TornTail => Same(files, files')
         /\ ~TornTail => /\ Grown(files, files', Whole(seq))
                         /\ Len(files') = IF live THEN Len(files) ELSE Len(files) + 1
<1>1. Replaced(Opened, AppendedTo(Opened[Len(Opened)], "whole"), files')
  BY DEF AppendLine, Replaced
<1>2. files \in Logs /\ live \in BOOLEAN /\ (live => Len(files) # 0) /\ seq \in Events
  BY SeqTyped DEF Writer, Types, Places, AppendLine, Busy
<1>3. CASE TornTail
  BY <1>1, <1>2, <1>3, Spoils
<1>4. CASE ~TornTail
  BY <1>1, <1>2, <1>4, Appends DEF Whole
<1> QED
  BY <1>3, <1>4

LEMMA AppendPartDoes ==
  ASSUME Writer, AppendPart
  PROVE  /\ files' \in Logs /\ Grown(files, files', Part(seq))
         /\ Len(files') = IF live THEN Len(files) ELSE Len(files) + 1
<1>1. Replaced(Opened, AppendedTo(Opened[Len(Opened)], "part"), files') /\ ~TornTail
  BY DEF AppendPart, Replaced
<1>2. files \in Logs /\ live \in BOOLEAN /\ (live => Len(files) # 0) /\ seq \in Events
  BY SeqTyped DEF Writer, Types, Places, AppendPart, Busy
<1> QED
  BY <1>1, <1>2, Appends DEF Part

LEMMA AppendRestDoes ==
  ASSUME Writer, AppendRest
  PROVE  files' \in Logs /\ Same(files, files') /\ Holds(files', Len(files'), seq)
<1>1. Replaced(files, [files[Newest] EXCEPT ![Len(files[Newest])].form = "whole"], files')
  BY DEF AppendRest, Replaced, Newest
<1>2. /\ files \in Logs /\ Len(files) # 0 /\ files[Newest] # <<>>
      /\ files[Newest][Len(files[Newest])] = [event |-> seq, form |-> "part"]
  BY DEF Writer, Types, Places, AppendRest
<1> QED
  BY <1>1, <1>2, Completes

LEMMA GrownKeeps == ASSUME NEW fs, NEW gs, NEW line, Grown(fs, gs, line) PROVE Keeps(fs, gs)
  BY DEF Grown

LEMMA StepKeeps ==
  ASSUME Writer, [Next]_vars
  PROVE  files' \in Logs /\ Keeps(files, files')
<1>1. CASE UNCHANGED files
  <2>1. files \in Logs
    BY DEF Writer, Types
  <2>2. Keeps(files, files)
    BY <2>1, Typed DEF Keeps
  <2> QED
    BY <1>1, <2>1, <2>2
<1>2. CASE AppendLine
  BY <1>2, AppendLineDoes, GrownKeeps DEF Same
<1>3. CASE AppendPart
  BY <1>3, AppendPartDoes, GrownKeeps
<1>4. CASE AppendRest
  BY <1>4, AppendRestDoes DEF Same
<1> QED
  BY <1>1, <1>2, <1>3, <1>4, FilesChange

LEMMA WriterInit == Init => Writer
<1> SUFFICES ASSUME Init PROVE Writer
  OBVIOUS
<1>1. files \in Logs /\ Len(files) = 0
  <2>1. <<>> \in Seq(Seq(Line)) /\ Len(<<>>) = 0
    BY EmptySeq, Zenon
  <2> QED
    BY <2>1 DEF Init, Logs
<1>2. Types
  <2>1. seq \in 0..MaxEvents /\ backup \in 0..Len(files)
    BY <1>1, CapacityAssumption DEF Init
  <2>2. disk \in Manifest
    BY CapacityAssumption DEF Init, Manifest, ManifestAt
  <2>3. pc = "new" /\ seq = 0 /\ lost \subseteq Events /\ kind = "plain" /\ kind \in Kinds /\ live \in BOOLEAN
    BY DEF Init, Kinds
  <2> QED
    BY <1>1, <2>1, <2>2, <2>3 DEF Types, Busy
<1>3. Places
  BY <1>1 DEF Init, Places
<1> QED
  BY <1>2, <1>3 DEF Writer

LEMMA TypesStep ==
  ASSUME Writer, [Next]_vars
  PROVE  Types'
<1>1. Types /\ MaxEvents \in Nat \ {0} /\ Len(files) \in Nat
  BY CapacityAssumption, Typed DEF Writer, Types
<1>2. files' \in Logs /\ Keeps(files, files') /\ Len(files') \in Nat
  BY StepKeeps, Typed
<1>3. backup' \in 0..Len(files')
  <2>1. backup' \in {0, backup, Len(files)}
    BY DEF Next, Worker, Refresh, vars, worker, log, Start, Emit, Save, Die, Unlink, Rename, AppendLine,
           AppendPart, AppendRest, AppendFails, LoadManifest, Open, ReadLine, EndRead, Newest
  <2>2. Len(files) <= Len(files')
    BY <1>2 DEF Keeps
  <2> QED
    BY <1>1, <1>2, <2>1, <2>2 DEF Types
<1>4. pc' \in {"new", "idle", "unlink", "rename", "append", "writing", "emitted", "done", "dead"}
  BY <1>1 DEF Next, Worker, Refresh, vars, worker, log, Start, Emit, Save, Die, Unlink, Rename, AppendLine,
         AppendPart, AppendRest, AppendFails, LoadManifest, Open, ReadLine, EndRead, Types
<1>5. seq' \in 0..MaxEvents /\ (pc' \in Busy => seq' # 0)
  <2>1. CASE Emit
    <3>1. seq \in 0..MaxEvents /\ seq < MaxEvents /\ seq' = seq + 1
      BY <1>1, <2>1 DEF Emit, Stamp, Types
    <3> QED
      BY <1>1, <3>1
  <2>2. CASE UNCHANGED seq /\ (pc' \in Busy => pc \in Busy)
    BY <1>1, <2>2 DEF Types
  <2>3. Emit \/ (UNCHANGED seq /\ (pc' \in Busy => pc \in Busy))
    BY DEF Next, Worker, Refresh, vars, worker, log, Start, Save, Die, Unlink, Rename, AppendLine,
           AppendPart, AppendRest, AppendFails, LoadManifest, Open, ReadLine, EndRead, Busy
  <2> QED
    BY <2>1, <2>2, <2>3
<1>6. kind' \in Kinds /\ (kind' = "failure" => seq' < MaxEvents) /\ live' \in BOOLEAN
  <2>1. CASE Emit
    BY <1>1, <2>1 DEF Emit, Stamp, Kinds, log, Types
  <2>2. CASE UNCHANGED <<seq, kind>> /\ live' \in BOOLEAN
    BY <1>1, <2>2 DEF Types
  <2>3. Emit \/ (UNCHANGED <<seq, kind>> /\ live' \in BOOLEAN)
    BY <1>1 DEF Next, Worker, Refresh, vars, worker, log, Start, Save, Die, Unlink, Rename, AppendLine,
           AppendPart, AppendRest, AppendFails, LoadManifest, Open, ReadLine, EndRead, Types
  <2> QED
    BY <2>1, <2>2, <2>3
<1>7. disk' \in Manifest
  <2>1. disk \in Manifest /\ seq \in 0..MaxEvents /\ kind \in Kinds /\ (kind = "failure" => seq < MaxEvents)
    BY <1>1 DEF Types
  <2>2. CASE Start
    <3>1. 1 \in 0..MaxEvents
      BY <1>1
    <3>2. [disk EXCEPT !.upto = 1, !.ahead = TRUE] \in Manifest
      BY <2>1, <3>1 DEF Manifest
    <3> QED
      BY <2>1, <2>2, <3>2 DEF Start
  <2>3. CASE Save
    <3>1. ManifestAt(seq, kind) \in Manifest
      BY <1>1, <2>1 DEF Manifest, ManifestAt
    <3> QED
      BY <2>1, <2>3, <3>1 DEF Save
  <2>4. Start \/ Save \/ UNCHANGED disk
    BY DEF Next, Worker, Refresh, vars, worker, log, Emit, Die, Unlink, Rename, AppendLine,
           AppendPart, AppendRest, AppendFails, LoadManifest, Open, ReadLine, EndRead
  <2> QED
    BY <2>1, <2>2, <2>3, <2>4
<1>8. lost' \subseteq Events
  <2>1. lost' \subseteq lost \cup (IF pc \in Busy THEN {seq} ELSE {})
    BY DEF Next, Worker, Refresh, vars, worker, log, Start, Emit, Save, Die, Unlink, Rename, AppendLine,
           AppendPart, AppendRest, AppendFails, LoadManifest, Open, ReadLine, EndRead, Busy
  <2> QED
    BY <1>1, <2>1, SeqTyped DEF Types
<1>9. pc' = "new" => pc = "new" /\ seq' = seq
  BY DEF Next, Worker, Refresh, vars, worker, log, Start, Emit, Save, Die, Unlink, Rename, AppendLine,
         AppendPart, AppendRest, AppendFails, LoadManifest, Open, ReadLine, EndRead
<1> QED
  BY <1>1, <1>2, <1>3, <1>4, <1>5, <1>6, <1>7, <1>8, <1>9 DEF Types

\* The page leaves the worker, its log and the manifest alone.
LEMMA PageSteps ==
  ASSUME [Next]_vars
  PROVE  UNCHANGED <<pc, seq, files, live, backup, disk, lost>> \/ (Worker /\ UNCHANGED page)
  BY DEF Next, Worker, Refresh, vars, worker, log, Start, Emit, Save, Die, Unlink, Rename, AppendLine,
         AppendPart, AppendRest, AppendFails, LoadManifest, Open, ReadLine, EndRead

LEMMA PlacesStep ==
  ASSUME Writer, [Next]_vars
  PROVE  Places'
<1>1. Types /\ Places /\ Len(files) \in Nat
  BY Typed DEF Writer, Types
<1>2. CASE UNCHANGED <<pc, seq, files, live, backup, disk, lost>>
  BY <1>1, <1>2 DEF Places, Full, Newest
<1>3. CASE Start
  BY <1>1, <1>3 DEF Start, log, Places
<1>4. CASE Emit
  BY <1>1, <1>4 DEF Emit, Stamp, log, Places, NeedsRotation, Full, Newest
<1>5. CASE Unlink
  BY <1>1, <1>5 DEF Unlink, Places
<1>6. CASE Rename
  BY <1>1, <1>6 DEF Rename, Places, Newest, Full
<1>7. CASE AppendLine
  <2>1. Len(files') = (IF live THEN Len(files) ELSE Len(files) + 1)
    <3>1. TornTail => live
      BY DEF TornTail
    <3> QED
      BY <1>7, <3>1, AppendLineDoes DEF Same
  <2> QED
    BY <1>1, <1>7, <2>1 DEF AppendLine, Places
<1>8. CASE AppendPart
  <2>1. /\ Len(files') = (IF live THEN Len(files) ELSE Len(files) + 1)
        /\ Grown(files, files', Part(seq)) /\ files' \in Logs
    BY <1>8, AppendPartDoes
  <2>2. live' /\ pc' = "writing" /\ backup' = backup /\ seq' = seq
    BY <1>8 DEF AppendPart
  <2>3. Len(files') # 0 /\ backup # Len(files')
    BY <1>1, <2>1 DEF Places
  <2>4. /\ files'[Len(files')] # <<>>
        /\ files'[Len(files')][Len(files'[Len(files')])] = Part(seq)
    <3>1. Len(files'[Len(files')]) # 0
      BY <2>1 DEF Grown
    <3>2. Len(<<>>) = 0
      BY EmptySeq
    <3> QED
      BY <2>1, <3>1, <3>2 DEF Grown
  <2> QED
    BY <2>2, <2>3, <2>4 DEF Places, Newest, Part
<1>9. CASE AppendRest
  <2>1. Len(files') = Len(files)
    BY <1>9, AppendRestDoes DEF Same
  <2> QED
    BY <1>1, <1>9, <2>1 DEF AppendRest, Places
<1>10. CASE AppendFails
  BY <1>1, <1>10 DEF AppendFails, log, Places
<1>11. CASE Save
  BY <1>1, <1>11 DEF Save, log, Places
<1>12. CASE Die
  BY <1>1, <1>12 DEF Die, log, Places
<1> QED
  BY <1>2, <1>3, <1>4, <1>5, <1>6, <1>7, <1>8, <1>9, <1>10, <1>11, <1>12, PageSteps DEF Worker

LEMMA WriterStep == Writer /\ [Next]_vars => Writer'
  BY TypesStep, PlacesStep DEF Writer

-----------------------------------------------------------------------------
(* What the log holds.                                                     *)

\* An event that the log or the losses account for.
Accounted(n) == n \in lost \/ \E f \in 1..Len(files) : Holds(files, f, n)

AllWritten == \A n \in Appended : \E f \in 1..Len(files) : Holds(files, f, n)

\* A file that is neither events.jsonl nor events.jsonl.1 has old lines only.
Out(f) == f # backup /\ ~(live /\ f = Len(files))

OldAreOld ==
  \A f \in 1..Len(files) : Out(f) =>
    \A i \in Lines(files, f) : files[f][i].event <= seq - Capacity

ManifestIsCovered == \A n \in Announced(disk) : Accounted(n)

LogInv == Writer /\ InShape(files, Top) /\ AllWritten /\ OldAreOld /\ ManifestIsCovered

LEMMA HoldsIsKept ==
  ASSUME NEW fs \in Logs, NEW gs \in Logs, Keeps(fs, gs), NEW f \in 1..Len(fs), NEW n, Holds(fs, f, n)
  PROVE  f \in 1..Len(gs) /\ Holds(gs, f, n)
<1>1. Len(fs) \in Nat /\ Len(gs) \in Nat /\ Len(fs) <= Len(gs) /\ f \in 1..Len(gs)
  BY Typed DEF Keeps
<1>2. Len(fs[f]) \in Nat /\ Len(gs[f]) \in Nat /\ Len(fs[f]) <= Len(gs[f])
  BY <1>1, Typed DEF Keeps
<1>3. PICK i \in Lines(fs, f) : fs[f][i] = [event |-> n, form |-> "whole"]
  BY DEF Holds
<1>4. i \in Lines(gs, f)
  BY <1>2 DEF Lines
<1>5. gs[f][i] = fs[f][i]
  BY <1>3 DEF Keeps
<1> QED
  BY <1>1, <1>3, <1>4, <1>5 DEF Holds

LEMMA LostGrows == ASSUME [Next]_vars PROVE lost \subseteq lost'
  BY DEF Next, Worker, Refresh, vars, worker, log, Start, Emit, Save, Die, Unlink, Rename, AppendLine,
         AppendPart, AppendRest, AppendFails, LoadManifest, Open, ReadLine, EndRead

LEMMA AccountedStays ==
  ASSUME Writer, [Next]_vars, NEW n, Accounted(n)
  PROVE  Accounted(n)'
<1>1. CASE n \in lost
  BY <1>1, LostGrows DEF Accounted
<1>2. CASE n \notin lost
  <2>1. PICK f \in 1..Len(files) : Holds(files, f, n)
    BY <1>2 DEF Accounted
  <2>2. files \in Logs /\ files' \in Logs /\ Keeps(files, files')
    BY StepKeeps DEF Writer, Types
  <2>3. f \in 1..Len(files') /\ Holds(files', f, n)
    BY <2>1, <2>2, HoldsIsKept
  <2> QED
    BY <2>3 DEF Accounted
<1> QED
  BY <1>1, <1>2

LEMMA ShapeGrows ==
  ASSUME NEW fs \in Logs, NEW m \in Int, NEW n \in Int, m <= n, InShape(fs, m)
  PROVE  InShape(fs, n)
<1>1. ASSUME NEW f \in 1..Len(fs), NEW i \in Lines(fs, f) PROVE fs[f][i].event <= n
  <2>1. fs[f][i].event <= m /\ fs[f][i].event \in Int
    BY EventTyped DEF InShape, Below
  <2> QED
    BY <2>1
<1> QED
  BY <1>1 DEF InShape, Below

LEMMA WholeEvent == \A n : Whole(n).event = n /\ Part(n).event = n
  BY DEF Whole, Part

LEMMA ShapeStep ==
  ASSUME Writer, InShape(files, Top), [Next]_vars
  PROVE  InShape(files, Top)'
<1>1. /\ Types /\ Types' /\ files \in Logs /\ files' \in Logs
      /\ Top \in Int /\ Top' \in Int /\ seq \in Int /\ Top <= seq
  <2>1. Types /\ Types'
    BY TypesStep DEF Writer
  <2>2. Top \in Int /\ seq \in Int /\ Top <= seq
    BY <2>1, SeqTyped
  <2>3. Top' \in Int
    BY <2>1 DEF Types, Top
  <2> QED
    BY <2>1, <2>2, <2>3 DEF Types
<1>2. CASE UNCHANGED files
  <2>1. Top <= Top'
    <3>1. CASE Emit
      BY <1>1, <3>1 DEF Emit, Stamp, Top
    <3>2. CASE seq' = seq /\ (pc' \in {"unlink", "rename", "append"} => pc \in {"unlink", "rename", "append"})
      BY <1>1, <3>2 DEF Top
    <3>3. Emit \/ (seq' = seq /\ (pc' \in {"unlink", "rename", "append"} => pc \in {"unlink", "rename", "append"}))
      BY DEF Next, Worker, Refresh, vars, worker, log, Start, Save, Die, Unlink, Rename,
         AppendLine, AppendPart, AppendRest, AppendFails, LoadManifest, Open, ReadLine, EndRead
    <3> QED
      BY <3>1, <3>2, <3>3
  <2> QED
    BY <1>1, <1>2, <2>1, ShapeGrows
<1>3. CASE AppendLine
  <2>1. Top' = seq /\ Top = seq - 1
    BY <1>3 DEF AppendLine, Top
  <2>2. CASE TornTail
    <3>1. InShape(files', Top)
      BY <1>1, <1>3, <2>2, AppendLineDoes, SameKeepsShape
    <3> QED
      BY <1>1, <2>1, <3>1, ShapeGrows
  <2>3. CASE ~TornTail
    <3>1. Grown(files, files', Whole(seq)) /\ Whole(seq) \in Line /\ Whole(seq).event = seq
      BY <1>1, <1>3, <2>3, AppendLineDoes, SeqTyped, WholeEvent DEF AppendLine, Busy
    <3>2. InShape(files', seq)
      BY <1>1, <2>1, <3>1, GrownKeepsShape
    <3> QED
      BY <2>1, <3>2
  <2> QED
    BY <2>2, <2>3
<1>4. CASE AppendPart
  <2>1. Top' = seq /\ Top = seq - 1
    BY <1>4 DEF AppendPart, Top
  <2>2. Grown(files, files', Part(seq)) /\ Part(seq) \in Line /\ Part(seq).event = seq
    BY <1>1, <1>4, AppendPartDoes, SeqTyped, WholeEvent DEF AppendPart, Busy
  <2>3. InShape(files', seq)
    BY <1>1, <2>1, <2>2, GrownKeepsShape
  <2> QED
    BY <2>1, <2>3
<1>5. CASE AppendRest
  <2>1. Top' = seq /\ Top = seq
    BY <1>5 DEF AppendRest, Top
  <2>2. InShape(files', Top)
    BY <1>1, <1>5, AppendRestDoes, SameKeepsShape
  <2> QED
    BY <2>1, <2>2
<1> QED
  BY <1>2, <1>3, <1>4, <1>5, FilesChange

\* A whole line that grew is held.
LEMMA GrownHolds ==
  ASSUME NEW fs \in Logs, NEW gs \in Logs, NEW n, Grown(fs, gs, Whole(n))
  PROVE  Len(gs) \in 1..Len(gs) /\ Holds(gs, Len(gs), n)
<1>1. Len(gs) \in 1..Len(gs)
  BY Typed DEF Grown
<1>2. Len(gs[Len(gs)]) \in Lines(gs, Len(gs))
  BY <1>1, Typed DEF Grown, Lines
<1> QED
  BY <1>1, <1>2 DEF Grown, Holds, Whole

LEMMA AllWrittenStep ==
  ASSUME Writer, AllWritten, [Next]_vars
  PROVE  AllWritten'
<1>1. Types /\ files \in Logs /\ files' \in Logs /\ Keeps(files, files') /\ seq \in Int
  BY StepKeeps, SeqTyped DEF Writer, Types
<1>2. \A n \in Appended : \E f \in 1..Len(files') : Holds(files', f, n)
  BY <1>1, HoldsIsKept DEF AllWritten
<1>3. \A n \in Appended' : n \in Appended \/ (n = seq /\ ((AppendLine /\ ~TornTail) \/ AppendRest))
  <2>1. CASE UNCHANGED <<pc, seq, files, live, backup, disk, lost>>
    BY <2>1 DEF Appended
  <2>2. CASE Start \/ Emit \/ Save \/ Die \/ Unlink \/ Rename \/ AppendFails
    BY <1>1, <2>2 DEF Start, Emit, Stamp, Save, Die, Unlink, Rename, AppendFails, worker, log, Appended, Types
  <2>3. CASE AppendLine \/ AppendPart \/ AppendRest
    BY <1>1, <2>3 DEF AppendLine, AppendPart, AppendRest, Appended
  <2> QED
    BY <2>1, <2>2, <2>3, PageSteps DEF Worker
<1>4. ASSUME AppendLine, ~TornTail
      PROVE  \E f \in 1..Len(files') : Holds(files', f, seq)
  BY <1>1, <1>4, AppendLineDoes, GrownHolds
<1>5. ASSUME AppendRest
      PROVE  \E f \in 1..Len(files') : Holds(files', f, seq)
  <2>1. Len(files') # 0
    BY <1>1, <1>5, AppendRestDoes DEF Same, Writer, Places, AppendRest
  <2>2. Len(files') \in 1..Len(files')
    BY <1>1, <2>1, LastFile
  <2> QED
    BY <1>5, <2>2, AppendRestDoes
<1> QED
  BY <1>2, <1>3, <1>4, <1>5 DEF AllWritten

\* A full file reaches back for its capacity.
LEMMA FirstIsOld ==
  ASSUME NEW fs \in Logs, NEW m \in Int, InShape(fs, m), Len(fs) # 0,
         NEW c \in Nat \ {0}, Len(fs[Len(fs)]) >= c
  PROVE  /\ 1 \in Lines(fs, Len(fs))
         /\ fs[Len(fs)][1].event <= m + 1 - c
<1> DEFINE n == Len(fs)
           k == Len(fs[n])
<1>1. n \in 1..Len(fs) /\ k \in Nat /\ k >= c
  BY LastFile
<1>2. 1 \in Lines(fs, n) /\ k \in Lines(fs, n) /\ 1 <= k
  BY <1>1 DEF Lines
<1>3. fs[n][1].event + (k - 1) <= fs[n][k].event /\ fs[n][k].event <= m
  BY <1>1, <1>2 DEF InShape, Gaps, Below
<1>4. fs[n][1].event \in Int /\ fs[n][k].event \in Int
  BY <1>1, <1>2, EventTyped
<1> HIDE DEF k
<1>5. fs[n][1].event <= m + 1 - c
  BY <1>1, <1>3, <1>4
<1> QED
  BY <1>2, <1>5

\* So every line of an earlier file is older than the capacity.
LEMMA EarlierAreOld ==
  ASSUME NEW fs \in Logs, NEW m \in Int, InShape(fs, m), Len(fs) # 0,
         NEW c \in Nat \ {0}, Len(fs[Len(fs)]) >= c,
         NEW f \in 1..Len(fs), f # Len(fs), NEW i \in Lines(fs, f)
  PROVE  fs[f][i].event <= m - c
<1>1. 1 \in Lines(fs, Len(fs)) /\ fs[Len(fs)][1].event <= m + 1 - c
  BY FirstIsOld
<1>2. Len(fs) \in 1..Len(fs) /\ f < Len(fs)
  BY LastFile
<1>3. fs[f][i].event < fs[Len(fs)][1].event
  BY <1>1, <1>2 DEF InShape, Ordered
<1>4. fs[f][i].event \in Int /\ fs[Len(fs)][1].event \in Int
  BY <1>1, <1>2, EventTyped
<1> QED
  BY <1>1, <1>3, <1>4

LEMMA OldStep ==
  ASSUME Writer, InShape(files, Top), OldAreOld, [Next]_vars
  PROVE  OldAreOld'
<1>1. /\ Types /\ Places /\ files \in Logs /\ files' \in Logs /\ Keeps(files, files')
      /\ Types' /\ Places'
      /\ Len(files) \in Nat /\ Capacity \in Nat \ {0} /\ seq \in Int /\ seq' \in Int /\ seq <= seq'
  <2>1. Types /\ Places /\ Types' /\ Places'
    BY WriterStep DEF Writer
  <2>2. seq \in 0..MaxEvents /\ seq' \in 0..MaxEvents /\ MaxEvents \in Nat
    BY <2>1, CapacityAssumption DEF Types
  <2>3. seq <= seq'
    <3>1. seq' \in {seq, seq + 1}
      BY DEF Next, Worker, Refresh, vars, worker, log, Start, Emit, Stamp, Save, Die, Unlink, Rename, AppendLine,
         AppendPart, AppendRest, AppendFails, LoadManifest, Open, ReadLine, EndRead
    <3> QED
      BY <2>2, <3>1
  <2> QED
    BY <2>1, <2>2, <2>3, StepKeeps, Typed, CapacityAssumption DEF Types
<1>2. CASE UNCHANGED <<files, live, backup>>
  <2> SUFFICES ASSUME NEW f \in 1..Len(files), Out(f), NEW i \in Lines(files, f)
               PROVE  files[f][i].event <= seq' - Capacity
    BY <1>2 DEF OldAreOld, Out
  <2>1. files[f][i].event <= seq - Capacity /\ files[f][i].event \in Int
    BY <1>1, EventTyped DEF OldAreOld
  <2> QED
    BY <1>1, <2>1
<1>3. CASE Unlink
  <2>1. live /\ live' /\ Len(files) # 0 /\ Len(files[Len(files)]) >= Capacity /\ files' = files /\ seq' = seq
    BY <1>1, <1>3 DEF Unlink, Places, Types
  <2>2. Top = seq - 1 /\ Top \in Int
    BY <1>1, <1>3 DEF Unlink, Top
  <2> SUFFICES ASSUME NEW f \in 1..Len(files), f # Len(files), NEW i \in Lines(files, f)
               PROVE  files[f][i].event <= seq - Capacity
    BY <2>1 DEF OldAreOld, Out
  <2>3. files[f][i].event <= Top - Capacity
    BY <1>1, <2>1, <2>2, EarlierAreOld
  <2>4. files[f][i].event \in Int
    BY <1>1, EventTyped
  <2> QED
    BY <1>1, <2>2, <2>3, <2>4
<1>4. CASE Rename
  <2>1. /\ live /\ backup = 0 /\ ~live' /\ backup' = Len(files) /\ files' = files /\ seq' = seq
    BY <1>1, <1>4 DEF Rename, Places, Newest
  <2>2. \A f \in 1..Len(files) : Out(f)' => Out(f)
    BY <1>1, <2>1 DEF Out
  <2> QED
    BY <1>1, <2>1, <2>2 DEF OldAreOld
<1>5. ASSUME live', backup' = backup, seq' = seq,
             Len(files') = IF live THEN Len(files) ELSE Len(files) + 1,
             \A f \in 1..Len(files) : f # Len(files') => Len(files'[f]) = Len(files[f])
      PROVE  OldAreOld'
  <2> SUFFICES ASSUME NEW f \in 1..Len(files'), f # backup, f # Len(files'), NEW i \in Lines(files', f)
               PROVE  files'[f][i].event <= seq - Capacity
    BY <1>5 DEF OldAreOld, Out
  <2>1. f \in 1..Len(files) /\ Out(f)
    BY <1>1, <1>5 DEF Out, Places, Types
  <2>2. i \in Lines(files, f) /\ files'[f][i].event = files[f][i].event
    BY <1>1, <1>5, <2>1 DEF Lines, Keeps
  <2> QED
    BY <2>1, <2>2 DEF OldAreOld
<1>6. CASE AppendLine
  <2>1. live' /\ backup' = backup /\ seq' = seq
    BY <1>6 DEF AppendLine
  <2>2. CASE TornTail
    BY <1>5, <1>6, <2>1, <2>2, AppendLineDoes DEF Same, TornTail
  <2>3. CASE ~TornTail
    BY <1>5, <1>6, <2>1, <2>3, AppendLineDoes DEF Grown
  <2> QED
    BY <2>2, <2>3
<1>7. CASE AppendPart
  <2>1. live' /\ backup' = backup /\ seq' = seq
    BY <1>7 DEF AppendPart
  <2> QED
    BY <1>5, <1>7, <2>1, AppendPartDoes DEF Grown
<1>8. CASE AppendRest
  <2>1. live /\ live' /\ backup' = backup /\ seq' = seq
    BY <1>1, <1>8 DEF AppendRest, Places, Types
  <2> QED
    BY <1>5, <1>8, <2>1, AppendRestDoes DEF Same
<1>9. \/ UNCHANGED <<files, live, backup>>
      \/ Unlink \/ Rename \/ AppendLine \/ AppendPart \/ AppendRest
  BY DEF Next, Worker, Refresh, vars, worker, log, Start, Emit, Save, Die,
         AppendFails, LoadManifest, Open, ReadLine, EndRead
<1> QED
  BY <1>2, <1>3, <1>4, <1>6, <1>7, <1>8, <1>9

LEMMA CoveredStep ==
  ASSUME Writer, AllWritten, ManifestIsCovered, [Next]_vars
  PROVE  ManifestIsCovered'
<1>1. \A n : Accounted(n) => Accounted(n)'
  BY AccountedStays
<1>2. CASE UNCHANGED disk
  BY <1>1, <1>2 DEF ManifestIsCovered
<1>3. CASE Start
  <2>1. disk \in Manifest
    BY DEF Writer, Types
  <2>2. disk' = disk \/ (disk'.upto = 1 /\ disk'.ahead)
    BY <1>3, <2>1 DEF Start, Manifest
  <2> QED
    BY <1>1, <2>2 DEF ManifestIsCovered, Announced
<1>4. CASE Save
  <2>1. seq \in Int /\ (disk' = disk \/ Announced(disk') = 1..seq)
    <3>1. seq \in Int
      BY SeqTyped DEF Writer
    <3>2. Announced(ManifestAt(seq, kind)) = 1..seq
      <4>1. CASE kind = "failure"
        <5>1. ManifestAt(seq, kind).upto = seq + 1 /\ ManifestAt(seq, kind).ahead
          BY <4>1 DEF ManifestAt
        <5>2. (seq + 1) - 1 = seq
          BY <3>1
        <5> QED
          BY <5>1, <5>2, Zenon DEF Announced
      <4>2. CASE kind # "failure"
        BY <3>1, <4>2 DEF ManifestAt, Announced
      <4> QED
        BY <4>1, <4>2
    <3>3. disk' = disk \/ disk' = ManifestAt(seq, kind)
      BY <1>4 DEF Save
    <3> QED
      BY <3>1, <3>2, <3>3
  <2>2. ASSUME NEW n \in 1..seq
        PROVE  Accounted(n)
    <3>1. n \in lost \/ n \in Appended
      BY <1>4, SeqTyped DEF Save, Appended, Writer
    <3> QED
      BY <3>1 DEF AllWritten, Accounted
  <2> QED
    BY <1>1, <2>1, <2>2 DEF ManifestIsCovered
<1>5. UNCHANGED disk \/ Start \/ Save
  BY DEF Next, Worker, Refresh, vars, worker, log, Emit, Die, Unlink, Rename, AppendLine,
         AppendPart, AppendRest, AppendFails, LoadManifest, Open, ReadLine, EndRead
<1> QED
  BY <1>2, <1>3, <1>4, <1>5

LEMMA LogInvInit == Init => LogInv
<1> SUFFICES ASSUME Init PROVE LogInv
  OBVIOUS
<1>1. Writer
  BY WriterInit
<1>2. Len(files) = 0 /\ pc = "new" /\ seq = 0 /\ Announced(disk) = {}
  BY EmptySeq DEF Init, ManifestAt, Announced
<1>3. InShape(files, Top)
  BY <1>2 DEF InShape, Gaps, Ordered, Below
<1>4. AllWritten
  BY <1>2 DEF AllWritten, Appended
<1>5. OldAreOld /\ ManifestIsCovered
  BY <1>2 DEF OldAreOld, ManifestIsCovered
<1> QED
  BY <1>1, <1>3, <1>4, <1>5 DEF LogInv

LEMMA LogInvStep == LogInv /\ [Next]_vars => LogInv'
  BY WriterStep, ShapeStep, AllWrittenStep, OldStep, CoveredStep DEF LogInv

LEMMA HeldIsWritten ==
  ASSUME NEW f \in 1..Len(files), files \in Logs, NEW n
  PROVE  Holds(files, f, n) <=> n \in Written(f)
<1>1. files[f] \in Seq(Line) /\ DOMAIN files[f] = Lines(files, f)
  BY Typed
<1>2. ToSet(files[f]) = {files[f][i] : i \in Lines(files, f)}
  BY <1>1 DEF ToSet
<1>3. ASSUME Holds(files, f, n) PROVE n \in Written(f)
  <2>1. PICK i \in Lines(files, f) : files[f][i] = [event |-> n, form |-> "whole"]
    BY <1>3 DEF Holds
  <2>2. /\ files[f][i] \in {l \in ToSet(files[f]) : l.form = "whole"}
        /\ files[f][i].event = n
    BY <1>2, <2>1
  <2> QED
    BY <2>2 DEF Written
<1>4. ASSUME n \in Written(f) PROVE Holds(files, f, n)
  <2>1. PICK l \in ToSet(files[f]) : l.form = "whole" /\ l.event = n
    BY <1>4 DEF Written
  <2>2. PICK i \in Lines(files, f) : files[f][i] = l
    BY <1>2, <2>1
  <2>3. l \in Line
    BY <2>2, Typed
  <2>4. l = [event |-> n, form |-> "whole"]
    BY <2>1, <2>3 DEF Line
  <2> QED
    BY <2>2, <2>4 DEF Holds
<1> QED
  BY <1>3, <1>4

\* Whatever step of a rotation or of an append fails, and wherever the worker
\* dies, each of the last events, as many as a file may have lines, is in
\* events.jsonl or in events.jsonl.1 unless its own append failed
\* (JsonlEventSink._rotate_if_needed, JsonlEventSink.emit).
THEOREM RecentIsKeptAlways == Spec => []RecentIsKept
<1>1. LogInv => RecentIsKept
  <2> SUFFICES ASSUME LogInv, NEW n \in Appended, n > seq - Capacity
               PROVE  \/ live /\ n \in Written(Newest)
                      \/ backup # 0 /\ n \in Written(backup)
    BY DEF RecentIsKept
  <2>1. files \in Logs
    BY DEF LogInv, Writer, Types
  <2>2. PICK f \in 1..Len(files) : Holds(files, f, n)
    BY DEF LogInv, AllWritten
  <2>3. PICK i \in Lines(files, f) : files[f][i] = [event |-> n, form |-> "whole"]
    BY <2>2 DEF Holds
  <2>4. ~Out(f)
    BY <2>3, SeqTyped DEF LogInv, Writer, OldAreOld, Appended
  <2>5. n \in Written(f)
    BY <2>1, <2>2, HeldIsWritten
  <2> QED
    BY <2>4, <2>5 DEF Out, Newest
<1> QED
  BY <1>1, LogInvInit, LogInvStep, PTL DEF Spec

-----------------------------------------------------------------------------
(* The page's side of the invariant.                                       *)

Shows(seen, n) == \E k \in 1..Len(seen) : seen[k] = n

\* What was read is from lines before the next one.
Behind(fs, f, next, seen) ==
  \A k \in 1..Len(seen) : \E i \in Lines(fs, f) : i < next /\ seen[k] = fs[f][i].event

\* What is owed was read, or stands on a line that is still to be read.
Owing(fs, f, next, seen, owed) ==
  \A n \in owed : Shows(seen, n) \/ \E i \in Lines(fs, f) : i >= next /\ fs[f][i] = Whole(n)

LEMMA BehindIsKept ==
  ASSUME NEW fs \in Logs, NEW gs \in Logs, Keeps(fs, gs), NEW f \in 1..Len(fs),
         NEW next, NEW seen, Behind(fs, f, next, seen)
  PROVE  Behind(gs, f, next, seen)
<1>1. Len(fs[f]) \in Nat /\ Len(gs[f]) \in Nat /\ Len(fs[f]) <= Len(gs[f])
  BY Typed DEF Keeps
<1>2. \A i \in Lines(fs, f) : i \in Lines(gs, f) /\ gs[f][i].event = fs[f][i].event
  BY <1>1 DEF Lines, Keeps
<1> QED
  BY <1>2 DEF Behind

LEMMA OwingIsKept ==
  ASSUME NEW fs \in Logs, NEW gs \in Logs, Keeps(fs, gs), NEW f \in 1..Len(fs),
         NEW next, NEW seen, NEW owed, Owing(fs, f, next, seen, owed)
  PROVE  Owing(gs, f, next, seen, owed)
<1>1. Len(fs[f]) \in Nat /\ Len(gs[f]) \in Nat /\ Len(fs[f]) <= Len(gs[f])
  BY Typed DEF Keeps
<1>2. \A n : \A i \in Lines(fs, f) : fs[f][i] = Whole(n) => i \in Lines(gs, f) /\ gs[f][i] = Whole(n)
  <2>1. \A n : Whole(n).form = "whole"
    BY DEF Whole
  <2> QED
    BY <1>1, <2>1 DEF Lines, Keeps
<1> QED
  BY <1>2 DEF Owing

LEMMA ShowsMore ==
  ASSUME NEW seen \in Seq(Events), NEW e \in Events
  PROVE  /\ Append(seen, e) \in Seq(Events) /\ Len(Append(seen, e)) = Len(seen) + 1
         /\ Len(seen) \in Nat /\ Append(seen, e)[Len(seen) + 1] = e
         /\ \A k \in 1..Len(seen) : Append(seen, e)[k] = seen[k]
         /\ Shows(Append(seen, e), e)
         /\ \A n : Shows(seen, n) => Shows(Append(seen, e), n)
<1> DEFINE more == Append(seen, e)
<1>1. /\ more \in Seq(Events) /\ Len(more) = Len(seen) + 1
      /\ Len(seen) \in Nat /\ more[Len(seen) + 1] = e
      /\ \A k \in 1..Len(seen) : more[k] = seen[k]
  BY AppendProperties, LenProperties
<1> HIDE DEF more
<1>2. Shows(more, e) /\ \A n : Shows(seen, n) => Shows(more, n)
  BY <1>1 DEF Shows
<1> QED
  BY <1>1, <1>2 DEF more

\* The next line is read: what it says is later than all that was seen.
LEMMA NextIsSeen ==
  ASSUME NEW fs \in Logs, Gaps(fs), NEW f \in 1..Len(fs), NEW next \in Lines(fs, f),
         NEW seen \in Seq(Events), InOrder(seen), Behind(fs, f, next, seen),
         NEW more, more = Append(seen, fs[f][next].event)
  PROVE  more \in Seq(Events) /\ InOrder(more) /\ Behind(fs, f, next + 1, more)
<1> DEFINE e == fs[f][next].event
<1>1. e \in Events /\ e \in Int /\ next \in Nat \ {0}
  BY EventTyped
<1>2. /\ more \in Seq(Events) /\ Len(more) = Len(seen) + 1 /\ Len(seen) \in Nat
      /\ more[Len(seen) + 1] = e /\ \A k \in 1..Len(seen) : more[k] = seen[k]
  BY <1>1, ShowsMore
<1>3. \A k \in 1..Len(seen) : seen[k] \in Int
  BY CapacityAssumption, ElementOfSeq DEF Events
<1>4. ASSUME NEW k \in 1..Len(seen)
      PROVE  seen[k] < e
  <2>1. PICK i \in Lines(fs, f) : i < next /\ seen[k] = fs[f][i].event
    BY DEF Behind
  <2>2. fs[f][i].event \in Int /\ i \in Nat
    BY EventTyped
  <2>3. fs[f][i].event + (next - i) <= e
    BY <1>1, <2>1, <2>2 DEF Gaps
  <2> HIDE DEF e
  <2> QED
    BY <1>1, <2>1, <2>2, <2>3
<1> HIDE DEF e
<1>5. InOrder(more)
  <2>1. DOMAIN more = 1..(Len(seen) + 1) /\ DOMAIN seen = 1..Len(seen)
    BY <1>2, LenProperties
  <2>2. ASSUME NEW i \in 1..(Len(seen) + 1), NEW j \in 1..(Len(seen) + 1), i < j
        PROVE  more[i] < more[j]
    <3>1. i \in 1..Len(seen)
      BY <1>2, <2>2
    <3>2. CASE j \in 1..Len(seen)
      BY <1>2, <2>1, <2>2, <3>1, <3>2 DEF InOrder
    <3>3. CASE j = Len(seen) + 1
      BY <1>2, <1>4, <3>1, <3>3
    <3> QED
      BY <1>2, <3>2, <3>3
  <2> QED
    BY <2>1, <2>2 DEF InOrder
<1>6. Behind(fs, f, next + 1, more)
  <2> SUFFICES ASSUME NEW k \in 1..(Len(seen) + 1)
               PROVE  \E i \in Lines(fs, f) : i < next + 1 /\ more[k] = fs[f][i].event
    BY <1>2 DEF Behind
  <2>1. CASE k \in 1..Len(seen)
    <3>1. PICK i \in Lines(fs, f) : i < next /\ seen[k] = fs[f][i].event
      BY <2>1 DEF Behind
    <3>2. i \in Nat
      BY EventTyped
    <3> QED
      BY <1>1, <1>2, <2>1, <3>1, <3>2
  <2>2. CASE k = Len(seen) + 1
    BY <1>1, <1>2, <2>2 DEF e
  <2> QED
    BY <1>2, <2>1, <2>2
<1> QED
  BY <1>2, <1>5, <1>6

\* The next line is passed over.
LEMMA NextIsPassed ==
  ASSUME NEW fs \in Logs, NEW f \in 1..Len(fs), NEW next \in Nat, NEW seen, Behind(fs, f, next, seen)
  PROVE  Behind(fs, f, next + 1, seen)
<1>1. \A i \in Lines(fs, f) : i < next => i < next + 1
  BY EventTyped
<1> QED
  BY <1>1 DEF Behind

\* A line that is passed over owes nothing, unless it says what was seen.
LEMMA OwingLess ==
  ASSUME NEW fs \in Logs, NEW f \in 1..Len(fs), NEW next \in Nat, NEW seen, NEW more, NEW owed,
         Owing(fs, f, next, seen, owed), \A n : Shows(seen, n) => Shows(more, n),
         \A n : fs[f][next] = Whole(n) => Shows(more, n)
  PROVE  Owing(fs, f, next + 1, more, owed)
<1> SUFFICES ASSUME NEW n \in owed
             PROVE  Shows(more, n) \/ \E i \in Lines(fs, f) : i >= next + 1 /\ fs[f][i] = Whole(n)
  BY DEF Owing
<1>1. CASE Shows(seen, n)
  BY <1>1
<1>2. CASE \E i \in Lines(fs, f) : i >= next /\ fs[f][i] = Whole(n)
  <2>1. PICK i \in Lines(fs, f) : i >= next /\ fs[f][i] = Whole(n)
    BY <1>2
  <2>2. i \in Nat
    BY EventTyped
  <2>3. i = next \/ i >= next + 1
    BY <2>1, <2>2
  <2> QED
    BY <2>1, <2>3
<1> QED
  BY <1>1, <1>2 DEF Owing

\* What the page shows; the fields of its state one by one.
PageTypes ==
  page \in [step : {"idle", "open", "read", "shown"}, manifest : Manifest,
            file : Nat, next : Nat, seen : Seq(Events), failed : BOOLEAN, owed : SUBSET Events]

\* Of the manifest it loaded, what is not in an earlier file is owed.
PageCovers ==
  \A n \in Announced(page.manifest) :
    n \in lost \cup page.owed \/ \E f \in 1..(page.file - 1) : Holds(files, f, n)

Reading ==
  /\ page.file # 0 /\ page.next # 0 /\ InOrder(page.seen)
  /\ Behind(files, page.file, page.next, page.seen)
  /\ Owing(files, page.file, page.next, page.seen, page.owed)

PageInv ==
  /\ PageTypes /\ page.file <= Len(files)
  /\ \A n \in Announced(page.manifest) : Accounted(n)
  /\ page.step = "open" => page.seen = <<>> /\ page.next = 1
  /\ page.step = "read" => Reading
  /\ page.step = "shown" => InOrder(page.seen) /\ (page.failed \/ \A n \in page.owed : Shows(page.seen, n))
  /\ page.step \in {"read", "shown"} /\ page.file # 0 => PageCovers

LEMMA NothingSeen ==
  /\ <<>> \in Seq(Events) /\ InOrder(<<>>)
  /\ \A fs, f, next : Behind(fs, f, next, <<>>)
  BY EmptySeq DEF InOrder, Behind

LEMMA PageInit == Init => PageInv
<1> SUFFICES ASSUME Init PROVE PageInv
  OBVIOUS
<1>1. page = [step |-> "idle", manifest |-> disk, file |-> 0, next |-> 1, seen |-> <<>>, failed |-> FALSE, owed |-> {}]
  BY DEF Init, Blank
<1>2. disk \in Manifest /\ Announced(disk) = {}
  BY CapacityAssumption DEF Init, Manifest, ManifestAt, Announced
<1>3. PageTypes
  BY <1>1, <1>2, NothingSeen DEF PageTypes
<1>4. Len(files) = 0
  BY EmptySeq DEF Init
<1> QED
  BY <1>1, <1>2, <1>3, <1>4 DEF PageInv

\* The worker's steps, under a page that is where it was.
LEMMA PageKept ==
  ASSUME LogInv, PageInv, [Next]_vars, UNCHANGED page
  PROVE  PageInv'
<1>1. /\ files \in Logs /\ files' \in Logs /\ Keeps(files, files') /\ Len(files) \in Nat /\ Len(files') \in Nat
      /\ Len(files) <= Len(files')
  BY StepKeeps, Typed DEF LogInv, Writer, Types, Keeps
<1>2. page.file \in Nat /\ page.file <= Len(files)
  BY DEF PageInv, PageTypes
<1>3. PageTypes' /\ page'.file <= Len(files')
  BY <1>1, <1>2 DEF PageInv, PageTypes
<1>4. \A n \in Announced(page'.manifest) : Accounted(n)'
  BY AccountedStays DEF LogInv, PageInv
<1>5. ASSUME Reading PROVE Reading'
  <2>1. page.file \in 1..Len(files)
    BY <1>1, <1>2, <1>5 DEF Reading
  <2> QED
    BY <1>1, <1>5, <2>1, BehindIsKept, OwingIsKept DEF Reading
<1>6. ASSUME PageCovers PROVE PageCovers'
  <2> SUFFICES ASSUME NEW n \in Announced(page.manifest)
               PROVE  n \in lost' \cup page.owed \/ \E f \in 1..(page.file - 1) : Holds(files', f, n)
    BY DEF PageCovers
  <2>1. CASE n \in lost \cup page.owed
    BY <2>1, LostGrows
  <2>2. CASE \E f \in 1..(page.file - 1) : Holds(files, f, n)
    <3>1. PICK f \in 1..(page.file - 1) : Holds(files, f, n)
      BY <2>2
    <3>2. f \in 1..Len(files)
      BY <1>1, <1>2
    <3> QED
      BY <1>1, <3>1, <3>2, HoldsIsKept
  <2> QED
    BY <1>6, <2>1, <2>2 DEF PageCovers
<1> QED
  BY <1>3, <1>4, <1>5, <1>6 DEF PageInv

LEMMA LoadStep ==
  ASSUME LogInv, PageInv, LoadManifest
  PROVE  PageInv'
<1>1. page' = [step |-> "open", manifest |-> disk, file |-> 0, next |-> 1, seen |-> <<>>, failed |-> FALSE, owed |-> {}]
  BY DEF LoadManifest, Blank
<1>2. files' = files /\ lost' = lost /\ disk' = disk
  BY DEF LoadManifest, log
<1>3. disk \in Manifest /\ files \in Logs /\ Len(files) \in Nat
  BY Typed DEF LogInv, Writer, Types
<1>4. PageTypes'
  BY <1>1, <1>3, NothingSeen DEF PageTypes
<1>5. \A n \in Announced(page'.manifest) : Accounted(n)'
  BY <1>1, <1>2 DEF LogInv, ManifestIsCovered, Accounted
<1> QED
  BY <1>1, <1>2, <1>3, <1>4, <1>5 DEF PageInv

\* The files, the losses and what is accounted for are as they were.
LEMMA PageLeavesLog ==
  ASSUME PageInv, Open \/ ReadLine \/ EndRead
  PROVE  /\ files' = files /\ lost' = lost /\ page'.manifest = page.manifest
         /\ \A n \in Announced(page'.manifest) : Accounted(n)'
<1>1. files' = files /\ lost' = lost
  BY DEF Open, ReadLine, EndRead, log
<1>2. page'.manifest = page.manifest
  BY DEF Open, ReadLine, EndRead, PageInv, PageTypes
<1> QED
  BY <1>1, <1>2 DEF PageInv, Accounted

LEMMA WrittenAreEvents ==
  ASSUME files \in Logs, NEW f \in 1..Len(files)
  PROVE  Written(f) \subseteq Events
<1> SUFFICES ASSUME NEW n \in Written(f) PROVE n \in Events
  OBVIOUS
<1>1. PICK i \in Lines(files, f) : files[f][i] = [event |-> n, form |-> "whole"]
  BY HeldIsWritten DEF Holds
<1>2. n = files[f][i].event
  BY <1>1
<1> QED
  BY <1>2, EventTyped

LEMMA OpenStep ==
  ASSUME LogInv, PageInv, Open
  PROVE  PageInv'
<1>1. /\ files \in Logs /\ Len(files) \in Nat /\ live \in BOOLEAN /\ (live => Len(files) # 0)
      /\ files' = files /\ lost' = lost
  BY Typed, PageLeavesLog DEF LogInv, Writer, Types, Places
<1>2. page \in [step : {"idle", "open", "read", "shown"}, manifest : Manifest,
                 file : Nat, next : Nat, seen : Seq(Events), failed : BOOLEAN, owed : SUBSET Events]
  BY DEF PageInv, PageTypes
<1>3. page.step = "open" /\ page.seen = <<>> /\ page.next = 1
  BY DEF Open, PageInv
<1>4. CASE live
  <2>1. page' = [page EXCEPT !.step = "read", !.file = Len(files), !.owed = Written(Len(files))]
    BY <1>4 DEF Open, Newest
  <2>2. Len(files) \in 1..Len(files) /\ Written(Len(files)) \subseteq Events
    BY <1>1, <1>4, WrittenAreEvents
  <2>3. PageTypes'
    BY <1>1, <1>2, <2>1, <2>2 DEF PageTypes
  <2>4. /\ page'.step = "read" /\ page'.file = Len(files) /\ page'.next = 1 /\ page'.seen = <<>>
        /\ page'.owed = Written(Len(files)) /\ page'.manifest = page.manifest
    BY <1>2, <1>3, <2>1
  <2>5. Owing(files, Len(files), 1, <<>>, Written(Len(files)))
    <3> SUFFICES ASSUME NEW n \in Written(Len(files))
                 PROVE  \E i \in Lines(files, Len(files)) : i >= 1 /\ files[Len(files)][i] = Whole(n)
      BY DEF Owing
    <3>1. PICK i \in Lines(files, Len(files)) : files[Len(files)][i] = [event |-> n, form |-> "whole"]
      BY <1>1, <2>2, HeldIsWritten DEF Holds
    <3>2. i >= 1
      BY DEF Lines
    <3> QED
      BY <3>1, <3>2 DEF Whole
  <2>6. Reading'
    BY <1>1, <1>4, <2>4, <2>5, NothingSeen DEF Reading
  <2>7. PageCovers'
    <3> SUFFICES ASSUME NEW n \in Announced(page.manifest)
                 PROVE  \/ n \in lost \cup Written(Len(files))
                        \/ \E f \in 1..(Len(files) - 1) : Holds(files, f, n)
      BY <1>1, <2>4 DEF PageCovers
    <3>1. CASE n \in lost
      BY <3>1
    <3>2. CASE n \notin lost
      <4>1. PICK f \in 1..Len(files) : Holds(files, f, n)
        BY <3>2 DEF PageInv, Accounted
      <4>2. CASE f = Len(files)
        BY <1>1, <4>1, <4>2, HeldIsWritten
      <4>3. CASE f # Len(files)
        BY <1>1, <4>1, <4>3
      <4> QED
        BY <4>2, <4>3
    <3> QED
      BY <3>1, <3>2
  <2> QED
    BY <1>1, <2>3, <2>4, <2>6, <2>7, PageLeavesLog DEF PageInv
<1>5. CASE ~live
  <2>1. page' = [page EXCEPT !.step = "shown", !.file = 0, !.owed = {}]
    BY <1>5 DEF Open
  <2>2. PageTypes'
    BY <1>2, <2>1 DEF PageTypes
  <2>3. page'.step = "shown" /\ page'.file = 0 /\ page'.seen = <<>> /\ page'.owed = {}
    BY <1>2, <1>3, <2>1
  <2> QED
    BY <1>1, <2>2, <2>3, NothingSeen, PageLeavesLog DEF PageInv
<1> QED
  BY <1>4, <1>5

LEMMA ReadStep ==
  ASSUME LogInv, PageInv, ReadLine
  PROVE  PageInv'
<1> DEFINE f == page.file
           next == page.next
           line == files[f][next]
<1>1. files \in Logs /\ Len(files) \in Nat /\ files' = files /\ lost' = lost /\ Gaps(files)
  BY Typed, PageLeavesLog DEF LogInv, Writer, Types, InShape
<1>2. page \in [step : {"idle", "open", "read", "shown"}, manifest : Manifest,
                 file : Nat, next : Nat, seen : Seq(Events), failed : BOOLEAN, owed : SUBSET Events]
  BY DEF PageInv, PageTypes
<1>3. page.step = "read" /\ Reading /\ f <= Len(files) /\ PageCovers
  BY DEF ReadLine, PageInv, Reading
<1>4. f \in 1..Len(files) /\ next \in Lines(files, f) /\ next \in Nat
  <2>1. f \in 1..Len(files) /\ next \in Nat /\ next # 0
    BY <1>1, <1>2, <1>3 DEF Reading
  <2>2. next <= Len(files[f])
    BY DEF ReadLine
  <2> QED
    BY <1>1, <2>1, <2>2, Typed DEF Lines
<1>5. PICK parses \in BOOLEAN :
        /\ line.form = "whole" => parses
        /\ page' = [page EXCEPT !.next = @ + 1, !.seen = IF parses THEN Append(@, line.event) ELSE @]
  BY DEF ReadLine
<1> DEFINE more == IF parses THEN Append(page.seen, line.event) ELSE page.seen
<1>6. line.event \in Events /\ page.seen \in Seq(Events)
  BY <1>1, <1>2, <1>4, EventTyped
<1>7. more \in Seq(Events) /\ InOrder(more) /\ Behind(files, f, next + 1, more)
  <2>1. CASE parses
    BY <1>1, <1>3, <1>4, <1>6, <2>1, NextIsSeen DEF Reading
  <2>2. CASE ~parses
    BY <1>1, <1>3, <1>4, <1>6, <2>2, NextIsPassed DEF Reading
  <2> QED
    BY <2>1, <2>2
<1>8. \A n : Shows(page.seen, n) => Shows(more, n)
  BY <1>6, ShowsMore
<1>9. \A n : line = Whole(n) => Shows(more, n)
  <2>1. \A n : Whole(n).form = "whole" /\ Whole(n).event = n
    BY DEF Whole
  <2> QED
    BY <1>5, <1>6, <2>1, ShowsMore
<1>10. Owing(files, f, next + 1, more, page.owed)
  BY <1>1, <1>3, <1>4, <1>8, <1>9, OwingLess DEF Reading
<1>11. page' = [page EXCEPT !.next = next + 1, !.seen = more]
  BY <1>5
<1> HIDE DEF f, next, line, more
<1>12. /\ page'.step = page.step /\ page'.file = f /\ page'.next = next + 1 /\ page'.seen = more
       /\ page'.owed = page.owed /\ page'.manifest = page.manifest
  BY <1>2, <1>11 DEF f
<1>13. PageTypes'
  <2>1. next + 1 \in Nat /\ more \in Seq(Events)
    BY <1>4, <1>7
  <2> QED
    BY <1>2, <1>11, <2>1 DEF PageTypes
<1>14. Reading'
  BY <1>1, <1>4, <1>7, <1>10, <1>12 DEF Reading
<1>15. PageCovers'
  BY <1>1, <1>3, <1>12 DEF PageCovers, f
<1> QED
  BY <1>1, <1>3, <1>12, <1>13, <1>14, <1>15, PageLeavesLog DEF PageInv

LEMMA EndStep ==
  ASSUME LogInv, PageInv, EndRead
  PROVE  PageInv'
<1>1. files \in Logs /\ Len(files) \in Nat /\ files' = files /\ lost' = lost
  BY Typed, PageLeavesLog DEF LogInv, Writer, Types
<1>2. page \in [step : {"idle", "open", "read", "shown"}, manifest : Manifest,
                 file : Nat, next : Nat, seen : Seq(Events), failed : BOOLEAN, owed : SUBSET Events]
  BY DEF PageInv, PageTypes
<1>3. page.step = "read" /\ Reading /\ page.file <= Len(files) /\ (page.file # 0 => PageCovers)
  BY DEF EndRead, PageInv, Reading
<1>4. PICK failed \in BOOLEAN :
        /\ ~failed => page.next > Len(files[page.file])
        /\ page' = [page EXCEPT !.step = "shown", !.failed = failed]
  BY DEF EndRead
<1>5. PageTypes'
  BY <1>2, <1>4 DEF PageTypes
<1>6. /\ page'.step = "shown" /\ page'.failed = failed /\ page'.seen = page.seen /\ page'.file = page.file
      /\ page'.owed = page.owed /\ page'.manifest = page.manifest
  BY <1>2, <1>4
<1>7. ASSUME ~failed, NEW n \in page.owed
      PROVE  Shows(page.seen, n)
  <2>1. page.next > Len(files[page.file]) /\ page.next \in Nat /\ page.file \in 1..Len(files)
    BY <1>1, <1>2, <1>3, <1>4, <1>7 DEF Reading
  <2>2. \A i \in Lines(files, page.file) : ~(i >= page.next)
    BY <1>1, <2>1, Typed DEF Lines
  <2> QED
    BY <1>3, <2>2 DEF Reading, Owing
<1>8. PageCovers'
  BY <1>1, <1>3, <1>6 DEF PageCovers, Reading
<1> QED
  BY <1>1, <1>3, <1>5, <1>6, <1>7, <1>8, PageLeavesLog DEF PageInv, Reading

LEMMA PageStep == LogInv /\ PageInv /\ [Next]_vars => PageInv'
<1>1. [Next]_vars => UNCHANGED page \/ LoadManifest \/ Open \/ ReadLine \/ EndRead
  BY DEF Next, Worker, Refresh, vars, Start, Emit, Save, Die, Unlink, Rename, AppendLine,
         AppendPart, AppendRest, AppendFails
<1> QED
  BY <1>1, PageKept, LoadStep, OpenStep, ReadStep, EndStep

LEMMA ShowsToSet ==
  ASSUME NEW seen \in Seq(Events), NEW n
  PROVE  Shows(seen, n) <=> n \in ToSet(seen)
<1>1. DOMAIN seen = 1..Len(seen)
  BY LenProperties
<1> QED
  BY <1>1 DEF Shows, ToSet

LEMMA StreamInv == Spec => [](LogInv /\ PageInv)
<1>1. Init => LogInv /\ PageInv
  BY LogInvInit, PageInit
<1>2. LogInv /\ PageInv /\ [Next]_vars => (LogInv /\ PageInv)'
  BY LogInvStep, PageStep
<1> QED
  BY <1>1, <1>2, PTL DEF Spec

\* A page that shows events shows them in the order they happened, each once,
\* and misses none that stood in the file when it was opened, although the
\* worker appends and rotates while the page reads (read_events).
THEOREM ReadIsCompleteAlways == Spec => []ReadIsComplete
<1>1. PageInv => ReadIsComplete
  <2> SUFFICES ASSUME PageInv, page.step = "shown"
               PROVE  InOrder(page.seen) /\ (page.failed \/ page.owed \subseteq ToSet(page.seen))
    BY DEF ReadIsComplete
  <2>1. page.seen \in Seq(Events)
    BY DEF PageInv, PageTypes
  <2>2. InOrder(page.seen) /\ (page.failed \/ \A n \in page.owed : Shows(page.seen, n))
    BY DEF PageInv
  <2> QED
    BY <2>1, <2>2, ShowsToSet
<1> QED
  BY <1>1, StreamInv, PTL

\* The page is not behind the manifest it shows: an event that the manifest
\* accounts for is shown, unless it was lost or rotated away before the page
\* opened the file (RunSession.emit, live_run._render_body).  The one event
\* that the manifest may be ahead by is not among them.
THEOREM PageIsCoherentAlways == Spec => []PageIsCoherent
<1>1. LogInv /\ PageInv => PageIsCoherent
  <2> SUFFICES ASSUME LogInv, PageInv, page.step = "shown", page.file # 0, ~page.failed,
                      NEW n \in Announced(page.manifest)
               PROVE  \/ n \in ToSet(page.seen) \cup lost
                      \/ \E f \in 1..(page.file - 1) : n \in Written(f)
    BY DEF PageIsCoherent
  <2>1. page.seen \in Seq(Events) /\ page.file \in Nat /\ page.file <= Len(files)
    BY DEF PageInv, PageTypes
  <2>2. files \in Logs /\ Len(files) \in Nat
    BY Typed DEF LogInv, Writer, Types
  <2>3. n \in lost \cup page.owed \/ \E f \in 1..(page.file - 1) : Holds(files, f, n)
    BY DEF PageInv, PageCovers
  <2>4. CASE n \in page.owed
    BY <2>1, <2>4, ShowsToSet DEF PageInv
  <2>5. CASE \E f \in 1..(page.file - 1) : Holds(files, f, n)
    <3>1. PICK f \in 1..(page.file - 1) : Holds(files, f, n)
      BY <2>5
    <3>2. f \in 1..Len(files)
      BY <2>1, <2>2
    <3> QED
      BY <2>2, <3>1, <3>2, HeldIsWritten
  <2> QED
    BY <2>3, <2>4, <2>5
<1> QED
  BY <1>1, StreamInv, PTL

-----------------------------------------------------------------------------
(* The types, and the size of the files.                                   *)

Sized == \A f \in 1..Len(files) : Len(files[f]) <= Capacity

LEMMA SizedInit == Init => Sized
<1>1. Init => Len(files) = 0
  BY EmptySeq DEF Init
<1> QED
  BY <1>1 DEF Sized

LEMMA SizedStep == Writer /\ Sized /\ [Next]_vars => Sized'
<1> SUFFICES ASSUME Writer, Sized, [Next]_vars PROVE Sized'
  OBVIOUS
<1>1. /\ files \in Logs /\ files' \in Logs /\ Len(files) \in Nat /\ Len(files') \in Nat
      /\ Capacity \in Nat \ {0}
  BY StepKeeps, Typed, CapacityAssumption DEF Writer, Types
<1>2. ASSUME NEW line, Grown(files, files', line), ~Full,
             Len(files') = IF live THEN Len(files) ELSE Len(files) + 1
      PROVE  Sized'
  <2> SUFFICES ASSUME NEW f \in 1..Len(files') PROVE Len(files'[f]) <= Capacity
    BY DEF Sized
  <2>1. CASE f = Len(files') /\ live
    <3>1. f \in 1..Len(files) /\ f = Len(files) /\ Len(files[f]) \in Nat
      BY <1>1, <1>2, <2>1, Typed
    <3>2. Len(files[f]) < Capacity
      BY <1>1, <1>2, <2>1, <3>1 DEF Full, Newest
    <3>3. Len(files'[f]) = Len(files[f]) + 1
      BY <1>2, <2>1, <3>1 DEF Grown
    <3> QED
      BY <1>1, <3>1, <3>2, <3>3
  <2>2. CASE f = Len(files') /\ ~live
    BY <1>1, <1>2, <2>2 DEF Grown
  <2>3. CASE f # Len(files')
    <3>1. f \in 1..Len(files)
      BY <1>1, <1>2, <2>3
    <3> QED
      BY <1>2, <2>3, <3>1 DEF Grown, Sized
  <2> QED
    BY <2>1, <2>2, <2>3
<1>3. ASSUME Same(files, files') PROVE Sized'
  BY <1>3 DEF Same, Sized
<1>4. CASE AppendLine
  <2>1. ~Full
    BY <1>4 DEF AppendLine, Writer, Places
  <2> QED
    BY <1>2, <1>3, <1>4, <2>1, AppendLineDoes
<1>5. CASE AppendPart
  <2>1. ~Full
    BY <1>5 DEF AppendPart, Writer, Places
  <2> QED
    BY <1>2, <1>5, <2>1, AppendPartDoes
<1>6. CASE AppendRest
  BY <1>3, <1>6, AppendRestDoes
<1>7. CASE UNCHANGED files
  BY <1>7 DEF Sized
<1> QED
  BY <1>4, <1>5, <1>6, <1>7, FilesChange

LEMMA BoundedIsSized ==
  ASSUME NEW f \in Seq(Line), Len(f) <= Capacity
  PROVE  f \in BoundedSeq(Line, Capacity)
<1>1. Len(f) \in 0..Capacity /\ f \in [1..Len(f) -> Line]
  BY LenProperties, CapacityAssumption
<1> QED
  BY <1>1 DEF BoundedSeq, SeqOf

\* The types; above all, no file has more lines than the capacity, whatever
\* step of a rotation or of an append fails (JsonlEventSink._rotate_if_needed).
THEOREM TypeOKAlways == Spec => []TypeOK
<1>1. LogInv /\ PageInv /\ Sized => TypeOK
  <2> SUFFICES ASSUME LogInv, PageInv, Sized PROVE TypeOK
    OBVIOUS
  <2>1. Types /\ files \in Logs /\ Len(files) \in Nat
    BY Typed DEF LogInv, Writer, Types
  <2>2. \A f \in 1..Len(files) : files[f] \in BoundedSeq(Line, Capacity)
    BY <2>1, Typed, BoundedIsSized DEF Sized
  <2>3. /\ page.step \in {"idle", "open", "read", "shown"}
        /\ page.manifest \in Manifest
        /\ page.file \in 0..Len(files) /\ page.next \in Nat
        /\ page.seen \in Seq(Events) /\ page.owed \subseteq Events
    BY <2>1 DEF PageInv, PageTypes
  <2> QED
    BY <2>1, <2>2, <2>3 DEF TypeOK, Types
<1>2. Init => Sized
  BY SizedInit
<1>3. LogInv /\ Sized /\ [Next]_vars => Sized'
  BY SizedStep DEF LogInv
<1> QED
  BY <1>1, <1>2, <1>3, StreamInv, PTL DEF Spec

=============================================================================
