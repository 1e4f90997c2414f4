----------------------------- MODULE SignUpProofs -----------------------------
(***************************************************************************)
(* Theorems about SignUp: for any number of people, updates waiting and    *)
(* strategies, a request has the picks the plan asks for and the phone     *)
(* that was shared.                                                        *)
(*                                                                         *)
(* A handler is a sequence of writes.  The first section says what one     *)
(* write does to the row of a chat, the second what a sequence comes to,   *)
(* the third what each handler leaves; the invariant then speaks of rows.  *)
(***************************************************************************)
EXTENDS SignUp, Sums, SequenceTheorems

-----------------------------------------------------------------------------
(* One write.                                                              *)

Row == [state : States, duration : BOOLEAN, signal : SUBSET Strategies,
        execute : SUBSET Strategies]
RowOf(state, duration, signal, execute) ==
  [state |-> state, duration |-> duration, signal |-> signal, execute |-> execute]

LEMMA SameRow ==
  ASSUME NEW row \in Row
  PROVE  row = RowOf(row.state, row.duration, row.signal, row.execute)
BY DEF Row, RowOf

WorldOf(b, ch, ph, h, rq, sc) ==
  [backlog |-> b, chat |-> ch, phones |-> ph, held |-> h, requests |-> rq, screen |-> sc]

LEMMA WorldParts ==
  ASSUME NEW b, NEW ch, NEW ph, NEW h, NEW rq, NEW sc
  PROVE  LET w == WorldOf(b, ch, ph, h, rq, sc)
         IN /\ w.backlog = b /\ w.chat = ch /\ w.phones = ph
            /\ w.held = h /\ w.requests = rq /\ w.screen = sc
BY DEF WorldOf

Keyboards == {"none", "durations", "contact", "signal", "execute"}

SignUpTypes ==
  /\ backlog \in Seq(Update) /\ chat \in [Chats -> Row] /\ phones \subseteq Chats
  /\ requests \subseteq Request /\ screen \in [Chats -> Keyboards]

\* While the update of chat c is handled, a world is as it was but for c's row and screen,
\* the cache and the requests.
Shape(w, c, row, ph, h, rq, sc) ==
  w = WorldOf(backlog, [chat EXCEPT ![c] = row], ph, h, rq, [screen EXCEPT ![c] = sc])

\* v is what the write wr makes of w.
Makes(w, wr, v) == v = Write(w, wr)

LEMMA ShapeWorld ==
  ASSUME SignUpTypes, NEW c \in Chats
  PROVE  Shape(World, c, chat[c], phones, FALSE, requests, screen[c])
<1>1. chat = [chat EXCEPT ![c] = chat[c]] /\ screen = [screen EXCEPT ![c] = screen[c]]
  BY DEF SignUpTypes
<1>2. World = WorldOf(backlog, chat, phones, FALSE, requests, screen)
  BY DEF World, WorldOf
<1> QED
  BY <1>1, <1>2 DEF Shape

\* Another row for c.
LEMMA RowPut ==
  ASSUME SignUpTypes, NEW c \in Chats, NEW w, NEW row, NEW ph, NEW h, NEW rq, NEW sc,
         Shape(w, c, row, ph, h, rq, sc), NEW r
  PROVE  /\ Shape([w EXCEPT !.chat = [w.chat EXCEPT ![c] = r]], c, r, ph, h, rq, sc)
         /\ w.chat[c] = row
<1>1. w.chat = [chat EXCEPT ![c] = row]
  BY DEF Shape, WorldOf
<1>2. w.chat[c] = row /\ [w.chat EXCEPT ![c] = r] = [chat EXCEPT ![c] = r]
  BY <1>1 DEF SignUpTypes
<1> QED
  BY <1>2 DEF Shape, WorldOf

LEMMA ShapeUpsert ==
  ASSUME SignUpTypes, NEW c \in Chats, NEW w, NEW row \in Row, NEW ph, NEW h, NEW rq, NEW sc,
         Shape(w, c, row, ph, h, rq, sc), NEW s, NEW d, NEW v,
         Makes(w, UpsertState(c, s, d), v)
  PROVE  Shape(v, c, RowOf(s, d, row.signal, row.execute), ph, h, rq, sc)
<1> DEFINE r == RowOf(s, row.duration, row.signal, row.execute)
           x == [w EXCEPT !.chat[c].state = s]
<1>1. [row EXCEPT !.state = s] = r
  BY DEF Row, RowOf
<1>0. x = [w EXCEPT !.chat = [w.chat EXCEPT ![c] = [w.chat[c] EXCEPT !.state = s]]]
  OBVIOUS
<1>2. Shape(x, c, r, ph, h, rq, sc)
  BY <1>0, <1>1, RowPut
<1>3. [r EXCEPT !.duration = d] = RowOf(s, d, row.signal, row.execute)
  BY DEF RowOf
<1>4. Write(w, UpsertState(c, s, d)) = [x EXCEPT !.chat[c].duration = d]
  BY DEF Write, UpsertState
<1> HIDE DEF r, x
<1>5. [x EXCEPT !.chat[c].duration = d] = [x EXCEPT !.chat = [x.chat EXCEPT ![c] = [x.chat[c] EXCEPT !.duration = d]]]
  OBVIOUS
<1>6. Shape([x EXCEPT !.chat[c].duration = d], c, [r EXCEPT !.duration = d], ph, h, rq, sc)
  BY <1>2, <1>5, RowPut
<1> QED
  BY <1>3, <1>4, <1>6 DEF Makes

LEMMA ShapeClear ==
  ASSUME SignUpTypes, NEW c \in Chats, NEW w, NEW row \in Row, NEW ph, NEW h, NEW rq, NEW sc,
         Shape(w, c, row, ph, h, rq, sc), NEW v, Makes(w, ClearPicks(c), v)
  PROVE  Shape(v, c, RowOf(row.state, row.duration, {}, {}), ph, h, rq, sc)
<1> DEFINE r == RowOf(row.state, row.duration, {}, row.execute)
           x == [w EXCEPT !.chat[c].signal = {}]
<1>1. [row EXCEPT !.signal = {}] = r
  BY DEF Row, RowOf
<1>0. x = [w EXCEPT !.chat = [w.chat EXCEPT ![c] = [w.chat[c] EXCEPT !.signal = {}]]]
  OBVIOUS
<1>2. Shape(x, c, r, ph, h, rq, sc)
  BY <1>0, <1>1, RowPut
<1>3. [r EXCEPT !.execute = {}] = RowOf(row.state, row.duration, {}, {})
  BY DEF RowOf
<1>4. Write(w, ClearPicks(c)) = [x EXCEPT !.chat[c].execute = {}]
  BY DEF Write, ClearPicks
<1> HIDE DEF r, x
<1>5. [x EXCEPT !.chat[c].execute = {}] = [x EXCEPT !.chat = [x.chat EXCEPT ![c] = [x.chat[c] EXCEPT !.execute = {}]]]
  OBVIOUS
<1>6. Shape([x EXCEPT !.chat[c].execute = {}], c, [r EXCEPT !.execute = {}], ph, h, rq, sc)
  BY <1>2, <1>5, RowPut
<1> QED
  BY <1>3, <1>4, <1>6 DEF Makes

LEMMA ShapePicks ==
  ASSUME SignUpTypes, NEW c \in Chats, NEW w, NEW row \in Row, NEW ph, NEW h, NEW rq, NEW sc,
         Shape(w, c, row, ph, h, rq, sc), NEW p, NEW v
  PROVE  /\ Makes(w, SetPicks(c, "signal", p), v)
            => Shape(v, c, RowOf(row.state, row.duration, p, row.execute), ph, h, rq, sc)
         /\ Makes(w, SetPicks(c, "execute", p), v)
            => Shape(v, c, RowOf(row.state, row.duration, row.signal, p), ph, h, rq, sc)
<1>1. [row EXCEPT !["signal"] = p] = RowOf(row.state, row.duration, p, row.execute)
  <2>1. [row EXCEPT !["signal"] = p] = [row EXCEPT !.signal = p]
    OBVIOUS
  <2>2. [row EXCEPT !.signal = p] = RowOf(row.state, row.duration, p, row.execute)
    BY DEF Row, RowOf
  <2> QED
    BY <2>1, <2>2
<1>2. [row EXCEPT !["execute"] = p] = RowOf(row.state, row.duration, row.signal, p)
  <2>1. [row EXCEPT !["execute"] = p] = [row EXCEPT !.execute = p]
    OBVIOUS
  <2>2. [row EXCEPT !.execute = p] = RowOf(row.state, row.duration, row.signal, p)
    BY DEF Row, RowOf
  <2> QED
    BY <2>1, <2>2
<1>3. ASSUME NEW k
      PROVE  Shape(Write(w, SetPicks(c, k, p)), c, [row EXCEPT ![k] = p], ph, h, rq, sc)
  <2>1. Write(w, SetPicks(c, k, p))
          = [w EXCEPT !.chat = [w.chat EXCEPT ![c] = [w.chat[c] EXCEPT ![k] = p]]]
    BY DEF Write, SetPicks
  <2> QED
    BY <2>1, RowPut
<1> QED
  BY <1>1, <1>2, <1>3 DEF Makes

LEMMA ShapePhone ==
  ASSUME NEW c, NEW w, NEW row, NEW ph, NEW h, NEW rq, NEW sc, Shape(w, c, row, ph, h, rq, sc),
         NEW v
  PROVE  /\ Makes(w, KeepPhone(c), v) => Shape(v, c, row, ph \cup {c}, h, rq, sc)
         /\ Makes(w, PopPhone(c), v) => Shape(v, c, row, ph \ {c}, c \in ph, rq, sc)
<1>1. w.phones = ph
  BY DEF Shape, WorldOf
<1>4. Write(w, KeepPhone(c)) = [w EXCEPT !.phones = ph \cup {c}]
  BY <1>1 DEF Write, KeepPhone
<1>5. Write(w, PopPhone(c)) = [[w EXCEPT !.held = c \in ph] EXCEPT !.phones = ph \ {c}]
  BY <1>1 DEF Write, PopPhone, Shape, WorldOf
<1>6. Shape([w EXCEPT !.phones = ph \cup {c}], c, row, ph \cup {c}, h, rq, sc)
  BY DEF Shape, WorldOf
<1>7. [w EXCEPT !.held = c \in ph]
        = WorldOf(backlog, [chat EXCEPT ![c] = row], ph, c \in ph, rq, [screen EXCEPT ![c] = sc])
  BY DEF Shape, WorldOf
<1>8. PICK x : x = [w EXCEPT !.held = c \in ph]
  OBVIOUS
<1>9. Shape([x EXCEPT !.phones = ph \ {c}], c, row, ph \ {c}, c \in ph, rq, sc)
  <2>1. x = WorldOf(backlog, [chat EXCEPT ![c] = row], ph, c \in ph, rq,
                    [screen EXCEPT ![c] = sc])
    BY <1>7, <1>8
  <2> QED
    BY <2>1 DEF Shape, WorldOf
<1> QED
  BY <1>4, <1>5, <1>6, <1>8, <1>9 DEF Makes

LEMMA ShapeCreate ==
  ASSUME SignUpTypes, NEW c \in Chats, NEW w, NEW row, NEW ph, NEW h, NEW rq, NEW sc,
         Shape(w, c, row, ph, h, rq, sc), NEW v, Makes(w, CreateRequest(c), v)
  PROVE  Shape(v, c, row, ph, h,
               rq \cup {[chat |-> c, phone |-> h, signal |-> row.signal,
                         execute |-> row.execute]}, sc)
<1> DEFINE r == [chat |-> c, phone |-> h, signal |-> row.signal, execute |-> row.execute]
<1>1. w.held = h /\ w.requests = rq /\ w.chat[c] = row
  <2>1. w.held = h /\ w.requests = rq
    BY DEF Shape, WorldOf
  <2>2. w.chat[c] = row
    BY RowPut
  <2> QED
    BY <2>1, <2>2
<1>2. Write(w, CreateRequest(c)) = [w EXCEPT !.requests = rq \cup {r}]
  BY <1>1 DEF Write, CreateRequest
<1> HIDE DEF r
<1>3. Shape([w EXCEPT !.requests = rq \cup {r}], c, row, ph, h, rq \cup {r}, sc)
  BY DEF Shape, WorldOf
<1> QED
  BY <1>2, <1>3 DEF r, Makes

LEMMA ShapeSend ==
  ASSUME SignUpTypes, NEW c \in Chats, NEW w, NEW row, NEW ph, NEW h, NEW rq, NEW sc,
         Shape(w, c, row, ph, h, rq, sc), NEW k, NEW v, Makes(w, Send(c, k), v)
  PROVE  Shape(v, c, row, ph, h, rq, k)
<1>1. w.screen = [screen EXCEPT ![c] = sc]
  BY DEF Shape, WorldOf
<1>2. [w.screen EXCEPT ![c] = k] = [screen EXCEPT ![c] = k]
  BY <1>1 DEF SignUpTypes
<1>3. Write(w, Send(c, k)) = [w EXCEPT !.screen = [w.screen EXCEPT ![c] = k]]
  BY DEF Write, Send
<1> QED
  BY <1>2, <1>3 DEF Shape, WorldOf, Makes

\* What a handled update leaves.
Left(c, row, ph, rq, sc) ==
  /\ backlog' = Tail(backlog) /\ chat' = [chat EXCEPT ![c] = row] /\ phones' = ph
  /\ requests' = rq /\ screen' = [screen EXCEPT ![c] = sc]

LEMMA ShapeCommitted ==
  ASSUME NEW c, NEW w, NEW row, NEW ph, NEW h, NEW rq, NEW sc,
         Shape(w, c, row, ph, h, rq, sc), NEW v, Makes(w, Acknowledge, v), Commit(v)
  PROVE  Left(c, row, ph, rq, sc)
<1>0. Write(w, Acknowledge) = [w EXCEPT !.backlog = Tail(w.backlog)]
  BY DEF Write, Acknowledge
<1>1. Write(w, Acknowledge)
        = WorldOf(Tail(backlog), [chat EXCEPT ![c] = row], ph, h, rq, [screen EXCEPT ![c] = sc])
  BY <1>0 DEF Shape, WorldOf
<1> QED
  BY <1>1 DEF Makes, Commit, Left, WorldOf

-----------------------------------------------------------------------------
(* Sequences of writes.                                                    *)

Solution(writes, m, g) ==
  g = [n \in 0..m |-> IF n = 0 THEN World ELSE Write(g[n - 1], writes[n])]

LEMMA SolutionFound ==
  ASSUME NEW writes, NEW m \in Nat
  PROVE  \E g : Solution(writes, m, g)
<1> DEFINE N == {n \in Nat : \E g : Solution(writes, n, g)}
<1>1. 0 \in N
  <2> DEFINE g == [n \in 0..0 |-> World]
  <2>1. g = [n \in 0..0 |-> IF n = 0 THEN World ELSE Write(g[n - 1], writes[n])]
    OBVIOUS
  <2> QED
    BY <2>1 DEF Solution
<1>2. ASSUME NEW n \in Nat, n \in N PROVE n + 1 \in N
  <2>1. PICK g : Solution(writes, n, g)
    BY <1>2
  <2>2. \A i \in 0..n : g[i] = IF i = 0 THEN World ELSE Write(g[i - 1], writes[i])
    BY <2>1 DEF Solution
  <2> DEFINE h == [i \in 0..(n + 1) |-> IF i <= n THEN g[i] ELSE Write(g[n], writes[n + 1])]
  <2>3. ASSUME NEW i \in 0..(n + 1)
        PROVE  h[i] = IF i = 0 THEN World ELSE Write(h[i - 1], writes[i])
    <3>1. CASE i <= n
      <4>1. h[i] = g[i] /\ (i # 0 => h[i - 1] = g[i - 1])
        BY <3>1
      <4> QED
        BY <2>2, <3>1, <4>1
    <3>2. CASE i = n + 1
      BY <3>2
    <3> QED
      BY <3>1, <3>2
  <2>4. h = [i \in 0..(n + 1) |-> h[i]]
    OBVIOUS
  <2> HIDE DEF h
  <2>5. h = [i \in 0..(n + 1) |-> IF i = 0 THEN World ELSE Write(h[i - 1], writes[i])]
    BY <2>3, <2>4
  <2> QED
    BY <2>5 DEF Solution
<1> HIDE DEF N
<1>3. m \in N
  BY <1>1, <1>2, NatSet
<1> QED
  BY <1>3 DEF N

LEMMA AfterSolved ==
  ASSUME NEW writes, Len(writes) \in Nat
  PROVE  \E g : /\ After(writes) = g[Len(writes)] /\ g[0] = World
               /\ \A n \in 1..Len(writes) : g[n] = Write(g[n - 1], writes[n])
<1>1. After(writes) = (CHOOSE g : Solution(writes, Len(writes), g))[Len(writes)]
  BY DEF After, Solution
<1>2. PICK g : g = CHOOSE h : Solution(writes, Len(writes), h)
  OBVIOUS
<1>3. Solution(writes, Len(writes), g)
  BY <1>2, SolutionFound
<1>4. \A n \in 0..Len(writes) : g[n] = IF n = 0 THEN World ELSE Write(g[n - 1], writes[n])
  BY <1>3 DEF Solution
<1>5. After(writes) = g[Len(writes)]
  BY <1>1, <1>2
<1>6. g[0] = World /\ \A n \in 1..Len(writes) : g[n] = Write(g[n - 1], writes[n])
  BY <1>4
<1> QED
  BY <1>5, <1>6

\* One element more.
LEMMA AddedLast ==
  ASSUME NEW S, NEW s \in Seq(S), NEW f \in S, NEW t, t = Append(s, f)
  PROVE  /\ t \in Seq(S) /\ Len(t) = Len(s) + 1 /\ t[Len(s) + 1] = f
         /\ \A i \in 1..Len(s) : t[i] = s[i]
<1>1. t \in Seq(S) /\ Len(t) = Len(s) + 1 /\ t[Len(s) + 1] = f
  BY AppendProperties
<1>2. \A i \in 1..Len(s) : Append(s, f)[i] = s[i]
  BY AppendProperties
<1> QED
  BY <1>1, <1>2

\* A handler's writes with the acknowledgement f, element by element.
LEMMA RunMove ==
  ASSUME NEW a, NEW b, NEW f
  PROVE  Append(<<a, b>>, f) = <<a, b, f>>
<1>0. PICK S : a \in S /\ b \in S /\ f \in S
  <2>1. a \in {a, b, f} /\ b \in {a, b, f} /\ f \in {a, b, f}
    OBVIOUS
  <2> QED
    BY <2>1
<1>1. PICK s : s = <<a, b>>
  OBVIOUS
<1>2. s \in Seq(S) /\ Len(s) = 2 /\ s[1] = a /\ s[2] = b
  BY <1>0, <1>1
<1>3. PICK t : t = Append(s, f)
  OBVIOUS
<1>4. /\ t \in Seq(S) /\ Len(t) = Len(s) + 1 /\ t[Len(s) + 1] = f
      /\ \A i \in 1..Len(s) : t[i] = s[i]
  BY <1>0, <1>2, <1>3, AddedLast
<1>5. t \in Seq(S) /\ Len(t) = 3 /\ t[1] = a /\ t[2] = b /\ t[3] = f
  BY <1>2, <1>4
<1>6. t = <<a, b, f>>
  BY <1>5
<1> QED
  BY <1>1, <1>3, <1>6

LEMMA RunTwo ==
  ASSUME NEW a, NEW f
  PROVE  Append(<<a>> \o <<>>, f) = <<a, f>>
<1>0. PICK S : a \in S /\ f \in S
  <2>1. a \in {a, f} /\ f \in {a, f}
    OBVIOUS
  <2> QED
    BY <2>1
<1>1. PICK r, s : r = <<a>> /\ s = <<>>
  OBVIOUS
<1>2. r \in Seq(S) /\ Len(r) = 1 /\ r[1] = a /\ s \in Seq(S) /\ Len(s) = 0
  BY <1>0, <1>1
<1>3. PICK q : q = r \o s
  OBVIOUS
<1>4. /\ q \in Seq(S) /\ Len(q) = Len(r) + Len(s)
      /\ \A i \in 1..(Len(r) + Len(s)) : q[i] = IF i <= Len(r) THEN r[i] ELSE s[i - Len(r)]
  <2>1. r \in Seq(S) /\ s \in Seq(S)
    BY <1>2
  <2> QED
    BY <1>3, <2>1, ConcatProperties
<1>5. /\ q \in Seq(S) /\ Len(q) = 1
      /\ q[1] = a
  BY <1>2, <1>4
<1>6. PICK t : t = Append(q, f)
  OBVIOUS
<1>7. /\ t \in Seq(S) /\ Len(t) = Len(q) + 1 /\ t[Len(q) + 1] = f
      /\ \A i \in 1..Len(q) : t[i] = q[i]
  BY <1>0, <1>5, <1>6, AddedLast
<1>8. /\ t \in Seq(S) /\ Len(t) = 2
      /\ t[1] = a /\ t[2] = f
  BY <1>5, <1>7
<1>9. t = <<a, f>>
  BY <1>8
<1> QED
  BY <1>1, <1>3, <1>6, <1>9

LEMMA RunThree ==
  ASSUME NEW a, NEW b, NEW f
  PROVE  Append(<<a>> \o <<b>>, f) = <<a, b, f>>
<1>0. PICK S : a \in S /\ b \in S /\ f \in S
  <2>1. a \in {a, b, f} /\ b \in {a, b, f} /\ f \in {a, b, f}
    OBVIOUS
  <2> QED
    BY <2>1
<1>1. PICK r, s : r = <<a>> /\ s = <<b>>
  OBVIOUS
<1>2. r \in Seq(S) /\ Len(r) = 1 /\ r[1] = a /\ s \in Seq(S) /\ Len(s) = 1 /\ s[1] = b
  BY <1>0, <1>1
<1>3. PICK q : q = r \o s
  OBVIOUS
<1>4. /\ q \in Seq(S) /\ Len(q) = Len(r) + Len(s)
      /\ \A i \in 1..(Len(r) + Len(s)) : q[i] = IF i <= Len(r) THEN r[i] ELSE s[i - Len(r)]
  <2>1. r \in Seq(S) /\ s \in Seq(S)
    BY <1>2
  <2> QED
    BY <1>3, <2>1, ConcatProperties
<1>5. /\ q \in Seq(S) /\ Len(q) = 2
      /\ q[1] = a /\ q[2] = b
  BY <1>2, <1>4
<1>6. PICK t : t = Append(q, f)
  OBVIOUS
<1>7. /\ t \in Seq(S) /\ Len(t) = Len(q) + 1 /\ t[Len(q) + 1] = f
      /\ \A i \in 1..Len(q) : t[i] = q[i]
  BY <1>0, <1>5, <1>6, AddedLast
<1>8. /\ t \in Seq(S) /\ Len(t) = 3
      /\ t[1] = a /\ t[2] = b /\ t[3] = f
  BY <1>5, <1>7
<1>9. t = <<a, b, f>>
  BY <1>8
<1> QED
  BY <1>1, <1>3, <1>6, <1>9

LEMMA RunFour ==
  ASSUME NEW a, NEW b, NEW c, NEW f
  PROVE  Append(<<a>> \o <<b, c>>, f) = <<a, b, c, f>>
<1>0. PICK S : a \in S /\ b \in S /\ c \in S /\ f \in S
  <2>1. a \in {a, b, c, f} /\ b \in {a, b, c, f} /\ c \in {a, b, c, f}
        /\ f \in {a, b, c, f}
    OBVIOUS
  <2> QED
    BY <2>1
<1>1. PICK r, s : r = <<a>> /\ s = <<b, c>>
  OBVIOUS
<1>2. r \in Seq(S) /\ Len(r) = 1 /\ r[1] = a /\ s \in Seq(S) /\ Len(s) = 2 /\ s[1] = b /\ s[2] = c
  BY <1>0, <1>1
<1>3. PICK q : q = r \o s
  OBVIOUS
<1>4. /\ q \in Seq(S) /\ Len(q) = Len(r) + Len(s)
      /\ \A i \in 1..(Len(r) + Len(s)) : q[i] = IF i <= Len(r) THEN r[i] ELSE s[i - Len(r)]
  <2>1. r \in Seq(S) /\ s \in Seq(S)
    BY <1>2
  <2> QED
    BY <1>3, <2>1, ConcatProperties
<1>5. /\ q \in Seq(S) /\ Len(q) = 3
      /\ q[1] = a /\ q[2] = b /\ q[3] = c
  BY <1>2, <1>4
<1>6. PICK t : t = Append(q, f)
  OBVIOUS
<1>7. /\ t \in Seq(S) /\ Len(t) = Len(q) + 1 /\ t[Len(q) + 1] = f
      /\ \A i \in 1..Len(q) : t[i] = q[i]
  BY <1>0, <1>5, <1>6, AddedLast
<1>8. /\ t \in Seq(S) /\ Len(t) = 4
      /\ t[1] = a /\ t[2] = b /\ t[3] = c /\ t[4] = f
  BY <1>5, <1>7
<1>9. t = <<a, b, c, f>>
  BY <1>8
<1> QED
  BY <1>1, <1>3, <1>6, <1>9

LEMMA RunSix ==
  ASSUME NEW a, NEW b, NEW c, NEW d, NEW e, NEW f
  PROVE  Append(<<a>> \o <<b, c, d, e>>, f) = <<a, b, c, d, e, f>>
<1>0. PICK S : a \in S /\ b \in S /\ c \in S /\ d \in S /\ e \in S /\ f \in S
  <2>1. a \in {a, b, c, d, e, f} /\ b \in {a, b, c, d, e, f} /\ c \in {a, b, c, d, e, f}
        /\ d \in {a, b, c, d, e, f} /\ e \in {a, b, c, d, e, f} /\ f \in {a, b, c, d, e, f}
    OBVIOUS
  <2> QED
    BY <2>1
<1>1. PICK r, s : r = <<a>> /\ s = <<b, c, d, e>>
  OBVIOUS
<1>2. r \in Seq(S) /\ Len(r) = 1 /\ r[1] = a /\ s \in Seq(S) /\ Len(s) = 4
      /\ s[1] = b /\ s[2] = c /\ s[3] = d /\ s[4] = e
  BY <1>0, <1>1
<1>3. PICK q : q = r \o s
  OBVIOUS
<1>4. /\ q \in Seq(S) /\ Len(q) = Len(r) + Len(s)
      /\ \A i \in 1..(Len(r) + Len(s)) : q[i] = IF i <= Len(r) THEN r[i] ELSE s[i - Len(r)]
  <2>1. r \in Seq(S) /\ s \in Seq(S)
    BY <1>2
  <2> QED
    BY <1>3, <2>1, ConcatProperties
<1>5. /\ q \in Seq(S) /\ Len(q) = 5
      /\ q[1] = a /\ q[2] = b /\ q[3] = c /\ q[4] = d /\ q[5] = e
  BY <1>2, <1>4
<1>6. PICK t : t = Append(q, f)
  OBVIOUS
<1>7. /\ t \in Seq(S) /\ Len(t) = Len(q) + 1 /\ t[Len(q) + 1] = f
      /\ \A i \in 1..Len(q) : t[i] = q[i]
  BY <1>0, <1>5, <1>6, AddedLast
<1>8. /\ t \in Seq(S) /\ Len(t) = 6
      /\ t[1] = a /\ t[2] = b /\ t[3] = c /\ t[4] = d /\ t[5] = e /\ t[6] = f
  BY <1>5, <1>7
<1>9. t = <<a, b, c, d, e, f>>
  BY <1>8
<1> QED
  BY <1>1, <1>3, <1>6, <1>9

\* What the handlers write, one to six writes with the acknowledgement.
LEMMA AfterOne ==
  ASSUME NEW a,
         NEW w1,
         Makes(World, a, w1)
  PROVE  After(<<a>>) = w1
<1> DEFINE s == <<a>>
<1>1. Len(s) = 1 /\ s[1] = a
  OBVIOUS
<1> HIDE DEF s
<1>2. Len(s) \in Nat
  BY <1>1
<1>3. PICK g : /\ After(s) = g[Len(s)] /\ g[0] = World
               /\ \A n \in 1..Len(s) : g[n] = Write(g[n - 1], s[n])
  BY <1>2, AfterSolved
<1>4. g[1] = Write(g[0], a)
  BY <1>1, <1>3
<1>5. After(s) = g[1]
  BY <1>1, <1>3
<1> QED
  BY <1>3, <1>4, <1>5 DEF s, Makes

LEMMA AfterTwo ==
  ASSUME NEW a, NEW b,
         NEW w1, NEW w2,
         Makes(World, a, w1), Makes(w1, b, w2)
  PROVE  After(<<a, b>>) = w2
<1> DEFINE s == <<a, b>>
<1>1. Len(s) = 2 /\ s[1] = a /\ s[2] = b
  OBVIOUS
<1> HIDE DEF s
<1>2. Len(s) \in Nat
  BY <1>1
<1>3. PICK g : /\ After(s) = g[Len(s)] /\ g[0] = World
               /\ \A n \in 1..Len(s) : g[n] = Write(g[n - 1], s[n])
  BY <1>2, AfterSolved
<1>4. g[1] = Write(g[0], a) /\ g[2] = Write(g[1], b)
  BY <1>1, <1>3
<1>5. After(s) = g[2]
  BY <1>1, <1>3
<1> QED
  BY <1>3, <1>4, <1>5 DEF s, Makes

LEMMA AfterThree ==
  ASSUME NEW a, NEW b, NEW c,
         NEW w1, NEW w2, NEW w3,
         Makes(World, a, w1), Makes(w1, b, w2), Makes(w2, c, w3)
  PROVE  After(<<a, b, c>>) = w3
<1> DEFINE s == <<a, b, c>>
<1>1. Len(s) = 3 /\ s[1] = a /\ s[2] = b /\ s[3] = c
  OBVIOUS
<1> HIDE DEF s
<1>2. Len(s) \in Nat
  BY <1>1
<1>3. PICK g : /\ After(s) = g[Len(s)] /\ g[0] = World
               /\ \A n \in 1..Len(s) : g[n] = Write(g[n - 1], s[n])
  BY <1>2, AfterSolved
<1>4. g[1] = Write(g[0], a) /\ g[2] = Write(g[1], b) /\ g[3] = Write(g[2], c)
  BY <1>1, <1>3
<1>5. After(s) = g[3]
  BY <1>1, <1>3
<1> QED
  BY <1>3, <1>4, <1>5 DEF s, Makes

LEMMA AfterFour ==
  ASSUME NEW a, NEW b, NEW c, NEW d,
         NEW w1, NEW w2, NEW w3, NEW w4,
         Makes(World, a, w1), Makes(w1, b, w2), Makes(w2, c, w3),
         Makes(w3, d, w4)
  PROVE  After(<<a, b, c, d>>) = w4
<1> DEFINE s == <<a, b, c, d>>
<1>1. Len(s) = 4 /\ s[1] = a /\ s[2] = b /\ s[3] = c /\ s[4] = d
  OBVIOUS
<1> HIDE DEF s
<1>2. Len(s) \in Nat
  BY <1>1
<1>3. PICK g : /\ After(s) = g[Len(s)] /\ g[0] = World
               /\ \A n \in 1..Len(s) : g[n] = Write(g[n - 1], s[n])
  BY <1>2, AfterSolved
<1>4. /\ g[1] = Write(g[0], a) /\ g[2] = Write(g[1], b) /\ g[3] = Write(g[2], c)
      /\ g[4] = Write(g[3], d)
  BY <1>1, <1>3
<1>5. After(s) = g[4]
  BY <1>1, <1>3
<1> QED
  BY <1>3, <1>4, <1>5 DEF s, Makes

LEMMA AfterSix ==
  ASSUME NEW a, NEW b, NEW c, NEW d, NEW e, NEW f,
         NEW w1, NEW w2, NEW w3, NEW w4, NEW w5, NEW w6,
         Makes(World, a, w1), Makes(w1, b, w2), Makes(w2, c, w3),
         Makes(w3, d, w4), Makes(w4, e, w5), Makes(w5, f, w6)
  PROVE  After(<<a, b, c, d, e, f>>) = w6
<1> DEFINE s == <<a, b, c, d, e, f>>
<1>1. Len(s) = 6 /\ s[1] = a /\ s[2] = b /\ s[3] = c /\ s[4] = d /\ s[5] = e /\ s[6] = f
  OBVIOUS
<1> HIDE DEF s
<1>2. Len(s) \in Nat
  BY <1>1
<1>3. PICK g : /\ After(s) = g[Len(s)] /\ g[0] = World
               /\ \A n \in 1..Len(s) : g[n] = Write(g[n - 1], s[n])
  BY <1>2, AfterSolved
<1>4. /\ g[1] = Write(g[0], a) /\ g[2] = Write(g[1], b) /\ g[3] = Write(g[2], c)
      /\ g[4] = Write(g[3], d) /\ g[5] = Write(g[4], e) /\ g[6] = Write(g[5], f)
  BY <1>1, <1>3
<1>5. After(s) = g[6]
  BY <1>1, <1>3
<1> QED
  BY <1>3, <1>4, <1>5 DEF s, Makes

-----------------------------------------------------------------------------
(* What each handler leaves of the row of a chat.                          *)

Restarted(c, row, ph) ==
  Left(c, RowOf("idle", FALSE, row.signal, row.execute), ph, requests, "durations")

LEMMA RowTyped ==
  ASSUME NEW s \in States, NEW d \in BOOLEAN, NEW p \in SUBSET Strategies, NEW q \in SUBSET Strategies
  PROVE  /\ RowOf(s, d, p, q) \in Row
         /\ RowOf(s, d, p, q).state = s /\ RowOf(s, d, p, q).duration = d
         /\ RowOf(s, d, p, q).signal = p /\ RowOf(s, d, p, q).execute = q
BY DEF Row, RowOf

LEMMA StateNames ==
  /\ "idle" \in States /\ "awaiting_phone" \in States
  /\ "picking_signals" \in States /\ "picking_execute" \in States
BY DEF States

LEMMA KeyboardNames ==
  /\ "none" \in Keyboards /\ "durations" \in Keyboards /\ "contact" \in Keyboards
  /\ "signal" \in Keyboards /\ "execute" \in Keyboards
BY DEF Keyboards

LEMMA RowParts ==
  ASSUME NEW row \in Row
  PROVE  /\ row.state \in States /\ row.duration \in BOOLEAN
         /\ row.signal \in SUBSET Strategies /\ row.execute \in SUBSET Strategies
         /\ row["signal"] = row.signal /\ row["execute"] = row.execute
BY DEF Row

Messages(u) == u.is \in {"start", "text", "contact"}

\* A message writes the row back as it was read before anything else.
LEMMA MessageLeaves ==
  ASSUME SignUpTypes, NEW u, Messages(u), Commit(After(Run(u))),
         NEW c \in Chats, c = u.chat, NEW row \in Row, row = chat[c]
  PROVE  \/ Restarted(c, row, phones)
         \/ Left(c, RowOf("picking_signals", TRUE, {}, {}), phones \cup {c}, requests, "signal")
         \/ row.state = "awaiting_phone" /\ Left(c, row, phones, requests, "contact")
         \/ Left(c, row, phones, requests, screen[c])
<1>0. /\ row.state \in States /\ row.duration \in BOOLEAN
      /\ row.signal \in SUBSET Strategies /\ row.execute \in SUBSET Strategies
  BY RowParts
<1>1. PICK first : first = UpsertState(c, row.state, row.duration)
  OBVIOUS
<1>2. PICK w1 : Makes(World, first, w1)
  BY DEF Makes
<1>3. Shape(w1, c, row, phones, FALSE, requests, screen[c])
  <2>1. Shape(World, c, row, phones, FALSE, requests, screen[c])
    BY ShapeWorld
  <2>2. Shape(w1, c, RowOf(row.state, row.duration, row.signal, row.execute),
              phones, FALSE, requests, screen[c])
    BY <1>1, <1>2, <2>1, ShapeUpsert
  <2>3. row = RowOf(row.state, row.duration, row.signal, row.execute)
    BY SameRow
  <2> QED
    BY <2>2, <2>3
<1>4. Run(u) = Append(HandleMessage(u), Acknowledge)
  BY DEF Run, Handler, Messages
<1>5. PICK idle : idle = UpsertState(c, "idle", FALSE)
  OBVIOUS
<1>6. ASSUME HandleMessage(u) = <<first>> \o <<idle, Send(c, "durations")>>
      PROVE  Restarted(c, row, phones)
  <2>1. PICK new \in Row : new = RowOf("idle", FALSE, row.signal, row.execute)
    BY <1>0, RowTyped DEF States
  <2>2. Run(u) = <<first, idle, Send(c, "durations"), Acknowledge>>
    BY <1>4, <1>6, RunFour, Zenon
  <2>3. PICK w2 : Makes(w1, idle, w2)
    BY DEF Makes
  <2>4. PICK w3 : Makes(w2, Send(c, "durations"), w3)
    BY DEF Makes
  <2>5. PICK w4 : Makes(w3, Acknowledge, w4)
    BY DEF Makes
  <2>6. Shape(w2, c, new, phones, FALSE, requests, screen[c])
    BY <1>3, <1>5, <2>1, <2>3, ShapeUpsert
  <2>7. Shape(w3, c, new, phones, FALSE, requests, "durations")
    BY <2>4, <2>6, ShapeSend
  <2>8. Commit(w4)
    BY <1>2, <2>2, <2>3, <2>4, <2>5, AfterFour
  <2> QED
    BY <2>1, <2>5, <2>7, <2>8, ShapeCommitted DEF Restarted
<1>7. CASE u.is = "start" \/ (u.is = "contact" /\ row.state = "awaiting_phone" /\ ~row.duration)
  <2>1. HandleMessage(u) = <<first>> \o <<idle, Send(c, "durations")>>
    BY <1>1, <1>5, <1>7 DEF HandleMessage, HandlePhone, Welcome
  <2> QED
    BY <1>6, <2>1
<1>8. CASE u.is = "contact" /\ row.state = "awaiting_phone" /\ row.duration
  <2>1. PICK moved \in Row : moved = RowOf("picking_signals", TRUE, row.signal, row.execute)
    BY <1>0, RowTyped DEF States
  <2>2. PICK fresh \in Row : fresh = RowOf("picking_signals", TRUE, {}, {})
    BY RowTyped DEF States
  <2>3. moved.state = "picking_signals" /\ moved.duration = TRUE
    BY <2>1 DEF RowOf
  <2>4. PICK move : move = UpsertState(c, "picking_signals", TRUE)
    OBVIOUS
  <2>5. HandleMessage(u) = <<first>> \o <<KeepPhone(c), move, ClearPicks(c), Send(c, "signal")>>
    BY <1>1, <1>8, <2>4 DEF HandleMessage, HandlePhone
  <2>6. Run(u) = <<first, KeepPhone(c), move, ClearPicks(c), Send(c, "signal"), Acknowledge>>
    <3>1. Append(<<first>> \o <<KeepPhone(c), move, ClearPicks(c), Send(c, "signal")>>, Acknowledge)
            = <<first, KeepPhone(c), move, ClearPicks(c), Send(c, "signal"), Acknowledge>>
      BY RunSix
    <3> QED
      BY <1>4, <2>5, <3>1, Zenon
  <2>7. PICK w2 : Makes(w1, KeepPhone(c), w2)
    BY DEF Makes
  <2>8. PICK w3 : Makes(w2, move, w3)
    BY DEF Makes
  <2>9. PICK w4 : Makes(w3, ClearPicks(c), w4)
    BY DEF Makes
  <2>10. PICK w5 : Makes(w4, Send(c, "signal"), w5)
    BY DEF Makes
  <2>11. PICK w6 : Makes(w5, Acknowledge, w6)
    BY DEF Makes
  <2>12. Shape(w2, c, row, phones \cup {c}, FALSE, requests, screen[c])
    BY <1>3, <2>7, ShapePhone
  <2>13. Shape(w3, c, moved, phones \cup {c}, FALSE, requests, screen[c])
    BY <2>1, <2>4, <2>8, <2>12, ShapeUpsert
  <2>14. Shape(w4, c, fresh, phones \cup {c}, FALSE, requests, screen[c])
    <3>1. Shape(w4, c, RowOf(moved.state, moved.duration, {}, {}), phones \cup {c}, FALSE,
                requests, screen[c])
      BY <2>9, <2>13, ShapeClear
    <3>2. RowOf(moved.state, moved.duration, {}, {}) = fresh
      BY <2>2, <2>3
    <3> QED
      BY <3>1, <3>2
  <2>15. Shape(w5, c, fresh, phones \cup {c}, FALSE, requests, "signal")
    BY <2>10, <2>14, ShapeSend
  <2>16. Commit(w6)
    BY <1>2, <2>6, <2>7, <2>8, <2>9, <2>10, <2>11, AfterSix
  <2>17. Left(c, fresh, phones \cup {c}, requests, "signal")
    BY <2>11, <2>15, <2>16, ShapeCommitted
  <2> QED
    BY <1>8, <2>2, <2>17
<1>9. CASE u.is = "text" /\ row.state = "awaiting_phone"
  <2>1. HandleMessage(u) = <<first>> \o <<Send(c, "contact")>>
    BY <1>1, <1>9 DEF HandleMessage
  <2>2. Run(u) = <<first, Send(c, "contact"), Acknowledge>>
    BY <1>4, <2>1, RunThree, Zenon
  <2>3. PICK w2 : Makes(w1, Send(c, "contact"), w2)
    BY DEF Makes
  <2>4. PICK w3 : Makes(w2, Acknowledge, w3)
    BY DEF Makes
  <2>5. Shape(w2, c, row, phones, FALSE, requests, "contact")
    BY <1>3, <2>3, ShapeSend
  <2>6. Commit(w3)
    BY <1>2, <2>2, <2>3, <2>4, AfterThree
  <2>7. Left(c, row, phones, requests, "contact")
    BY <2>4, <2>5, <2>6, ShapeCommitted
  <2> QED
    BY <1>9, <2>7
<1>10. CASE u.is # "start" /\ row.state # "awaiting_phone"
  <2>1. HandleMessage(u) = <<first>> \o <<>>
    BY <1>1, <1>10 DEF HandleMessage, Messages
  <2>2. Run(u) = <<first, Acknowledge>>
    BY <1>4, <2>1, RunTwo, Zenon
  <2>3. PICK w2 : Makes(w1, Acknowledge, w2)
    BY DEF Makes
  <2>4. Commit(w2)
    BY <1>2, <2>2, <2>3, AfterTwo
  <2>5. Left(c, row, phones, requests, screen[c])
    BY <1>3, <2>3, <2>4, ShapeCommitted
  <2> QED
    BY <2>5
<1> QED
  BY <1>0, <1>7, <1>8, <1>9, <1>10 DEF Messages

\* An update that is ignored.
LEMMA NothingLeaves ==
  ASSUME SignUpTypes, NEW u, Handler(u) = <<>>, Commit(After(Run(u))), NEW c \in Chats
  PROVE  Left(c, chat[c], phones, requests, screen[c])
<1>1. Run(u) = <<Acknowledge>>
  BY DEF Run
<1>2. PICK w1 : Makes(World, Acknowledge, w1)
  BY DEF Makes
<1>3. Commit(w1)
  BY <1>1, <1>2, AfterOne
<1>4. Shape(World, c, chat[c], phones, FALSE, requests, screen[c])
  BY ShapeWorld
<1> QED
  BY <1>2, <1>3, <1>4, ShapeCommitted

\* An answer that moves the conversation on.
LEMMA MoveLeaves ==
  ASSUME SignUpTypes, NEW u, NEW c \in Chats, NEW s, NEW d, NEW k,
         Handler(u) = <<UpsertState(c, s, d), Send(c, k)>>, Commit(After(Run(u))),
         NEW row \in Row, row = chat[c]
  PROVE  Left(c, RowOf(s, d, row.signal, row.execute), phones, requests, k)
<1>1. PICK move : move = UpsertState(c, s, d)
  OBVIOUS
<1>2. PICK new : new = RowOf(s, d, row.signal, row.execute)
  OBVIOUS
<1>3. Run(u) = <<move, Send(c, k), Acknowledge>>
  <2>1. Handler(u) = <<move, Send(c, k)>>
    BY <1>1
  <2>2. Append(<<move, Send(c, k)>>, Acknowledge) = <<move, Send(c, k), Acknowledge>>
    BY RunMove
  <2> QED
    BY <2>1, <2>2, Zenon DEF Run
<1>4. PICK w1 : Makes(World, move, w1)
  BY DEF Makes
<1>5. PICK w2 : Makes(w1, Send(c, k), w2)
  BY DEF Makes
<1>6. PICK w3 : Makes(w2, Acknowledge, w3)
  BY DEF Makes
<1>7. Shape(World, c, row, phones, FALSE, requests, screen[c])
  BY ShapeWorld
<1>8. Shape(w1, c, new, phones, FALSE, requests, screen[c])
  BY <1>1, <1>2, <1>4, <1>7, ShapeUpsert
<1>9. Shape(w2, c, new, phones, FALSE, requests, k)
  BY <1>5, <1>8, ShapeSend
<1>10. Commit(w3)
  BY <1>3, <1>4, <1>5, <1>6, AfterThree
<1>11. Left(c, new, phones, requests, k)
  BY <1>6, <1>9, <1>10, ShapeCommitted
<1> QED
  BY <1>2, <1>11

\* A tap on a strategy, in its round, may change the picks of that round.
LEMMA ToggleLeaves ==
  ASSUME SignUpTypes, NEW u, u.is = "pick", u.button \in Kinds, u.strategy \in Strategies,
         Commit(After(Run(u))),
         NEW c \in Chats, c = u.chat, NEW row \in Row, row = chat[c]
  PROVE  \/ Left(c, row, phones, requests, screen[c])
         \/ /\ u.button = "signal" /\ row.state = "picking_signals"
            /\ \E p \in SUBSET Strategies :
                 Left(c, RowOf(row.state, row.duration, p, row.execute), phones, requests, "signal")
         \/ /\ u.button = "execute" /\ row.state = "picking_execute"
            /\ \E p \in SUBSET Strategies :
                 Left(c, RowOf(row.state, row.duration, row.signal, p), phones, requests, "execute")
<1>0. /\ row.signal \in SUBSET Strategies /\ row.execute \in SUBSET Strategies
      /\ row["signal"] = row.signal /\ row["execute"] = row.execute
  BY RowParts
<1>1. PICK k \in Kinds : k = u.button
  OBVIOUS
<1>2. row[k] \in SUBSET Strategies
  BY <1>0 DEF Kinds
<1>3. Handler(u) = HandlePickToggle(u)
  BY DEF Handler
<1>4. PICK more, less \in SUBSET Strategies :
         more = row[k] \cup {u.strategy} /\ less = row[k] \ {u.strategy}
  BY <1>2
<1>5. \/ Handler(u) = <<>>
      \/ row.state = Round(k) /\ Handler(u) = <<SetPicks(c, k, more), Send(c, k)>>
      \/ row.state = Round(k) /\ Handler(u) = <<SetPicks(c, k, less), Send(c, k)>>
  <2>1. /\ chat[u.chat].state = row.state /\ chat[u.chat][u.button] = row[k]
        /\ u.chat = c /\ u.button = k
    BY <1>1
  <2>2. CASE row.state # Round(k)
    BY <1>3, <2>1, <2>2 DEF HandlePickToggle
  <2>3. CASE row.state = Round(k) /\ u.strategy \in row[k]
    BY <1>3, <1>4, <2>1, <2>3 DEF HandlePickToggle
  <2>4. CASE /\ row.state = Round(k) /\ u.strategy \notin row[k]
             /\ Cardinality(row[k]) < Required(k)
    BY <1>3, <1>4, <2>1, <2>4 DEF HandlePickToggle
  <2>5. CASE /\ row.state = Round(k) /\ u.strategy \notin row[k]
             /\ ~(Cardinality(row[k]) < Required(k))
    BY <1>3, <2>1, <2>5 DEF HandlePickToggle
  <2> QED
    BY <2>2, <2>3, <2>4, <2>5
<1>6. CASE Handler(u) = <<>>
  BY <1>6, NothingLeaves
<1>7. ASSUME NEW p \in SUBSET Strategies, row.state = Round(k),
             Handler(u) = <<SetPicks(c, k, p), Send(c, k)>>
      PROVE  \/ /\ k = "signal" /\ row.state = "picking_signals"
                /\ Left(c, RowOf(row.state, row.duration, p, row.execute), phones, requests, "signal")
             \/ /\ k = "execute" /\ row.state = "picking_execute"
                /\ Left(c, RowOf(row.state, row.duration, row.signal, p), phones, requests, "execute")
  <2>1. Run(u) = <<SetPicks(c, k, p), Send(c, k), Acknowledge>>
    <3>1. Append(<<SetPicks(c, k, p), Send(c, k)>>, Acknowledge)
            = <<SetPicks(c, k, p), Send(c, k), Acknowledge>>
      BY RunMove
    <3> QED
      BY <1>7, <3>1, Zenon DEF Run
  <2>2. PICK w1 : Makes(World, SetPicks(c, k, p), w1)
    BY DEF Makes
  <2>3. PICK w2 : Makes(w1, Send(c, k), w2)
    BY DEF Makes
  <2>4. PICK w3 : Makes(w2, Acknowledge, w3)
    BY DEF Makes
  <2>5. Commit(w3)
    BY <2>1, <2>2, <2>3, <2>4, AfterThree
  <2>6. Shape(World, c, row, phones, FALSE, requests, screen[c])
    BY ShapeWorld
  <2>7. ASSUME NEW new, Shape(w1, c, new, phones, FALSE, requests, screen[c])
        PROVE  Left(c, new, phones, requests, k)
    <3>1. Shape(w2, c, new, phones, FALSE, requests, k)
      BY <2>3, <2>7, ShapeSend
    <3> QED
      BY <2>4, <2>5, <3>1, ShapeCommitted
  <2>8. CASE k = "signal"
    <3>1. Shape(w1, c, RowOf(row.state, row.duration, p, row.execute), phones, FALSE, requests,
                screen[c])
      BY <2>2, <2>6, <2>8, ShapePicks
    <3>2. row.state = "picking_signals"
      BY <1>7, <2>8 DEF Round
    <3>3. Left(c, RowOf(row.state, row.duration, p, row.execute), phones, requests, k)
      BY <2>7, <3>1
    <3> QED
      BY <2>8, <3>2, <3>3
  <2>9. CASE k = "execute"
    <3>1. Shape(w1, c, RowOf(row.state, row.duration, row.signal, p), phones, FALSE, requests,
                screen[c])
      BY <2>2, <2>6, <2>9, ShapePicks
    <3>2. row.state = "picking_execute"
      BY <1>7, <2>9 DEF Round
    <3>3. Left(c, RowOf(row.state, row.duration, row.signal, p), phones, requests, k)
      BY <2>7, <3>1
    <3> QED
      BY <2>9, <3>2, <3>3
  <2> QED
    BY <2>8, <2>9 DEF Kinds
<1> QED
  BY <1>1, <1>5, <1>6, <1>7

\* The request that _finalize_signup makes of a row.
RequestOf(c, row) ==
  [chat |-> c, phone |-> c \in phones, signal |-> row.signal, execute |-> row.execute]

LEMMA DoneLeaves ==
  ASSUME SignUpTypes, NEW u, u.is = "done", u.button \in Kinds, Commit(After(Run(u))),
         NEW c \in Chats, c = u.chat, NEW row \in Row, row = chat[c]
  PROVE  \/ Left(c, row, phones, requests, screen[c])
         \/ /\ u.button = "signal" /\ Cardinality(row.signal) = SignalPicks
            /\ Left(c, RowOf("picking_execute", row.duration, row.signal, row.execute),
                    phones, requests, "execute")
         \/ Restarted(c, row, phones \ {c})
         \/ /\ u.button = "execute" /\ row.duration /\ Cardinality(row.execute) = ExecutePicks
            /\ Left(c, RowOf("idle", FALSE, {}, {}), phones \ {c},
                    requests \cup {RequestOf(c, row)}, "none")
<1>0. /\ row.duration \in BOOLEAN
      /\ row.signal \in SUBSET Strategies /\ row.execute \in SUBSET Strategies
      /\ row["signal"] = row.signal /\ row["execute"] = row.execute
  BY RowParts
<1>1. PICK k \in Kinds : k = u.button
  OBVIOUS
<1>2. Handler(u) = HandlePickDone(u)
  BY DEF Handler
<1>3. CASE Cardinality(row[k]) # Required(k)
  <2>1. chat[u.chat][u.button] = row[k] /\ u.button = k
    BY <1>1
  <2>2. Handler(u) = <<>>
    BY <1>2, <1>3, <2>1 DEF HandlePickDone
  <2> QED
    BY <2>2, NothingLeaves
<1>4. CASE Cardinality(row[k]) = Required(k) /\ k = "signal"
  <2>1. Handler(u) = <<UpsertState(c, "picking_execute", row.duration), Send(c, "execute")>>
    BY <1>1, <1>2, <1>4 DEF HandlePickDone
  <2>2. Left(c, RowOf("picking_execute", row.duration, row.signal, row.execute),
             phones, requests, "execute")
    BY <2>1, MoveLeaves
  <2>3. Cardinality(row.signal) = SignalPicks
    BY <1>0, <1>4 DEF Required
  <2> QED
    BY <1>1, <1>4, <2>2, <2>3
<1>5. PICK w1 : Makes(World, PopPhone(c), w1)
  BY DEF Makes
<1>6. Shape(w1, c, row, phones \ {c}, c \in phones, requests, screen[c])
  <2>1. Shape(World, c, row, phones, FALSE, requests, screen[c])
    BY ShapeWorld
  <2> QED
    BY <1>5, <2>1, ShapePhone
<1>7. PICK idle : idle = UpsertState(c, "idle", FALSE)
  OBVIOUS
<1>8. PICK new \in Row : new = RowOf("idle", FALSE, row.signal, row.execute)
  BY <1>0, RowTyped DEF States
<1>9. CASE Cardinality(row[k]) = Required(k) /\ k = "execute" /\ ~row.duration
  <2>1. Handler(u) = <<PopPhone(c)>> \o <<idle, Send(c, "durations")>>
    BY <1>1, <1>2, <1>7, <1>9 DEF HandlePickDone, FinalizeSignup, Welcome
  <2>2. Run(u) = <<PopPhone(c), idle, Send(c, "durations"), Acknowledge>>
    <3>1. Append(<<PopPhone(c)>> \o <<idle, Send(c, "durations")>>, Acknowledge)
            = <<PopPhone(c), idle, Send(c, "durations"), Acknowledge>>
      BY RunFour
    <3> QED
      BY <2>1, <3>1, Zenon DEF Run
  <2>3. PICK w2 : Makes(w1, idle, w2)
    BY DEF Makes
  <2>4. PICK w3 : Makes(w2, Send(c, "durations"), w3)
    BY DEF Makes
  <2>5. PICK w4 : Makes(w3, Acknowledge, w4)
    BY DEF Makes
  <2>6. Shape(w2, c, new, phones \ {c}, c \in phones, requests, screen[c])
    BY <1>6, <1>7, <1>8, <2>3, ShapeUpsert
  <2>7. Shape(w3, c, new, phones \ {c}, c \in phones, requests, "durations")
    BY <2>4, <2>6, ShapeSend
  <2>8. Commit(w4)
    BY <1>5, <2>2, <2>3, <2>4, <2>5, AfterFour
  <2>9. Left(c, new, phones \ {c}, requests, "durations")
    BY <2>5, <2>7, <2>8, ShapeCommitted
  <2> QED
    BY <1>8, <2>9 DEF Restarted
<1>10. CASE Cardinality(row[k]) = Required(k) /\ k = "execute" /\ row.duration
  <2>1. PICK last : last = RowOf("idle", FALSE, {}, {})
    OBVIOUS
  <2>2. new.state = "idle" /\ new.duration = FALSE
    BY <1>8 DEF RowOf
  <2>3. PICK asked : asked = requests \cup {RequestOf(c, row)}
    OBVIOUS
  <2>4. Handler(u) = <<PopPhone(c)>> \o <<CreateRequest(c), idle, ClearPicks(c), Send(c, "none")>>
    BY <1>1, <1>2, <1>7, <1>10 DEF HandlePickDone, FinalizeSignup
  <2>5. Run(u) = <<PopPhone(c), CreateRequest(c), idle, ClearPicks(c), Send(c, "none"), Acknowledge>>
    <3>1. Append(<<PopPhone(c)>> \o <<CreateRequest(c), idle, ClearPicks(c), Send(c, "none")>>,
                 Acknowledge)
            = <<PopPhone(c), CreateRequest(c), idle, ClearPicks(c), Send(c, "none"), Acknowledge>>
      BY RunSix
    <3> QED
      BY <2>4, <3>1, Zenon DEF Run
  <2>6. PICK w2 : Makes(w1, CreateRequest(c), w2)
    BY DEF Makes
  <2>7. PICK w3 : Makes(w2, idle, w3)
    BY DEF Makes
  <2>8. PICK w4 : Makes(w3, ClearPicks(c), w4)
    BY DEF Makes
  <2>9. PICK w5 : Makes(w4, Send(c, "none"), w5)
    BY DEF Makes
  <2>10. PICK w6 : Makes(w5, Acknowledge, w6)
    BY DEF Makes
  <2>11. Shape(w2, c, row, phones \ {c}, c \in phones, asked, screen[c])
    BY <1>6, <2>3, <2>6, ShapeCreate DEF RequestOf
  <2>12. Shape(w3, c, new, phones \ {c}, c \in phones, asked, screen[c])
    BY <1>7, <1>8, <2>7, <2>11, ShapeUpsert
  <2>13. Shape(w4, c, last, phones \ {c}, c \in phones, asked, screen[c])
    <3>1. Shape(w4, c, RowOf(new.state, new.duration, {}, {}), phones \ {c}, c \in phones, asked,
                screen[c])
      BY <2>8, <2>12, ShapeClear
    <3>2. RowOf(new.state, new.duration, {}, {}) = last
      BY <2>1, <2>2
    <3> QED
      BY <3>1, <3>2
  <2>14. Shape(w5, c, last, phones \ {c}, c \in phones, asked, "none")
    BY <2>9, <2>13, ShapeSend
  <2>15. Commit(w6)
    BY <1>5, <2>5, <2>6, <2>7, <2>8, <2>9, <2>10, AfterSix
  <2>16. Left(c, last, phones \ {c}, asked, "none")
    BY <2>10, <2>14, <2>15, ShapeCommitted
  <2>17. Cardinality(row.execute) = ExecutePicks
    BY <1>0, <1>10 DEF Required
  <2> QED
    BY <1>1, <1>10, <2>1, <2>3, <2>16, <2>17
<1> QED
  BY <1>0, <1>3, <1>4, <1>9, <1>10 DEF Kinds

-----------------------------------------------------------------------------
(* The invariant.  A row with picks of the second round has those of the   *)
(* first, whatever was tapped: that is why Continue need not look at the   *)
(* state.  Of a person whose taps meet the last keyboard, the keyboard     *)
(* tells the state, and from the first picker on the phone is in memory.   *)

PicksFollow(row) ==
  /\ row.execute # {} \/ row.state = "picking_execute" => Cardinality(row.signal) = SignalPicks
  /\ row.state = "picking_signals" => row.execute = {}

KeyboardTells(keyboard, row, kept) ==
  CASE keyboard \in {"none", "durations"} -> row.state = "idle" /\ ~row.duration
    [] keyboard = "contact" -> row.state = "awaiting_phone" /\ row.duration
    [] keyboard = "signal" -> row.state = "picking_signals" /\ row.duration /\ kept
    [] keyboard = "execute" -> row.state = "picking_execute" /\ row.duration /\ kept
    [] OTHER -> FALSE

\* The same, of chat c, but for those whose taps strayed.
Told(strays, c, keyboard, row, cache) ==
  c \in strays \/ KeyboardTells(keyboard, row, c \in cache)

Complete(r) ==
  /\ Cardinality(r.signal) = SignalPicks /\ Cardinality(r.execute) = ExecutePicks
  /\ r.phone \/ r.chat \in strayed

SignUpInv ==
  /\ crashes \in Nat
  /\ crashes = 0 => /\ SignUpTypes
                    /\ \A c \in Chats : /\ PicksFollow(chat[c])
                                        /\ Told(strayed, c, screen[c], chat[c], phones)
                    /\ \A r \in requests : Complete(r)

LEMMA SignUpInit == Init => SignUpInv
<1> SUFFICES ASSUME Init PROVE SignUpInv
  OBVIOUS
<1>1. PICK row \in Row : row = [state |-> "idle", duration |-> FALSE, signal |-> {}, execute |-> {}]
  BY DEF Row, States
<1>2. chat = [c \in Chats |-> row] /\ screen = [c \in Chats |-> "none"]
  BY <1>1 DEF Init
<1>3. SignUpTypes
  <2>1. backlog \in Seq(Update) /\ phones \subseteq Chats /\ requests \subseteq Request
    BY DEF Init
  <2>2. chat \in [Chats -> Row] /\ screen \in [Chats -> Keyboards]
    <3>1. [c \in Chats |-> row] \in [Chats -> Row]
      OBVIOUS
    <3>2. [c \in Chats |-> "none"] \in [Chats -> Keyboards]
      BY DEF Keyboards
    <3> QED
      BY <1>2, <3>1, <3>2
  <2> QED
    BY <2>1, <2>2 DEF SignUpTypes
<1>4. PicksFollow(row)
  BY <1>1 DEF PicksFollow
<1>5. ASSUME NEW c \in Chats
      PROVE  PicksFollow(chat[c]) /\ Told(strayed, c, screen[c], chat[c], phones)
  <2>1. chat[c] = row /\ screen[c] = "none"
    BY <1>2
  <2>2. KeyboardTells("none", row, c \in phones)
    BY <1>1 DEF KeyboardTells
  <2> QED
    BY <1>4, <2>1, <2>2 DEF Told
<1>6. requests = {} /\ crashes = 0
  BY DEF Init
<1> QED
  BY <1>3, <1>5, <1>6 DEF SignUpInv

\* A handled update keeps the invariant if it leaves a row that follows it.
LEMMA LeftKeeps ==
  ASSUME SignUpInv, crashes = 0, crashes' = 0, strayed \subseteq strayed', backlog # <<>>,
         NEW c \in Chats, NEW row \in Row, NEW ph \in SUBSET Chats, NEW rq \in SUBSET Request,
         NEW sc \in Keyboards, Left(c, row, ph, rq, sc), ph \ {c} = phones \ {c},
         PicksFollow(row), Told(strayed', c, sc, row, ph),
         \A r \in rq \ requests : Complete(r)'
  PROVE  SignUpInv'
<1>1. /\ SignUpTypes
      /\ \A b \in Chats : PicksFollow(chat[b])
                          /\ Told(strayed, b, screen[b], chat[b], phones)
      /\ \A r \in requests : Complete(r)
  BY DEF SignUpInv
<1>2. SignUpTypes'
  <2>1. Tail(backlog) \in Seq(Update)
    BY <1>1 DEF SignUpTypes
  <2>2. [chat EXCEPT ![c] = row] \in [Chats -> Row] /\ [screen EXCEPT ![c] = sc] \in [Chats -> Keyboards]
    BY <1>1 DEF SignUpTypes
  <2> QED
    BY <2>1, <2>2 DEF SignUpTypes, Left
<1>3. ASSUME NEW b \in Chats
      PROVE  PicksFollow(chat'[b])
             /\ Told(strayed', b, screen'[b], chat'[b], phones')
  <2>1. CASE b = c
    <3>1. chat'[b] = row /\ screen'[b] = sc /\ phones' = ph
      BY <1>1, <2>1 DEF Left, SignUpTypes
    <3> QED
      BY <2>1, <3>1
  <2>2. CASE b # c
    <3>1. chat'[b] = chat[b] /\ screen'[b] = screen[b]
      BY <1>1, <2>2 DEF Left, SignUpTypes
    <3>2. (b \in phones') = (b \in phones)
      BY <2>2 DEF Left
    <3>3. Told(strayed', b, screen[b], chat[b], phones')
      BY <1>1, <3>2 DEF Told
    <3> QED
      BY <1>1, <3>1, <3>3
  <2> QED
    BY <2>1, <2>2
<1>4. \A r \in requests' : Complete(r)'
  <2>1. \A r \in requests : Complete(r)'
    BY <1>1 DEF Complete
  <2> QED
    BY <2>1 DEF Left
<1>5. (\A b \in Chats : /\ PicksFollow(chat[b])
                        /\ Told(strayed, b, screen[b], chat[b], phones))'
  BY <1>3
<1>6. (\A r \in requests : Complete(r))'
  BY <1>4
<1> QED
  BY <1>2, <1>5, <1>6 DEF SignUpInv

LEMMA HandleKeeps ==
  ASSUME SignUpInv, crashes = 0, HandleUpdate
  PROVE  SignUpInv'
<1>1. backlog # <<>> /\ crashes' = 0 /\ Commit(After(Run(Head(backlog))))
  BY DEF HandleUpdate
<1>2. /\ SignUpTypes
      /\ \A b \in Chats : PicksFollow(chat[b])
                          /\ Told(strayed, b, screen[b], chat[b], phones)
  BY DEF SignUpInv
<1>3. PICK u \in Update : u = Head(backlog)
  BY <1>1, <1>2 DEF SignUpTypes
<1>4. PICK c \in Chats : c = u.chat
  BY <1>3 DEF Update, Plain, Answers, Taps
<1>5. PICK row \in Row : row = chat[c]
  BY <1>2 DEF SignUpTypes
<1>6. /\ row.state \in States /\ row.duration \in BOOLEAN
      /\ row.signal \in SUBSET Strategies /\ row.execute \in SUBSET Strategies
  BY RowParts
<1>7. /\ phones \in SUBSET Chats /\ requests \in SUBSET Request
      /\ phones \ {c} \in SUBSET Chats /\ phones \cup {c} \in SUBSET Chats /\ screen[c] \in Keyboards
  BY <1>2 DEF SignUpTypes
<1>8. strayed \subseteq strayed' /\ (c \in strayed' \/ u.button \in {"none", screen[c]})
  BY <1>3, <1>4 DEF HandleUpdate
<1>9. PicksFollow(row) /\ Told(strayed', c, screen[c], row, phones)
  BY <1>2, <1>5, <1>8 DEF Told
<1>10. Commit(After(Run(u)))
  BY <1>1, <1>3
<1>11. ASSUME NEW new \in Row, NEW ph \in SUBSET Chats, NEW sc \in Keyboards,
              Left(c, new, ph, requests, sc), ph \ {c} = phones \ {c},
              PicksFollow(new), Told(strayed', c, sc, new, ph)
       PROVE  SignUpInv'
  <2>1. \A r \in requests \ requests : Complete(r)'
    OBVIOUS
  <2> QED
    BY <1>1, <1>7, <1>8, <1>11, <2>1, LeftKeeps
<1>12. ASSUME Left(c, row, phones, requests, screen[c]) PROVE SignUpInv'
  BY <1>7, <1>9, <1>11, <1>12
<1>13. ASSUME NEW ph \in SUBSET Chats, Restarted(c, row, ph), ph \ {c} = phones \ {c}
       PROVE  SignUpInv'
  <2>1. PICK new \in Row : new = RowOf("idle", FALSE, row.signal, row.execute)
    BY <1>6, RowTyped, StateNames
  <2>1a. /\ new.state = "idle" /\ new.duration = FALSE
         /\ new.signal = row.signal /\ new.execute = row.execute
    BY <2>1 DEF RowOf
  <2>2. Left(c, new, ph, requests, "durations")
    BY <1>13, <2>1 DEF Restarted
  <2>3. PicksFollow(new)
    BY <1>9, <2>1a DEF PicksFollow
  <2>4. Told(strayed', c, "durations", new, ph)
    BY <2>1a DEF Told, KeyboardTells
  <2> QED
    BY <1>11, <1>13, <2>2, <2>3, <2>4, KeyboardNames
<1>14. CASE u.is \in {"start", "text", "contact"}
  <2>1. CASE Left(c, RowOf("picking_signals", TRUE, {}, {}), phones \cup {c}, requests, "signal")
    <3>1. PICK new \in Row : new = RowOf("picking_signals", TRUE, {}, {})
      BY RowTyped, StateNames
    <3>1a. /\ new.state = "picking_signals" /\ new.duration = TRUE
           /\ new.signal = {} /\ new.execute = {}
      BY <3>1 DEF RowOf
    <3>2. PicksFollow(new)
      BY <3>1a DEF PicksFollow
    <3>3. Told(strayed', c, "signal", new, phones \cup {c})
      BY <3>1a DEF Told, KeyboardTells
    <3>4. Left(c, new, phones \cup {c}, requests, "signal")
      BY <2>1, <3>1
    <3>5. (phones \cup {c}) \ {c} = phones \ {c}
      OBVIOUS
    <3> QED
      BY <1>7, <1>11, <3>2, <3>3, <3>4, <3>5, KeyboardNames
  <2>2. CASE row.state = "awaiting_phone" /\ Left(c, row, phones, requests, "contact")
    <3>1. Told(strayed', c, "contact", row, phones)
      BY <1>9, <2>2 DEF Told, KeyboardTells
    <3> QED
      BY <1>7, <1>9, <1>11, <2>2, <3>1, KeyboardNames
  <2>3. CASE Restarted(c, row, phones)
    BY <1>7, <1>13, <2>3
  <2>4. CASE Left(c, row, phones, requests, screen[c])
    BY <1>12, <2>4
  <2>5. SignUpTypes /\ Messages(u) /\ Commit(After(Run(u)))
        /\ c = u.chat /\ row = chat[c]
    BY <1>2, <1>4, <1>5, <1>10, <1>14 DEF Messages
  <2>6. \/ Restarted(c, row, phones)
        \/ Left(c, RowOf("picking_signals", TRUE, {}, {}), phones \cup {c}, requests, "signal")
        \/ row.state = "awaiting_phone" /\ Left(c, row, phones, requests, "contact")
        \/ Left(c, row, phones, requests, screen[c])
    BY <2>5, MessageLeaves
  <2> QED
    BY <2>1, <2>2, <2>3, <2>4, <2>6
<1>15. CASE u.is = "duration"
  <2>1. PICK new \in Row : new = RowOf("awaiting_phone", TRUE, row.signal, row.execute)
    BY <1>6, RowTyped, StateNames
  <2>1a. /\ new.state = "awaiting_phone" /\ new.duration = TRUE
         /\ new.signal = row.signal /\ new.execute = row.execute
    BY <2>1 DEF RowOf
  <2>2. Handler(u) = <<UpsertState(c, "awaiting_phone", TRUE), Send(c, "contact")>>
    BY <1>4, <1>15 DEF Handler, HandleDuration
  <2>3. Left(c, new, phones, requests, "contact")
    BY <1>2, <1>5, <1>10, <2>1, <2>2, MoveLeaves
  <2>4. PicksFollow(new)
    BY <1>9, <2>1a DEF PicksFollow
  <2>5. Told(strayed', c, "contact", new, phones)
    BY <2>1a DEF Told, KeyboardTells
  <2> QED
    BY <1>7, <1>11, <2>3, <2>4, <2>5, KeyboardNames
<1>16. u.is \in {"pick", "done"} => /\ u.button \in Kinds
                                    /\ c \in strayed' \/ u.button = screen[c]
  BY <1>3, <1>8 DEF Update, Plain, Answers, Taps, Kinds
<1>17. CASE u.is = "pick"
  <2>1. ASSUME NEW p \in SUBSET Strategies, u.button = "signal", row.state = "picking_signals",
               Left(c, RowOf(row.state, row.duration, p, row.execute), phones, requests, "signal")
        PROVE  SignUpInv'
    <3>1. PICK new \in Row : new = RowOf(row.state, row.duration, p, row.execute)
      BY <1>6, RowTyped
    <3>1a. /\ new.state = row.state /\ new.duration = row.duration
           /\ new.signal = p /\ new.execute = row.execute
      BY <3>1 DEF RowOf
    <3>2. Left(c, new, phones, requests, "signal")
      BY <2>1, <3>1
    <3>3. PicksFollow(new)
      BY <1>9, <2>1, <3>1a DEF PicksFollow
    <3>4. Told(strayed', c, "signal", new, phones)
      BY <1>9, <1>16, <1>17, <2>1, <3>1a DEF Told, KeyboardTells
    <3> QED
      BY <1>7, <1>11, <3>2, <3>3, <3>4, KeyboardNames
  <2>2. ASSUME NEW p \in SUBSET Strategies, u.button = "execute", row.state = "picking_execute",
               Left(c, RowOf(row.state, row.duration, row.signal, p), phones, requests, "execute")
        PROVE  SignUpInv'
    <3>1. PICK new \in Row : new = RowOf(row.state, row.duration, row.signal, p)
      BY <1>6, RowTyped
    <3>1a. /\ new.state = row.state /\ new.duration = row.duration
           /\ new.signal = row.signal /\ new.execute = p
      BY <3>1 DEF RowOf
    <3>2. Left(c, new, phones, requests, "execute")
      BY <2>2, <3>1
    <3>3. PicksFollow(new)
      BY <1>9, <2>2, <3>1a DEF PicksFollow
    <3>4. Told(strayed', c, "execute", new, phones)
      BY <1>9, <1>16, <1>17, <2>2, <3>1a DEF Told, KeyboardTells
    <3> QED
      BY <1>7, <1>11, <3>2, <3>3, <3>4, KeyboardNames
  <2>3. u.strategy \in Strategies
    BY <1>3, <1>17 DEF Update, Plain, Answers, Taps
  <2> QED
    BY <1>2, <1>4, <1>5, <1>10, <1>12, <1>16, <1>17, <2>1, <2>2, <2>3, ToggleLeaves
<1>18. CASE u.is = "done"
  <2>1. CASE /\ u.button = "signal" /\ Cardinality(row.signal) = SignalPicks
             /\ Left(c, RowOf("picking_execute", row.duration, row.signal, row.execute),
                     phones, requests, "execute")
    <3>1. PICK new \in Row : new = RowOf("picking_execute", row.duration, row.signal, row.execute)
      BY <1>6, RowTyped, StateNames
    <3>1a. /\ new.state = "picking_execute" /\ new.duration = row.duration
           /\ new.signal = row.signal /\ new.execute = row.execute
      BY <3>1 DEF RowOf
    <3>2. Left(c, new, phones, requests, "execute")
      BY <2>1, <3>1
    <3>3. PicksFollow(new)
      BY <2>1, <3>1a DEF PicksFollow
    <3>4. Told(strayed', c, "execute", new, phones)
      BY <1>9, <1>16, <1>18, <2>1, <3>1a DEF Told, KeyboardTells
    <3> QED
      BY <1>7, <1>11, <3>2, <3>3, <3>4, KeyboardNames
  <2>2. CASE Restarted(c, row, phones \ {c})
    <3>1. (phones \ {c}) \ {c} = phones \ {c}
      OBVIOUS
    <3> QED
      BY <1>7, <1>13, <2>2, <3>1
  <2>3. CASE /\ u.button = "execute" /\ row.duration /\ Cardinality(row.execute) = ExecutePicks
             /\ Left(c, RowOf("idle", FALSE, {}, {}), phones \ {c},
                     requests \cup {RequestOf(c, row)}, "none")
    <3>1. PICK new \in Row : new = RowOf("idle", FALSE, {}, {})
      BY RowTyped, StateNames
    <3>1a. /\ new.state = "idle" /\ new.duration = FALSE
           /\ new.signal = {} /\ new.execute = {}
      BY <3>1 DEF RowOf
    <3>2. PICK r \in Request : /\ r = RequestOf(c, row) /\ r.chat = c /\ (c \in phones => r.phone)
                               /\ r.signal = row.signal /\ r.execute = row.execute
      <4>1. RequestOf(c, row) \in Request
        BY <1>6 DEF RequestOf, Request
      <4>2. /\ RequestOf(c, row).chat = c /\ (c \in phones => RequestOf(c, row).phone)
            /\ RequestOf(c, row).signal = row.signal /\ RequestOf(c, row).execute = row.execute
        BY DEF RequestOf
      <4> QED
        BY <4>1, <4>2
    <3>3. Left(c, new, phones \ {c}, requests \cup {r}, "none")
      BY <2>3, <3>1, <3>2
    <3>4. PicksFollow(new)
      BY <3>1a DEF PicksFollow
    <3>5. Told(strayed', c, "none", new, phones \ {c})
      BY <3>1a DEF Told, KeyboardTells
    <3>6. row.execute # {}
      <4>1. Cardinality({}) = 0
        BY FS_EmptySet
      <4> QED
        BY <2>3, <4>1, SignUpAssumption
    <3>7. Cardinality(r.signal) = SignalPicks /\ Cardinality(r.execute) = ExecutePicks
      BY <1>9, <2>3, <3>2, <3>6 DEF PicksFollow
    <3>8. r.phone \/ r.chat \in strayed'
      <4>1. Told(strayed', c, "execute", row, phones)
        BY <1>9, <1>16, <1>18, <2>3 DEF Told
      <4>2. c \in strayed' \/ c \in phones
        BY <4>1 DEF Told, KeyboardTells
      <4> QED
        BY <3>2, <4>2
    <3>9. \A q \in (requests \cup {r}) \ requests : Complete(q)'
      BY <3>7, <3>8 DEF Complete
    <3>10. requests \cup {r} \in SUBSET Request
      BY <1>7, <3>2
    <3>11. (phones \ {c}) \ {c} = phones \ {c}
      OBVIOUS
    <3>12. Told(strayed', c, "none", new, phones \ {c})
      BY <3>5
    <3> QED
      BY <1>1, <1>7, <1>8, <3>3, <3>4, <3>9, <3>10, <3>11, <3>12, LeftKeeps, KeyboardNames
  <2>4. CASE Left(c, row, phones, requests, screen[c])
    BY <1>12, <2>4
  <2> QED
    BY <1>2, <1>4, <1>5, <1>10, <1>16, <1>18, <2>1, <2>2, <2>3, <2>4, DoneLeaves
<1> QED
  BY <1>3, <1>14, <1>15, <1>17, <1>18 DEF Update, Plain, Answers, Taps

LEMMA SignUpNext == SignUpInv /\ [Next]_vars => SignUpInv'
<1> SUFFICES ASSUME SignUpInv, [Next]_vars PROVE SignUpInv'
  OBVIOUS
<1>0. crashes \in Nat
  BY DEF SignUpInv
<1>1. ASSUME NEW r \in requests, Decided(r) PROVE SignUpInv'
  BY <1>1 DEF Decided, SignUpInv, SignUpTypes, Complete
<1>2. ASSUME NEW u \in Update, Arrives(u) PROVE SignUpInv'
  <2>1. SignUpTypes => Append(backlog, u) \in Seq(Update)
    BY DEF SignUpTypes
  <2> QED
    BY <1>2, <2>1 DEF Arrives, SignUpInv, SignUpTypes, Complete
<1>3. CASE HandleUpdate
  <2>1. CASE crashes = 0
    BY <1>3, <2>1, HandleKeeps
  <2>2. CASE crashes # 0
    BY <1>0, <1>3, <2>2 DEF HandleUpdate, SignUpInv
  <2> QED
    BY <2>1, <2>2
<1>4. CASE HandlerRaises \/ Crash
  <2>1. crashes' = crashes + 1
    BY <1>4 DEF HandlerRaises, Crash
  <2> QED
    BY <1>0, <2>1 DEF SignUpInv
<1>5. CASE UNCHANGED vars
  BY <1>5 DEF vars, SignUpInv, SignUpTypes, Complete
<1> QED
  BY <1>1, <1>2, <1>3, <1>4, <1>5 DEF Next

\* As long as no handler was cut off, no order of messages, taps and old keyboards gets a
\* request through Continue with other numbers of picks than the plan asks for.
THEOREM PicksComplete == Spec => []PicksAsRequired
<1>1. SignUpInv => PicksAsRequired
  BY DEF SignUpInv, PicksAsRequired, Complete
<1> QED
  BY <1>1, SignUpInit, SignUpNext, PTL DEF Spec

\* Nor does the phone get lost on its way through memory, of a person whose taps meet the
\* last keyboard.
THEOREM PhoneKept == Spec => []PhoneReachesRequest
<1>1. SignUpInv => PhoneReachesRequest
  BY DEF SignUpInv, PhoneReachesRequest, Complete
<1> QED
  BY <1>1, SignUpInit, SignUpNext, PTL DEF Spec

=============================================================================
