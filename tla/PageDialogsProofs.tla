-------------------------- MODULE PageDialogsProofs --------------------------
(***************************************************************************)
(* Proofs about PageDialogs, for any programs, number of requests and      *)
(* confirm dialogs.                                                        *)
(***************************************************************************)
EXTENDS PageDialogs, FiniteSetTheorems, TLAPS

\* What a queue of transitions is asked about: what is in it, and in which order.
In(s, x) == \E i \in 1..Len(s) : s[i] = x
Before(s, x, y) == \E i, j \in 1..Len(s) : i < j /\ s[i] = x /\ s[j] = y
Due(d, phase) == In(timers, <<d, phase>>)

\* The transitions of one dialog that may wait behind one another.
Follows == {<<"backdrop", "hide">>, <<"shown", "hide">>, <<"hide", "shown">>,
            <<"shown", "hidden">>}
Ordered ==
  \A d \in Dialog, p \in Phase, q \in Phase :
    Before(timers, <<d, p>>, <<d, q>>) => <<p, q>> \in Follows

\* What differs between a dialog's flags and the document is due to change.
Screen ==
  \A d \in Dialog :
    /\ d \in shown => d \in backdrop /\ (d \in up \/ Due(d, "backdrop"))
    /\ d \in up => d \in shown \/ Due(d, "hide")
    /\ d \in moving => Due(d, "backdrop") \/ Due(d, "shown") \/ Due(d, "hide")
    /\ d \in backdrop => d \in shown \/ Due(d, "hide") \/ Due(d, "hidden")
    /\ \A p \in Phase : Due(d, p) => d \in backdrop
    /\ Due(d, "hide") \/ Due(d, "hidden") => d \notin shown
    /\ Due(d, "backdrop") /\ d \notin shown => Due(d, "hide")

\* A bootbox element has a backdrop as long as it is in the document; a confirm
\* dialog is only asked for on an empty screen, so it is the first element.
Elements ==
  /\ \A b \in Box : InBoxes(b) <=> b \in backdrop
  /\ \A i, j \in 1..Len(boxes) : boxes[i] = boxes[j] => i = j
  /\ \A i \in 1..Len(boxes) : boxes[i] \in Confirm => i = 1
  /\ \A r \in Request : r \in backdrop => req[r] # "unsent"
  /\ bodyOpen => backdrop # {}

Frame ==
  /\ frame = "page" => Modal \in backdrop
  /\ Modal \in shown => frame = "page" \/ Due(Modal, "backdrop") \/ Due(Modal, "shown")

\* No page or confirm dialog has the keyboard once a wait dialog has settled: a
\* confirm dialog that comes up with it takes the focus before.
Keyboard ==
  \A r \in Request : r \in shown =>
    /\ (\A p \in Phase : ~Due(r, p)) => focus = None
    /\ \A c \in Confirm :
         /\ Due(c, "shown") /\ c \in up =>
              Due(r, "backdrop") \/ Before(timers, <<c, "shown">>, <<r, "shown">>)
         /\ Due(c, "backdrop") =>
              Before(timers, <<c, "backdrop">>, <<r, "backdrop">>)

\* A request under way has a page that awaits its answer; while its wait dialog is
\* shown, a page that is on its way out makes it a hasty one.
Senders == \A r \in Request : req[r] = "sent" => from[r] \in Page
Haste ==
  /\ \A r \in Request : req[r] = "sent" /\ r \in shown /\ Going(from[r]) => r \in hasty
  /\ StuckOnlyIfHasty

IInv ==
  /\ TypeOK /\ Ordered /\ Screen /\ Elements /\ Frame /\ Keyboard
  /\ Senders /\ Haste /\ ActiveIsOpen
-----------------------------------------------------------------------------
(* Queues *)

LEMMA AppendIn ==
  ASSUME NEW S, NEW s \in Seq(S), NEW e \in S
  PROVE  /\ Append(s, e) \in Seq(S)
         /\ \A x : In(Append(s, e), x) <=> In(s, x) \/ x = e
         /\ \A x, y : Before(Append(s, e), x, y) <=> Before(s, x, y) \/ (In(s, x) /\ y = e)
<1> DEFINE t == Append(s, e)
<1>1. t \in Seq(S) /\ Len(t) = Len(s) + 1 /\ Len(s) \in Nat OBVIOUS
<1>2. t[Len(s) + 1] = e /\ \A i \in 1..Len(s) : t[i] = s[i] OBVIOUS
<1> HIDE DEF t
<1>3. \A x : In(t, x) <=> In(s, x) \/ x = e BY <1>1, <1>2 DEF In
<1>4. \A x, y : Before(t, x, y) <=> Before(s, x, y) \/ (In(s, x) /\ y = e)
  BY <1>1, <1>2 DEF In, Before
<1> QED BY <1>1, <1>3, <1>4 DEF t

LEMMA TailIn ==
  ASSUME NEW S, NEW s \in Seq(S), s # <<>>
  PROVE  /\ Tail(s) \in Seq(S)
         /\ \A x : In(s, x) <=> In(Tail(s), x) \/ x = Head(s)
         /\ \A x, y : Before(s, x, y) <=>
              Before(Tail(s), x, y) \/ (x = Head(s) /\ In(Tail(s), y))
<1> DEFINE t == Tail(s)
<1>1. t \in Seq(S) /\ Len(t) = Len(s) - 1 /\ Len(s) \in Nat /\ Len(s) > 0 OBVIOUS
<1>2. s[1] = Head(s) /\ \A i \in 1..Len(t) : t[i] = s[i + 1] OBVIOUS
<1>3. \A i \in 2..Len(s) : s[i] = t[i - 1] /\ i - 1 \in 1..Len(t) OBVIOUS
<1> HIDE DEF t
<1>4. \A x : In(s, x) <=> In(t, x) \/ x = Head(s) BY <1>1, <1>2, <1>3 DEF In
<1>5. ASSUME NEW x, NEW y, Before(s, x, y)
      PROVE  Before(t, x, y) \/ (x = Head(s) /\ In(t, y))
  <2>1. PICK i \in 1..Len(s), j \in 1..Len(s) : i < j /\ s[i] = x /\ s[j] = y
    BY <1>5 DEF Before
  <2>2. j \in 2..Len(s) /\ j - 1 \in 1..Len(t) /\ t[j - 1] = y BY <1>1, <1>3, <2>1
  <2>3. CASE i = 1 BY <1>2, <2>1, <2>2, <2>3 DEF In
  <2>4. CASE i # 1
    <3>1. i - 1 \in 1..Len(t) /\ t[i - 1] = x /\ i - 1 < j - 1
      BY <1>1, <1>3, <2>1, <2>4
    <3> QED BY <2>2, <3>1 DEF Before
  <2> QED BY <2>3, <2>4
<1>6. ASSUME NEW x, NEW y, Before(t, x, y) \/ (x = Head(s) /\ In(t, y))
      PROVE  Before(s, x, y)
  <2>1. CASE Before(t, x, y)
    <3>1. PICK i \in 1..Len(t), j \in 1..Len(t) : i < j /\ t[i] = x /\ t[j] = y
      BY <2>1 DEF Before
    <3>2. /\ i + 1 \in 1..Len(s) /\ j + 1 \in 1..Len(s) /\ i + 1 < j + 1
          /\ s[i + 1] = x /\ s[j + 1] = y
      BY <1>1, <1>2, <3>1
    <3> QED BY <3>2 DEF Before
  <2>2. CASE x = Head(s) /\ In(t, y)
    <3>1. PICK j \in 1..Len(t) : t[j] = y BY <2>2 DEF In
    <3>2. 1 \in 1..Len(s) /\ j + 1 \in 1..Len(s) /\ 1 < j + 1 /\ s[1] = x /\ s[j + 1] = y
      BY <1>1, <1>2, <2>2, <3>1
    <3> QED BY <3>2 DEF Before
  <2> QED BY <1>6, <2>1, <2>2
<1> QED BY <1>1, <1>4, <1>5, <1>6 DEF t

LEMMA ConcatIn ==
  ASSUME NEW S, NEW s \in Seq(S), NEW u \in Seq(S)
  PROVE  /\ s \o u \in Seq(S)
         /\ \A x : In(s \o u, x) <=> In(s, x) \/ In(u, x)
         /\ \A x, y : Before(s \o u, x, y) <=>
              Before(s, x, y) \/ Before(u, x, y) \/ (In(s, x) /\ In(u, y))
<1> DEFINE t == s \o u
<1>1. t \in Seq(S) /\ Len(t) = Len(s) + Len(u) /\ Len(s) \in Nat /\ Len(u) \in Nat OBVIOUS
<1>2. \A i \in 1..Len(s) : t[i] = s[i] /\ i \in 1..Len(t) OBVIOUS
<1>3. \A i \in 1..Len(u) : t[Len(s) + i] = u[i] /\ Len(s) + i \in 1..Len(t) OBVIOUS
<1>4. \A i \in 1..Len(t) : i \in 1..Len(s) \/ i - Len(s) \in 1..Len(u) BY <1>1
<1>5. \A i \in 1..Len(t) : i - Len(s) \in 1..Len(u) => t[i] = u[i - Len(s)] BY <1>1, <1>3
<1> HIDE DEF t
<1>6. \A x : In(t, x) <=> In(s, x) \/ In(u, x) BY <1>1, <1>2, <1>3, <1>4, <1>5 DEF In
<1>7. ASSUME NEW x, NEW y, Before(t, x, y)
      PROVE  Before(s, x, y) \/ Before(u, x, y) \/ (In(s, x) /\ In(u, y))
  <2>1. PICK i \in 1..Len(t), j \in 1..Len(t) : i < j /\ t[i] = x /\ t[j] = y
    BY <1>7 DEF Before
  <2>2. CASE j \in 1..Len(s)
    <3>1. i \in 1..Len(s) /\ s[i] = x /\ s[j] = y BY <1>1, <1>2, <2>1, <2>2
    <3> QED BY <2>1, <2>2, <3>1 DEF Before
  <2>3. CASE j - Len(s) \in 1..Len(u)
    <3>1. u[j - Len(s)] = y BY <1>5, <2>1, <2>3
    <3>2. CASE i \in 1..Len(s)
      <4>1. s[i] = x BY <1>2, <2>1, <3>2
      <4> QED BY <2>3, <3>1, <3>2, <4>1 DEF In
    <3>3. CASE i - Len(s) \in 1..Len(u)
      <4>1. u[i - Len(s)] = x /\ i - Len(s) < j - Len(s) BY <1>1, <1>5, <2>1, <3>3
      <4> QED BY <2>3, <3>1, <3>3, <4>1 DEF Before
    <3> QED BY <1>4, <2>1, <3>2, <3>3
  <2> QED BY <1>4, <2>1, <2>2, <2>3
<1>8. ASSUME NEW x, NEW y, Before(s, x, y) \/ Before(u, x, y) \/ (In(s, x) /\ In(u, y))
      PROVE  Before(t, x, y)
  <2>1. CASE Before(s, x, y) BY <1>2, <2>1 DEF Before
  <2>2. CASE Before(u, x, y)
    <3>1. PICK i \in 1..Len(u), j \in 1..Len(u) : i < j /\ u[i] = x /\ u[j] = y
      BY <2>2 DEF Before
    <3>2. /\ Len(s) + i \in 1..Len(t) /\ Len(s) + j \in 1..Len(t)
          /\ Len(s) + i < Len(s) + j /\ t[Len(s) + i] = x /\ t[Len(s) + j] = y
      BY <1>1, <1>3, <3>1
    <3> QED BY <3>2 DEF Before
  <2>3. CASE In(s, x) /\ In(u, y)
    <3>1. PICK i \in 1..Len(s) : s[i] = x BY <2>3 DEF In
    <3>2. PICK j \in 1..Len(u) : u[j] = y BY <2>3 DEF In
    <3>3. /\ i \in 1..Len(t) /\ Len(s) + j \in 1..Len(t) /\ i < Len(s) + j
          /\ t[i] = x /\ t[Len(s) + j] = y
      BY <1>1, <1>2, <1>3, <3>1, <3>2
    <3> QED BY <3>3 DEF Before
  <2> QED BY <1>8, <2>1, <2>2, <2>3
<1> QED BY <1>1, <1>6, <1>7, <1>8 DEF t

\* A sequence without its i-th element.
LEMMA WithoutIn ==
  ASSUME NEW S, NEW s \in Seq(S), NEW i \in 1..Len(s)
  PROVE  /\ Without(s, i) \in Seq(S) /\ Len(Without(s, i)) = Len(s) - 1
         /\ \A j \in 1..Len(s) - 1 :
              Without(s, i)[j] = IF j < i THEN s[j] ELSE s[j + 1]
<1> DEFINE u == SubSeq(s, 1, i - 1)
           v == SubSeq(s, i + 1, Len(s))
<1>1. u \in Seq(S) /\ Len(u) = i - 1 /\ \A j \in 1..i - 1 : u[j] = s[j] OBVIOUS
<1>2. v \in Seq(S) /\ Len(v) = Len(s) - i /\ \A j \in 1..Len(s) - i : v[j] = s[i + j]
  OBVIOUS
<1>3. Without(s, i) = u \o v BY DEF Without
<1>4. /\ u \o v \in Seq(S) /\ Len(u \o v) = Len(u) + Len(v)
      /\ \A j \in 1..Len(u) + Len(v) :
           (u \o v)[j] = IF j <= Len(u) THEN u[j] ELSE v[j - Len(u)]
  <2>1. u \in Seq(S) /\ v \in Seq(S) BY <1>1, <1>2
  <2> HIDE DEF u, v
  <2> QED BY <2>1
<1> HIDE DEF u, v
<1>5. Len(s) \in Nat /\ i \in Nat /\ Len(u) + Len(v) = Len(s) - 1 BY <1>1, <1>2
<1>6. ASSUME NEW j \in 1..Len(s) - 1
      PROVE  (u \o v)[j] = IF j < i THEN s[j] ELSE s[j + 1]
  <2>1. CASE j < i BY <1>1, <1>4, <1>5, <2>1
  <2>2. CASE ~(j < i)
    <3>1. j - Len(u) \in 1..Len(s) - i /\ i + (j - Len(u)) = j + 1 BY <1>1, <1>5, <2>2
    <3>2. v[j - Len(u)] = s[j + 1] BY <1>2, <3>1
    <3> QED BY <1>1, <1>4, <1>5, <2>2, <3>2
  <2> QED BY <2>1, <2>2
<1> QED BY <1>3, <1>4, <1>5, <1>6
-----------------------------------------------------------------------------
(* Transitions that a handler adds to the queue *)

\* The hides of the bootbox elements of a set, in any order of the document.
LEMMA LoweringsIn ==
  ASSUME TypeOK, Elements, NEW D \in SUBSET {b \in Box : InBoxes(b)},
         NEW low \in Lowerings(D)
  PROVE  /\ low \in Seq(Dialog \X Phase)
         /\ \A d, p : In(low, <<d, p>>) <=> d \in D /\ p = "hide"
         /\ \A d, p, q : ~Before(low, <<d, p>>, <<d, q>>)
<1> DEFINE T == {b \in Box : InBoxes(b)}
           f == [i \in 1..Len(boxes) |-> boxes[i]]
<1>1. Len(boxes) \in Nat /\ IsFiniteSet(1..Len(boxes)) BY FS_Interval DEF TypeOK
<1>2. f \in Surjection(1..Len(boxes), T) BY DEF Surjection, InBoxes, TypeOK
<1>3. IsFiniteSet(T) BY <1>1, <1>2, FS_Surjection
<1>4. IsFiniteSet(D) BY <1>3, FS_Subset
<1>5. Cardinality(D) \in Nat BY <1>4, FS_CardinalityType
<1>6. /\ low \in [1..Cardinality(D) -> D \X {"hide"}]
      /\ \A d \in D : \E i \in DOMAIN low : low[i] = <<d, "hide">>
      /\ \A i, j \in DOMAIN low : i < j =>
           \E k, l \in 1..Len(boxes) :
             k < l /\ boxes[k] = low[i][1] /\ boxes[l] = low[j][1]
  BY DEF Lowerings
<1>7. D \X {"hide"} \subseteq Dialog \X Phase BY DEF Dialog, Phase
<1>8. low \in [1..Cardinality(D) -> Dialog \X Phase] BY <1>6, <1>7
<1>9. low \in Seq(Dialog \X Phase) /\ Len(low) = Cardinality(D) BY <1>5, <1>8
<1>10. DOMAIN low = 1..Len(low) BY <1>6, <1>9
<1>11. ASSUME NEW d, NEW p PROVE In(low, <<d, p>>) <=> d \in D /\ p = "hide"
  <2>1. ASSUME In(low, <<d, p>>) PROVE d \in D /\ p = "hide"
    <3>1. PICK i \in DOMAIN low : low[i] = <<d, p>> BY <1>10, <2>1 DEF In
    <3>2. low[i] \in D \X {"hide"} BY <1>6, <3>1
    <3> QED BY <3>1, <3>2
  <2>2. ASSUME d \in D, p = "hide" PROVE In(low, <<d, p>>) BY <1>6, <1>10, <2>2 DEF In
  <2> QED BY <2>1, <2>2
<1>12. ASSUME NEW d, NEW p, NEW q, Before(low, <<d, p>>, <<d, q>>) PROVE FALSE
  <2>1. PICK i \in DOMAIN low, j \in DOMAIN low :
          i < j /\ low[i] = <<d, p>> /\ low[j] = <<d, q>>
    BY <1>10, <1>12 DEF Before
  <2>2. PICK k \in 1..Len(boxes), l \in 1..Len(boxes) :
          k < l /\ boxes[k] = low[i][1] /\ boxes[l] = low[j][1]
    BY <1>6, <2>1
  <2>3. boxes[k] = d /\ boxes[l] = d BY <2>1, <2>2
  <2>4. k = l BY <2>3 DEF Elements
  <2> QED BY <1>1, <2>2, <2>4
<1> QED BY <1>9, <1>11, <1>12

\* A handler adds u: the dialogs of D will be hidden, those of N come up.
Brings(u, D, N) ==
  /\ u \in Seq(Dialog \X Phase)
  /\ \A d, p : In(u, <<d, p>>) <=> (d \in D /\ p = "hide") \/ (d \in N /\ p = "backdrop")
  /\ \A d, p, q : ~Before(u, <<d, p>>, <<d, q>>)

LEMMA OneIn ==
  ASSUME NEW S, NEW e \in S
  PROVE  /\ <<e>> \in Seq(S)
         /\ \A x : In(<<e>>, x) <=> x = e
         /\ \A x, y : ~Before(<<e>>, x, y)
<1>1. <<e>> \in Seq(S) /\ Len(<<e>>) = 1 /\ <<e>>[1] = e OBVIOUS
<1>2. \A x : In(<<e>>, x) <=> x = e BY <1>1 DEF In
<1>3. \A x, y : ~Before(<<e>>, x, y) BY <1>1 DEF Before
<1> QED BY <1>1, <1>2, <1>3

LEMMA BringsOne ==
  ASSUME NEW d \in Dialog
  PROVE  Brings(<<<<d, "backdrop">>>>, {}, {d}) /\ Brings(<<<<d, "hide">>>>, {d}, {})
<1>1. <<d, "backdrop">> \in Dialog \X Phase /\ <<d, "hide">> \in Dialog \X Phase BY DEF Phase
<1>2. Brings(<<<<d, "backdrop">>>>, {}, {d}) BY <1>1, OneIn DEF Brings
<1>3. Brings(<<<<d, "hide">>>>, {d}, {}) BY <1>1, OneIn DEF Brings
<1> QED BY <1>2, <1>3

LEMMA BringsBoth ==
  ASSUME NEW D, NEW N, NEW E, NEW M, NEW u, NEW v,
         Brings(u, D, N), Brings(v, E, M), (D \cup N) \cap (E \cup M) = {}
  PROVE  Brings(u \o v, D \cup E, N \cup M)
<1>1. u \in Seq(Dialog \X Phase) /\ v \in Seq(Dialog \X Phase) BY DEF Brings
<1>2. u \o v \in Seq(Dialog \X Phase) BY <1>1, ConcatIn
<1>3. ASSUME NEW d, NEW p
      PROVE  In(u \o v, <<d, p>>) <=>
               (d \in D \cup E /\ p = "hide") \/ (d \in N \cup M /\ p = "backdrop")
  <2>1. In(u \o v, <<d, p>>) <=> In(u, <<d, p>>) \/ In(v, <<d, p>>) BY <1>1, ConcatIn
  <2> QED BY <2>1 DEF Brings
<1>4. ASSUME NEW d, NEW p, NEW q, Before(u \o v, <<d, p>>, <<d, q>>) PROVE FALSE
  <2>1. \/ Before(u, <<d, p>>, <<d, q>>) \/ Before(v, <<d, p>>, <<d, q>>)
        \/ In(u, <<d, p>>) /\ In(v, <<d, q>>)
    BY <1>1, <1>4, ConcatIn
  <2>2. In(u, <<d, p>>) /\ In(v, <<d, q>>) BY <2>1 DEF Brings
  <2>3. d \in D \cup N /\ d \in E \cup M BY <2>2 DEF Brings
  <2> QED BY <2>3
<1> QED BY <1>2, <1>3, <1>4 DEF Brings
-----------------------------------------------------------------------------
(* A handler that hides the dialogs of D and shows those of N *)

Changes(D, N) ==
  /\ D \subseteq shown /\ N \subseteq Dialog \ backdrop
  /\ shown' = (shown \ D) \cup N /\ moving' = moving \cup D \cup N
  /\ backdrop' = backdrop \cup N /\ up' = up
  /\ \E u : Brings(u, D, N) /\ timers' = timers \o u

\* What it does to the queue.
LEMMA ChangesQueue ==
  ASSUME TypeOK, NEW D, NEW N, Changes(D, N)
  PROVE  /\ timers' \in Seq(Dialog \X Phase)
         /\ \A d, p : In(timers', <<d, p>>) <=>
              Due(d, p) \/ (d \in D /\ p = "hide") \/ (d \in N /\ p = "backdrop")
         /\ \A x, y : Before(timers, x, y) => Before(timers', x, y)
         /\ \A d, p, n : Due(d, p) /\ n \in N => Before(timers', <<d, p>>, <<n, "backdrop">>)
         /\ \A d, p, q : Before(timers', <<d, p>>, <<d, q>>) =>
              \/ Before(timers, <<d, p>>, <<d, q>>)
              \/ Due(d, p) /\ d \in D /\ q = "hide"
              \/ Due(d, p) /\ d \in N /\ q = "backdrop"
<1>1. PICK u : Brings(u, D, N) /\ timers' = timers \o u BY DEF Changes
<1>2. timers \in Seq(Dialog \X Phase) /\ u \in Seq(Dialog \X Phase) BY <1>1 DEF TypeOK, Brings
<1>3. timers' \in Seq(Dialog \X Phase) BY <1>1, <1>2, ConcatIn
<1>4. \A x : In(timers', x) <=> In(timers, x) \/ In(u, x) BY <1>1, <1>2, ConcatIn
<1>5. \A x, y : Before(timers', x, y) <=>
         Before(timers, x, y) \/ Before(u, x, y) \/ (In(timers, x) /\ In(u, y))
  BY <1>1, <1>2, ConcatIn
<1>6. \A d, p : In(u, <<d, p>>) <=> (d \in D /\ p = "hide") \/ (d \in N /\ p = "backdrop")
  BY <1>1 DEF Brings
<1>7. \A d, p, q : ~Before(u, <<d, p>>, <<d, q>>) BY <1>1 DEF Brings
<1>8. \A d, p : In(timers', <<d, p>>) <=>
         Due(d, p) \/ (d \in D /\ p = "hide") \/ (d \in N /\ p = "backdrop")
  BY <1>4, <1>6 DEF Due
<1>9. \A d, p, n : Due(d, p) /\ n \in N => Before(timers', <<d, p>>, <<n, "backdrop">>)
  BY <1>5, <1>6 DEF Due
<1>10. \A d, p, q : Before(timers', <<d, p>>, <<d, q>>) =>
         \/ Before(timers, <<d, p>>, <<d, q>>)
         \/ Due(d, p) /\ d \in D /\ q = "hide"
         \/ Due(d, p) /\ d \in N /\ q = "backdrop"
  BY <1>5, <1>6, <1>7 DEF Due
<1> QED BY <1>3, <1>5, <1>8, <1>9, <1>10

\* Order in the queue and the state of the screen survive it.
LEMMA ChangesScreen ==
  ASSUME TypeOK, Ordered, Screen, NEW D, NEW N, Changes(D, N)
  PROVE  Ordered' /\ Screen'
<1>1. \A d, p : Due(d, p)' <=>
         Due(d, p) \/ (d \in D /\ p = "hide") \/ (d \in N /\ p = "backdrop")
  BY ChangesQueue DEF Due
<1>2. \A d \in N : d \notin backdrop /\ d \in Dialog BY DEF Changes
<1>3. \A d \in D : d \in shown /\ d \in Dialog BY DEF Changes, TypeOK
<1>4. Ordered'
  <2> SUFFICES ASSUME NEW d \in Dialog, NEW p \in Phase, NEW q \in Phase,
                      Before(timers', <<d, p>>, <<d, q>>)
               PROVE  <<p, q>> \in Follows
    BY DEF Ordered
  <2>1. CASE Before(timers, <<d, p>>, <<d, q>>) BY <2>1 DEF Ordered
  <2>2. CASE Due(d, p) /\ d \in D /\ q = "hide"
    <3>1. p # "hide" /\ p # "hidden" BY <1>3, <2>2 DEF Screen
    <3> QED BY <2>2, <3>1 DEF Phase, Follows
  <2>3. CASE Due(d, p) /\ d \in N /\ q = "backdrop" BY <1>2, <2>3 DEF Screen
  <2> QED BY <2>1, <2>2, <2>3, ChangesQueue
<1>5. Screen'
  <2> SUFFICES ASSUME NEW d \in Dialog
               PROVE  /\ d \in shown' => d \in backdrop' /\ (d \in up' \/ Due(d, "backdrop")')
                      /\ d \in up' => d \in shown' \/ Due(d, "hide")'
                      /\ d \in moving' =>
                           Due(d, "backdrop")' \/ Due(d, "shown")' \/ Due(d, "hide")'
                      /\ d \in backdrop' => d \in shown' \/ Due(d, "hide")' \/ Due(d, "hidden")'
                      /\ \A p \in Phase : Due(d, p)' => d \in backdrop'
                      /\ Due(d, "hide")' \/ Due(d, "hidden")' => d \notin shown'
                      /\ Due(d, "backdrop")' /\ d \notin shown' => Due(d, "hide")'
    BY DEF Screen
  <2>1. /\ shown' = (shown \ D) \cup N /\ moving' = moving \cup D \cup N
        /\ backdrop' = backdrop \cup N /\ up' = up
    BY DEF Changes
  <2>2. CASE d \in D
    <3>1. d \in backdrop /\ d \in shown /\ d \notin N BY <1>2, <1>3, <2>2 DEF Screen
    <3> QED BY <1>1, <2>1, <2>2, <3>1 DEF Screen
  <2>3. CASE d \in N
    <3>1. /\ d \notin D /\ d \notin up
          /\ \A p \in Phase : ~Due(d, p)
      BY <1>2, <1>3, <2>3 DEF Screen, Phase
    <3> QED BY <1>1, <2>1, <2>3, <3>1 DEF Phase
  <2>4. CASE d \notin D \cup N BY <1>1, <2>1, <2>4 DEF Screen
  <2> QED BY <2>2, <2>3, <2>4
<1> QED BY <1>4, <1>5

\* So does what is known of the keyboard: focus is left or lost, unless no wait
\* dialog has settled; a confirm dialog comes up on an empty screen only.
LEMMA ChangesKeyboard ==
  ASSUME TypeOK, Screen, Keyboard, NEW D, NEW N, Changes(D, N),
         (\E r \in Request : r \in shown /\ \A p \in Phase : ~Due(r, p))
           => focus' \in {focus, None},
         N \subseteq Request \/ backdrop = {}, \E n : N \subseteq {n}
  PROVE  Keyboard'
<1> SUFFICES ASSUME NEW r \in Request, r \in shown'
             PROVE  /\ (\A p \in Phase : ~Due(r, p)') => focus' = None
                    /\ \A c \in Confirm :
                         /\ Due(c, "shown")' /\ c \in up' =>
                              \/ Due(r, "backdrop")'
                              \/ Before(timers', <<c, "shown">>, <<r, "shown">>)
                         /\ Due(c, "backdrop")' =>
                              Before(timers', <<c, "backdrop">>, <<r, "backdrop">>)
  BY DEF Keyboard
<1>1. \A d, p : Due(d, p)' <=>
         Due(d, p) \/ (d \in D /\ p = "hide") \/ (d \in N /\ p = "backdrop")
  BY ChangesQueue DEF Due
<1>2. up' = up /\ shown' = (shown \ D) \cup N BY DEF Changes
<1>3. r \in Dialog /\ \A c \in Confirm : c \in Dialog BY DEF Dialog, Box
<1>4. CASE r \in N
  <2>1. ASSUME NEW c \in Confirm PROVE Due(c, "backdrop")' => Due(c, "backdrop")
    BY <1>1, <1>4, DialogsDiffer
  <2> QED BY <1>1, <1>4, <2>1, ChangesQueue DEF Phase
<1>5. CASE r \notin N
  <2>1. r \in shown /\ r \in backdrop BY <1>2, <1>3, <1>5 DEF Screen
  <2>2. N \subseteq Request BY <2>1
  <2>3. \A c \in Confirm : \A p \in {"shown", "backdrop"} : Due(c, p)' => Due(c, p)
    BY <1>1, <2>2, DialogsDiffer
  <2>4. (\A p \in Phase : ~Due(r, p)') => focus' = None BY <1>1, <2>1 DEF Keyboard
  <2> QED BY <1>1, <1>2, <2>1, <2>3, <2>4, ChangesQueue DEF Keyboard
<1> QED BY <1>4, <1>5

\* At most one dialog comes up; a bootbox element is appended to the document.
Grows(N) ==
  /\ \/ boxes' = boxes /\ (N = {} \/ N = {Modal})
     \/ \E b \in Box :
          N = {b} /\ boxes' = Append(boxes, b) /\ (b \in Confirm => backdrop = {})
  /\ N \subseteq Request \/ backdrop = {}
  /\ bodyOpen' => bodyOpen \/ N # {}
  /\ frame' = frame
  /\ \A r \in Request : req[r] # "unsent" \/ r \in N => req'[r] # "unsent"
Handler == \E D, N : Changes(D, N) /\ Grows(N)

LEMMA HandlerScreen ==
  ASSUME IInv, Handler, focus' \in Page \cup Confirm \cup {None},
         (\E r \in Request : r \in shown /\ \A p \in Phase : ~Due(r, p))
           => focus' \in {focus, None}
  PROVE  Ordered' /\ Screen' /\ Elements' /\ Frame' /\ Keyboard'
<1>1. PICK D, N : Changes(D, N) /\ Grows(N) BY DEF Handler
<1>2. /\ TypeOK /\ Ordered /\ Screen /\ Elements /\ Frame /\ Keyboard BY DEF IInv
<1>3. Ordered' /\ Screen' BY <1>1, <1>2, ChangesScreen
<1>4. Keyboard'
  <2>1. \E n : N \subseteq {n} BY <1>1 DEF Grows
  <2>2. N \subseteq Request \/ backdrop = {} BY <1>1 DEF Grows
  <2> QED BY <1>1, <1>2, <2>1, <2>2, ChangesKeyboard
<1>5. Frame'
  <2>1. \A d, p : Due(d, p)' <=>
          Due(d, p) \/ (d \in D /\ p = "hide") \/ (d \in N /\ p = "backdrop")
    BY <1>1, <1>2, ChangesQueue DEF Due
  <2> QED BY <1>1, <1>2, <2>1 DEF Frame, Changes, Grows
<1>6. Elements'
  <2>1. backdrop' = backdrop \cup N /\ N \cap backdrop = {} BY <1>1 DEF Changes
  <2>2. \A r \in Request : r \in backdrop' => req'[r] # "unsent"
    BY <1>1, <1>2, <2>1 DEF Grows, Elements
  <2>3. bodyOpen' => backdrop' # {} BY <1>1, <1>2, <2>1 DEF Grows, Elements
  <2>4. CASE boxes' = boxes /\ (N = {} \/ N = {Modal})
    <3>1. \A b \in Box : b \in backdrop' <=> b \in backdrop
      BY <2>1, <2>4, DialogsDiffer DEF Box
    <3> QED BY <1>2, <2>2, <2>3, <2>4, <3>1 DEF Elements, InBoxes
  <2>5. ASSUME NEW b \in Box, N = {b}, boxes' = Append(boxes, b), b \in Confirm => backdrop = {}
        PROVE  Elements'
    <3>1. /\ boxes \in Seq(Box) /\ Len(boxes) \in Nat /\ Len(boxes') = Len(boxes) + 1
          /\ boxes'[Len(boxes) + 1] = b
          /\ \A i \in 1..Len(boxes) : boxes'[i] = boxes[i]
      BY <1>2, <2>5 DEF TypeOK
    <3>2. ~InBoxes(b) BY <1>2, <2>1, <2>5 DEF Elements
    <3>3. \A e \in Box : InBoxes(e)' <=> InBoxes(e) \/ e = b
      BY <3>1 DEF InBoxes
    <3>4. \A i, j \in 1..Len(boxes') : boxes'[i] = boxes'[j] => i = j
      BY <1>2, <3>1, <3>2 DEF InBoxes, Elements
    <3>5. b \in Confirm => Len(boxes) = 0
      <4> SUFFICES ASSUME b \in Confirm, Len(boxes) # 0 PROVE FALSE OBVIOUS
      <4>1. 1 \in 1..Len(boxes) /\ boxes[1] \in Box BY <3>1
      <4>2. InBoxes(boxes[1]) BY <4>1 DEF InBoxes
      <4> QED BY <1>2, <2>5, <4>1, <4>2 DEF Elements
    <3>6. \A i \in 1..Len(boxes') : boxes'[i] \in Confirm => i = 1
      BY <1>2, <3>1, <3>5 DEF Elements
    <3>7. \A e \in Box : InBoxes(e)' <=> e \in backdrop'
      BY <1>2, <2>1, <2>5, <3>3 DEF Elements
    <3> QED BY <2>2, <2>3, <3>4, <3>6, <3>7 DEF Elements
  <2> QED BY <1>1, <2>4, <2>5 DEF Grows
<1> QED BY <1>3, <1>4, <1>5, <1>6
-----------------------------------------------------------------------------
(* The handlers of the page *)

\* A wait dialog that has settled is displayed: nothing else can be reached, and
\* no button has the keyboard.
LEMMA NothingReached ==
  ASSUME IInv, NEW r \in Request, r \in shown, \A p \in Phase : ~Due(r, p)
  PROVE  /\ focus = None
         /\ \A p \in Page : ~PageReached(p)
         /\ \A c \in Confirm : ~BoxReached(c)
<1>1. /\ TypeOK /\ Screen /\ Elements /\ Keyboard BY DEF IInv
<1>2. r \in Dialog /\ r \in Box /\ r # Modal BY DialogsDiffer DEF Dialog, Box
<1>3. r \in backdrop /\ r \in up BY <1>1, <1>2 DEF Screen, Phase
<1>4. focus = None BY <1>1 DEF Keyboard
<1>5. ASSUME NEW p \in Page PROVE ~PageReached(p)
  BY <1>2, <1>3 DEF PageReached, TabReached, ModalReached
<1>6. ASSUME NEW c \in Confirm, BoxReached(c) PROVE FALSE
  <2>1. c \in up /\ c \in Box /\ c \in Dialog /\ c # r
    BY <1>6, DialogsDiffer DEF BoxReached, Box, Dialog
  <2>2. c \in backdrop BY <1>1, <2>1 DEF Screen, Phase
  <2>3. PICK i \in 1..Len(boxes), j \in 1..Len(boxes) : boxes[i] = c /\ boxes[j] = r
    BY <1>1, <1>2, <1>3, <2>1, <2>2 DEF Elements, InBoxes
  <2>4. i = 1 /\ i # j /\ Len(boxes) \in Nat BY <1>1, <2>1, <2>3 DEF Elements, TypeOK
  <2>5. i < j BY <2>4
  <2> QED BY <1>3, <1>6, <2>3, <2>5 DEF BoxReached
<1> QED BY <1>4, <1>5, <1>6

-----------------------------------------------------------------------------
(* Requests and the pages that await them *)

\* No request is sent or lost, and no page begins to go.
LEMMA SameHaste ==
  ASSUME Senders, Haste, UNCHANGED <<req, from, hasty>>, shown' \cap Request \subseteq shown,
         leaving' \subseteq leaving, Modal \in shown => Modal \in shown'
  PROVE  Senders' /\ Haste'
BY DEF Senders, Haste, StuckOnlyIfHasty, Going

\* No wait dialog is shown.
LEMMA NoHaste ==
  ASSUME shown' \cap Request = {}
  PROVE  Haste'
BY DEF Haste, StuckOnlyIfHasty

\* A page sends a request.
LEMMA SendHaste ==
  ASSUME IInv, NEW p \in Page, NEW r \in Request, Fresh(r),
         req' = [req EXCEPT ![r] = "sent"], from' = [from EXCEPT ![r] = p],
         hasty' = SentBy(p, r), shown' \cap Request \subseteq shown \cup {r},
         leaving' = leaving, Modal \in shown => Modal \in shown'
  PROVE  /\ req' \in [Request -> {"unsent", "sent", "answered", "lost"}]
         /\ from' \in [Request -> Page \cup {None}] /\ hasty' \subseteq Request
         /\ Senders' /\ Haste'
<1>1. TypeOK /\ Senders /\ Haste BY DEF IInv
<1>2. /\ req' \in [Request -> {"unsent", "sent", "answered", "lost"}]
      /\ from' \in [Request -> Page \cup {None}]
  BY <1>1 DEF TypeOK
<1>3. hasty \subseteq hasty' /\ hasty' \subseteq Request /\ (Going(p) => r \in hasty')
  BY <1>1 DEF SentBy, TypeOK
<1>4. req'[r] = "sent" /\ from'[r] = p BY <1>1 DEF TypeOK
<1>5. \A q \in Request : q # r => req'[q] = req[q] /\ from'[q] = from[q]
  BY <1>1 DEF TypeOK
<1>6. \A x : Going(x)' => Going(x) BY DEF Going
<1>7. Senders' BY <1>1, <1>4, <1>5 DEF Senders
<1>8. ASSUME NEW q \in Request, req'[q] = "sent", q \in shown', Going(from[q])'
      PROVE  q \in hasty'
  <2>1. CASE q = r BY <1>3, <1>4, <1>6, <1>8, <2>1 DEF Going
  <2>2. CASE q # r
    <3>1. req[q] = "sent" /\ q \in shown /\ Going(from[q])
      BY <1>5, <1>8, <2>2 DEF Going
    <3> QED BY <1>1, <1>3, <3>1 DEF Haste
  <2> QED BY <2>1, <2>2
<1>9. StuckOnlyIfHasty' BY <1>1, <1>3, <1>4, <1>5 DEF Haste, StuckOnlyIfHasty
<1>10. Haste' BY <1>8, <1>9 DEF Haste
<1> QED BY <1>2, <1>3, <1>7, <1>10

\* A page goes, which was on its way out, or on an empty screen.
LEMMA GoneHaste ==
  ASSUME IInv, NEW p \in Page, Going(p) \/ shown = {}, shown' = shown,
         req' = Unloaded({p}), from' = Unawaited({p}), asker' = Unasked({p}),
         hasty' = hasty, leaving' \subseteq leaving
  PROVE  /\ req' \in [Request -> {"unsent", "sent", "answered", "lost"}]
         /\ from' \in [Request -> Page \cup {None}]
         /\ asker' \in [Confirm -> Page \cup {None}]
         /\ \A r \in Request : req[r] # "unsent" => req'[r] # "unsent"
         /\ Senders' /\ Haste'
<1>1. TypeOK /\ Senders /\ Haste BY DEF IInv
<1>2. /\ req' \in [Request -> {"unsent", "sent", "answered", "lost"}]
      /\ from' \in [Request -> Page \cup {None}]
      /\ asker' \in [Confirm -> Page \cup {None}]
  BY <1>1 DEF TypeOK, Unloaded, Unawaited, Unasked
<1>3. \A r \in Request :
        /\ req'[r] = (IF req[r] = "sent" /\ from[r] = p THEN "lost" ELSE req[r])
        /\ from'[r] = (IF from[r] = p THEN None ELSE from[r])
  BY DEF Unloaded, Unawaited
<1>4. \A r \in Request : req'[r] = "sent" => req[r] = "sent" /\ from'[r] = from[r]
  BY <1>3
<1>5. Senders' BY <1>1, <1>4 DEF Senders
<1>6. \A x : Going(x)' => Going(x) BY DEF Going
<1>7. ASSUME NEW r \in Request, req'[r] = "sent", r \in shown', Going(from[r])'
      PROVE  r \in hasty'
  <2>1. req[r] = "sent" /\ Going(from[r]) BY <1>4, <1>7 DEF Going
  <2> QED BY <1>1, <1>7, <2>1 DEF Haste
<1>8. ASSUME NEW r \in Request, req'[r] = "lost", r \in shown'
      PROVE  r \in hasty'
  <2>1. CASE req[r] = "lost" BY <1>1, <1>8, <2>1 DEF Haste, StuckOnlyIfHasty
  <2>2. CASE req[r] = "sent" /\ from[r] = p BY <1>1, <1>8, <2>2 DEF Haste
  <2> QED BY <1>3, <1>8, <2>1, <2>2
<1>9. Haste' BY <1>7, <1>8 DEF Haste, StuckOnlyIfHasty
<1> QED BY <1>2, <1>3, <1>5, <1>9

\* The user sends a page away: no wait dialog has settled, so those of its requests
\* are all still coming up.
LEMMA LeaveHaste ==
  ASSUME IInv, NEW p \in Page, \A r \in Request : ~Settled(r),
         UNCHANGED <<req, from>>, hasty' = hasty \cup Rising(p), shown' \subseteq shown,
         \A x : Going(x)' => Going(x) \/ x = p
  PROVE  hasty' \subseteq Request /\ Senders' /\ Haste'
<1>1. TypeOK /\ Senders /\ Haste BY DEF IInv
<1>2. hasty' \subseteq Request BY <1>1 DEF TypeOK, Rising
<1>4. ASSUME NEW r \in Request, req[r] = "sent", r \in shown', Going(from[r])'
      PROVE  r \in hasty'
  <2>1. Going(from[r]) \/ from[r] = p BY <1>4 DEF Going
  <2>2. CASE Going(from[r]) BY <1>1, <1>4, <2>2 DEF Haste
  <2>3. CASE from[r] = p BY <1>4, <2>3 DEF Rising
  <2> QED BY <2>1, <2>2, <2>3
<1>5. StuckOnlyIfHasty' BY <1>1 DEF Haste, StuckOnlyIfHasty
<1> QED BY <1>1, <1>2, <1>4, <1>5 DEF Senders, Haste
-----------------------------------------------------------------------------
(* The handlers, one by one *)

LEMMA AppendIsConcat ==
  ASSUME NEW S, NEW s \in Seq(S), NEW e
  PROVE  Append(s, e) = s \o <<e>>
OBVIOUS

LEMMA HandlerStep ==
  ASSUME IInv, Handler, UNCHANGED <<tabs, active>>, bodyOpen' \in BOOLEAN,
         leaving' \subseteq Page, loading' \subseteq Querying, hasty' \subseteq Request,
         req' \in [Request -> {"unsent", "sent", "answered", "lost"}],
         from' \in [Request -> Page \cup {None}],
         asker' \in [Confirm -> Page \cup {None}],
         focus' \in Page \cup Confirm \cup {None},
         (\E r \in Request : r \in shown /\ \A p \in Phase : ~Due(r, p))
           => focus' \in {focus, None},
         Senders', Haste'
  PROVE  IInv'
<1>1. PICK D, N : Changes(D, N) /\ Grows(N) BY DEF Handler
<1>2. TypeOK BY DEF IInv
<1>3. timers' \in Seq(Dialog \X Phase) BY <1>1, <1>2, ChangesQueue
<1>4. /\ shown' \subseteq Dialog /\ moving' \subseteq Dialog
      /\ up' \subseteq Dialog /\ backdrop' \subseteq Dialog
  BY <1>1, <1>2 DEF Changes, TypeOK
<1>5. boxes' \in Seq(Box) /\ frame' \in {"blank", "page"}
  <2>1. frame' = frame /\ boxes \in Seq(Box) BY <1>1, <1>2 DEF Grows, TypeOK
  <2>2. boxes' = boxes \/ \E b \in Box : boxes' = Append(boxes, b) BY <1>1 DEF Grows
  <2>3. \A b \in Box : Append(boxes, b) \in Seq(Box) BY <2>1
  <2> QED BY <1>2, <2>1, <2>2, <2>3 DEF TypeOK
<1>6. tabs' \in Seq(Program) /\ active' \in Program \cup {None} BY <1>2 DEF TypeOK
<1>7. TypeOK' BY <1>3, <1>4, <1>5, <1>6 DEF TypeOK
<1>8. ActiveIsOpen' BY DEF IInv, ActiveIsOpen, InTabs
<1> QED BY <1>7, <1>8, HandlerScreen DEF IInv

LEMMA PressStep ==
  ASSUME IInv, NEW p \in Page, NEW r \in Request, Press(p, r)
  PROVE  IInv'
<1>1. TypeOK /\ Screen /\ Elements BY DEF IInv
<1>2. r \in Box /\ r \in Dialog /\ r \notin Confirm BY DialogsDiffer DEF Box, Dialog
<1>3. r \notin backdrop BY <1>1 DEF Press, Fresh, Elements
<1>4. timers' = timers \o <<<<r, "backdrop">>>>
  BY <1>1, AppendIsConcat DEF Press, TypeOK
<1>5. Changes({}, {r})
  BY <1>2, <1>3, <1>4, BringsOne DEF Changes, Press
<1>6. Grows({r})
  <2>1. \A q \in Request : req[q] # "unsent" \/ q \in {r} => req'[q] # "unsent"
    BY <1>1 DEF Press, TypeOK
  <2> QED BY <1>2, <2>1 DEF Grows, Press, pages
<1>7. Handler BY <1>5, <1>6 DEF Handler
<1>8. ~\E q \in Request : q \in shown /\ \A f \in Phase : ~Due(q, f)
  BY NothingReached, DialogsDiffer DEF Press, Page
<1>9. /\ asker' \in [Confirm -> Page \cup {None}]
      /\ focus' \in Page \cup Confirm \cup {None} /\ bodyOpen' \in BOOLEAN
      /\ leaving' \subseteq Page /\ loading' \subseteq Querying
  BY <1>1 DEF Press, TypeOK, pages
<1>10. /\ req' \in [Request -> {"unsent", "sent", "answered", "lost"}]
       /\ from' \in [Request -> Page \cup {None}] /\ hasty' \subseteq Request
       /\ Senders' /\ Haste'
  BY SendHaste DEF Press, pages
<1>11. UNCHANGED <<tabs, active>> BY DEF Press, pages
<1> QED BY <1>7, <1>8, <1>9, <1>10, <1>11, HandlerStep

LEMMA AskStep ==
  ASSUME IInv, NEW t \in Program, NEW c \in Confirm, Ask(t, c)
  PROVE  IInv'
<1>1. TypeOK /\ Screen /\ Elements BY DEF IInv
<1>2. c \in Box /\ c \in Dialog /\ c \notin Request /\ t # Modal /\ t \in Page
  BY DialogsDiffer DEF Box, Dialog, Page
<1>3. backdrop = {} BY <1>2 DEF Ask, PageReached, TabReached
<1>4. timers' = timers \o <<<<c, "backdrop">>>> BY <1>1, AppendIsConcat DEF Ask, TypeOK
<1>5. Changes({}, {c}) BY <1>2, <1>3, <1>4, BringsOne DEF Changes, Ask
<1>6. Grows({c}) BY <1>2, <1>3 DEF Grows, Ask, pages
<1>7. Handler BY <1>5, <1>6 DEF Handler
<1>8. /\ req' \in [Request -> {"unsent", "sent", "answered", "lost"}]
      /\ from' \in [Request -> Page \cup {None}]
      /\ asker' \in [Confirm -> Page \cup {None}]
      /\ focus' \in {focus, None} /\ focus' \in Page \cup Confirm \cup {None}
      /\ bodyOpen' \in BOOLEAN /\ hasty' \subseteq Request
      /\ leaving' \subseteq Page /\ loading' \subseteq Querying
  BY <1>1, <1>2 DEF Ask, TypeOK, pages
<1>9. Senders' /\ Haste' BY <1>2, SameHaste DEF IInv, Ask, pages
<1>10. UNCHANGED <<tabs, active>> BY DEF Ask, pages
<1> QED BY <1>7, <1>8, <1>9, <1>10, HandlerStep

LEMMA AgreeStep ==
  ASSUME IInv, NEW c \in Confirm, NEW r \in Request, Agree(c, r)
  PROVE  IInv'
<1>1. TypeOK /\ Screen /\ Elements BY DEF IInv
<1>2. /\ r \in Box /\ r \in Dialog /\ r \notin Confirm
      /\ c \in Box /\ c \in Dialog /\ c \notin Request /\ c # r
  BY DialogsDiffer DEF Box, Dialog
<1>3. r \notin backdrop BY <1>1 DEF Agree, Fresh, Elements
<1> DEFINE D == Hideable({c})
           u == <<<<r, "backdrop">>>> \o (IF c \in shown THEN <<<<c, "hide">>>> ELSE <<>>)
<1>4. Brings(u, D, {r}) /\ timers' = timers \o u
  <2>1. CASE c \in shown
    <3>1. D = {c} /\ u = <<<<r, "backdrop">>>> \o <<<<c, "hide">>>> BY <2>1 DEF Hideable
    <3>2. Brings(u, {} \cup {c}, {r} \cup {})
      BY <1>2, <3>1, BringsOne, BringsBoth
    <3>3. timers' = (timers \o <<<<r, "backdrop">>>>) \o <<<<c, "hide">>>>
      BY <2>1 DEF Agree
    <3>4. timers' = timers \o u BY <1>1, <1>2, <3>1, <3>3 DEF TypeOK, Phase
    <3> QED BY <3>1, <3>2, <3>4
  <2>2. CASE c \notin shown
    <3>1. D = {} /\ u = <<<<r, "backdrop">>>> \o <<>> BY <2>2 DEF Hideable
    <3>2. u = <<<<r, "backdrop">>>> BY <3>1
    <3>3. timers' = (timers \o <<<<r, "backdrop">>>>) \o <<>> BY <2>2 DEF Agree
    <3>4. timers \o <<<<r, "backdrop">>>> \in Seq(Dialog \X Phase)
      BY <1>1, <1>2, ConcatIn, OneIn DEF TypeOK, Phase
    <3>5. \A v \in Seq(Dialog \X Phase) : v \o <<>> = v OBVIOUS
    <3>6. timers' = timers \o u BY <3>2, <3>3, <3>4, <3>5
    <3> QED BY <1>2, <3>1, <3>2, <3>6, BringsOne
  <2> QED BY <2>1, <2>2
<1>5. Changes(D, {r}) BY <1>2, <1>3, <1>4 DEF Changes, Agree, Hideable
<1>6. Grows({r})
  <2>1. \A q \in Request : req[q] # "unsent" \/ q \in {r} => req'[q] # "unsent"
    BY <1>1 DEF Agree, TypeOK
  <2> QED BY <1>2, <2>1 DEF Grows, Agree, pages
<1>7. Handler BY <1>5, <1>6 DEF Handler
<1>8. /\ asker' \in [Confirm -> Page \cup {None}]
      /\ focus' \in {focus, None} /\ focus' \in Page \cup Confirm \cup {None}
      /\ bodyOpen' \in BOOLEAN /\ leaving' \subseteq Page /\ loading' \subseteq Querying
  BY <1>1 DEF Agree, TypeOK, pages
<1>9. /\ req' \in [Request -> {"unsent", "sent", "answered", "lost"}]
      /\ from' \in [Request -> Page \cup {None}] /\ hasty' \subseteq Request
      /\ Senders' /\ Haste'
  <2>1. asker[c] \in Page BY <1>1 DEF Agree, TypeOK
  <2>2. Modal \in shown => Modal \in shown' BY DialogsDiffer DEF Agree, Hideable
  <2> QED BY <2>1, <2>2, SendHaste DEF Agree, pages
<1>10. UNCHANGED <<tabs, active>> BY DEF Agree, pages
<1> QED BY <1>7, <1>8, <1>9, <1>10, HandlerStep

LEMMA DeclineStep ==
  ASSUME IInv, NEW c \in Confirm, Decline(c)
  PROVE  IInv'
<1>1. TypeOK /\ c \in Dialog /\ c \in shown
  BY DEF IInv, Box, Dialog, Decline, Hideable
<1>2. timers' = timers \o <<<<c, "hide">>>> BY <1>1, AppendIsConcat DEF Decline, TypeOK
<1>3. Changes({c}, {}) BY <1>1, <1>2, BringsOne DEF Changes, Decline
<1>4. Grows({}) BY DEF Grows, Decline, pages, calls
<1>5. Handler BY <1>3, <1>4 DEF Handler
<1>6. /\ req' \in [Request -> {"unsent", "sent", "answered", "lost"}]
      /\ from' \in [Request -> Page \cup {None}]
      /\ asker' \in [Confirm -> Page \cup {None}]
      /\ focus' \in {focus, None} /\ focus' \in Page \cup Confirm \cup {None}
      /\ bodyOpen' \in BOOLEAN /\ hasty' \subseteq Request
      /\ leaving' \subseteq Page /\ loading' \subseteq Querying
  BY <1>1 DEF Decline, TypeOK, calls, pages
<1>7. Senders' /\ Haste' BY SameHaste, DialogsDiffer DEF IInv, Decline, calls, pages
<1>8. UNCHANGED <<tabs, active>> BY DEF Decline, pages
<1> QED BY <1>5, <1>6, <1>7, <1>8, HandlerStep

LEMMA CloseModalStep ==
  ASSUME IInv, CloseModal
  PROVE  IInv'
<1>1. TypeOK /\ Modal \in Dialog /\ Modal \in shown
  BY DEF IInv, Dialog, CloseModal, Hideable
<1>2. timers' = timers \o <<<<Modal, "hide">>>>
  BY <1>1, AppendIsConcat DEF CloseModal, TypeOK
<1>3. Changes({Modal}, {}) BY <1>1, <1>2, BringsOne DEF Changes, CloseModal
<1>4. Grows({}) BY DEF Grows, CloseModal, pages
<1>5. Handler BY <1>3, <1>4 DEF Handler
<1>6. /\ req' \in [Request -> {"unsent", "sent", "answered", "lost"}]
      /\ from' \in [Request -> Page \cup {None}]
      /\ asker' \in [Confirm -> Page \cup {None}]
      /\ focus' \in {focus, None} /\ focus' \in Page \cup Confirm \cup {None}
      /\ bodyOpen' \in BOOLEAN
      /\ leaving' \subseteq Page /\ loading' \subseteq Querying
  BY <1>1 DEF CloseModal, TypeOK, pages
<1>7. hasty' \subseteq Request /\ Senders' /\ Haste'
  <2>1. ASSUME \E r \in Request : Settled(r) PROVE FALSE
    <3>1. PICK r \in Request : Settled(r) BY <2>1
    <3>2. r \in shown /\ \A f \in Phase : ~Due(r, f) BY <3>1 DEF Settled, Due, In
    <3>3. r \in up /\ r # Modal BY <3>2, DialogsDiffer DEF IInv, Screen, Dialog, Box, Phase
    <3> QED BY <3>3 DEF CloseModal, ModalReached
  <2>2. \A x : Going(x)' => Going(x) \/ x = Modal BY DEF Going, CloseModal, pages
  <2>3. /\ UNCHANGED <<req, from>> /\ hasty' = hasty \cup Rising(Modal)
        /\ shown' \subseteq shown /\ Modal \in Page
    BY DEF CloseModal, Page
  <2> QED BY <2>1, <2>2, <2>3, LeaveHaste
<1>8. UNCHANGED <<tabs, active>> BY DEF CloseModal, pages
<1> QED BY <1>5, <1>6, <1>7, <1>8, HandlerStep

LEMMA OpenModalStep ==
  ASSUME IInv, NEW t \in Program, OpenModal(t)
  PROVE  IInv'
<1>1. TypeOK /\ Modal \in Dialog /\ backdrop = {}
  BY DEF IInv, Dialog, OpenModal, TabReached
<1>2. timers' = timers \o <<<<Modal, "backdrop">>>>
  BY <1>1, AppendIsConcat DEF OpenModal, TypeOK
<1>3. Changes({}, {Modal}) BY <1>1, <1>2, BringsOne DEF Changes, OpenModal
<1>4. Grows({Modal}) BY <1>1, DialogsDiffer DEF Grows, OpenModal, pages, calls
<1>5. Handler BY <1>3, <1>4 DEF Handler
<1>6. /\ req' \in [Request -> {"unsent", "sent", "answered", "lost"}]
      /\ from' \in [Request -> Page \cup {None}]
      /\ asker' \in [Confirm -> Page \cup {None}]
      /\ focus' \in {focus, None} /\ focus' \in Page \cup Confirm \cup {None}
      /\ bodyOpen' \in BOOLEAN /\ hasty' \subseteq Request
      /\ leaving' \subseteq Page /\ loading' \subseteq Querying
  BY <1>1 DEF OpenModal, TypeOK, calls, pages
<1>7. Senders' /\ Haste' BY SameHaste, DialogsDiffer DEF IInv, OpenModal, calls, pages
<1>8. UNCHANGED <<tabs, active>> BY DEF OpenModal, pages
<1> QED BY <1>5, <1>6, <1>7, <1>8, HandlerStep

\* hideAll takes every bootbox element that is shown.
LEMMA HideAllIn ==
  ASSUME IInv
  PROVE  /\ HideAll \in SUBSET {b \in Box : InBoxes(b)}
         /\ HideAll = shown \cap Box
         /\ \A low \in Lowerings(HideAll) : Brings(low, HideAll, {})
<1>1. TypeOK /\ Screen /\ Elements BY DEF IInv
<1>2. HideAll \in SUBSET {b \in Box : InBoxes(b)} BY DEF HideAll, Hideable
<1>3. HideAll = shown \cap Box BY <1>1 DEF HideAll, Hideable, Elements, Screen, Dialog
<1>4. ASSUME NEW low \in Lowerings(HideAll) PROVE Brings(low, HideAll, {})
  BY <1>1, <1>2, LoweringsIn DEF Brings
<1> QED BY <1>2, <1>3, <1>4

LEMMA AnswerStep ==
  ASSUME IInv, NEW r \in Request, Answer(r) \/ AnswerAndReload(r)
  PROVE  IInv'
<1>1. TypeOK /\ Senders /\ Request \subseteq Box /\ HideAll = shown \cap Box
  BY HideAllIn DEF IInv, Box
<1>2. /\ shown' = shown \ HideAll /\ moving' = moving \cup HideAll
      /\ UNCHANGED <<tabs, active, frame, loading, up, backdrop, boxes, bodyOpen, asker, focus>>
      /\ \E low \in Lowerings(HideAll) : timers' = timers \o low
      /\ req[r] = "sent" /\ req' = [req EXCEPT ![r] = "answered"]
      /\ from' = [from EXCEPT ![r] = None] /\ hasty' = hasty \ {r}
      /\ leaving' \subseteq leaving \cup {from[r]}
  BY DEF Answer, AnswerAndReload, Done, pages
<1>3. Changes(HideAll, {}) BY <1>1, <1>2, HideAllIn DEF Changes
<1>4. Grows({})
  <2>1. \A q \in Request : req[q] # "unsent" => req'[q] # "unsent"
    BY <1>1, <1>2 DEF TypeOK
  <2> QED BY <1>2, <2>1 DEF Grows
<1>5. Handler BY <1>3, <1>4 DEF Handler
<1>6. /\ req' \in [Request -> {"unsent", "sent", "answered", "lost"}]
      /\ from' \in [Request -> Page \cup {None}] /\ hasty' \subseteq Request
      /\ asker' \in [Confirm -> Page \cup {None}] /\ bodyOpen' \in BOOLEAN
      /\ focus' \in {focus, None} /\ focus' \in Page \cup Confirm \cup {None}
      /\ leaving' \subseteq Page /\ loading' \subseteq Querying
  BY <1>1, <1>2 DEF TypeOK, Senders
<1>7. Senders' BY <1>1, <1>2 DEF Senders, TypeOK
<1>8. Haste' BY <1>1, <1>2, NoHaste
<1> QED BY <1>2, <1>5, <1>6, <1>7, <1>8, HandlerStep

LEMMA AnswerAndFollowStep ==
  ASSUME IInv, NEW r \in Request, NEW next \in Request, AnswerAndFollow(r, next)
  PROVE  IInv'
<1>1. /\ TypeOK /\ Elements /\ Request \subseteq Box /\ HideAll = shown \cap Box
      /\ next \in Dialog /\ next \notin Confirm
  BY HideAllIn, DialogsDiffer DEF IInv, Box, Dialog
<1>2. next \notin backdrop BY <1>1 DEF AnswerAndFollow, Fresh, Elements
<1>3. HideAll \subseteq shown /\ next \notin shown /\ next \notin HideAll
  BY <1>1, <1>2 DEF IInv, Screen
<1>4. PICK low \in Lowerings(HideAll) : timers' = timers \o low \o <<<<next, "backdrop">>>>
  BY DEF AnswerAndFollow
<1> DEFINE u == low \o <<<<next, "backdrop">>>>
<1>5. Brings(u, HideAll \cup {}, {} \cup {next})
  BY <1>1, <1>3, HideAllIn, BringsOne, BringsBoth
<1>6. timers' = timers \o u
  <2>1. low \in Seq(Dialog \X Phase) BY HideAllIn DEF Brings
  <2> QED BY <1>1, <1>4, <2>1 DEF TypeOK, Phase
<1>7. Changes(HideAll, {next})
  BY <1>1, <1>2, <1>3, <1>5, <1>6 DEF Changes, AnswerAndFollow
<1>8. Grows({next})
  <2>1. \A q \in Request : req[q] # "unsent" \/ q \in {next} => req'[q] # "unsent"
    BY <1>1 DEF AnswerAndFollow, TypeOK
  <2> QED BY <1>1, <2>1 DEF Grows, AnswerAndFollow, pages
<1>9. Handler BY <1>7, <1>8 DEF Handler
<1>10. /\ req' \in [Request -> {"unsent", "sent", "answered", "lost"}]
      /\ from' \in [Request -> Page \cup {None}]
      /\ asker' \in [Confirm -> Page \cup {None}]
      /\ focus' \in {focus, None} /\ focus' \in Page \cup Confirm \cup {None}
      /\ bodyOpen' \in BOOLEAN /\ hasty' \subseteq Request
      /\ leaving' \subseteq Page /\ loading' \subseteq Querying
  <2>1. from[r] \in Page BY DEF IInv, Senders, AnswerAndFollow
  <2> QED BY <1>1, <2>1 DEF AnswerAndFollow, TypeOK, pages, SentBy
<1>11. Senders' /\ Haste'
  <2>1. /\ req[r] = "sent" /\ req[next] = "unsent" /\ r # next
        /\ req' = [req EXCEPT ![r] = "answered", ![next] = "sent"]
        /\ from' = [from EXCEPT ![r] = None, ![next] = from[r]]
        /\ hasty' = SentBy(from[r], next) \ {r} /\ leaving' = leaving
        /\ shown' = (shown \ HideAll) \cup {next}
    BY DEF AnswerAndFollow, Fresh, pages
  <2>2. /\ req'[r] = "answered" /\ req'[next] = "sent" /\ from'[next] = from[r]
        /\ \A q \in Request \ {r, next} : req'[q] = req[q] /\ from'[q] = from[q]
    BY <1>1, <2>1 DEF TypeOK
  <2>3. from[r] \in Page /\ Senders BY <2>1 DEF IInv, Senders
  <2>4. Senders' BY <2>2, <2>3 DEF Senders
  <2>5. shown' \cap Request = {next} BY <1>1, <2>1
  <2>6. Modal \in shown' <=> Modal \in shown
    BY <1>1, <2>1, DialogsDiffer DEF Box
  <2>7. Going(from[next])' => next \in hasty' BY <2>1, <2>2, <2>6 DEF Going, SentBy
  <2>8. Haste' BY <2>2, <2>5, <2>7 DEF Haste, StuckOnlyIfHasty
  <2> QED BY <2>4, <2>8
<1>12. UNCHANGED <<tabs, active>> BY DEF AnswerAndFollow, pages
<1> QED BY <1>9, <1>10, <1>11, <1>12, HandlerStep
-----------------------------------------------------------------------------
(* Pages that come and go *)

\* A handler that leaves the screen as it is.
LEMMA QuietStep ==
  ASSUME IInv, UNCHANGED <<tabs, active, frame, screen>>,
         leaving' \subseteq Page, loading' \subseteq Querying, hasty' \subseteq Request,
         req' \in [Request -> {"unsent", "sent", "answered", "lost"}],
         from' \in [Request -> Page \cup {None}],
         asker' \in [Confirm -> Page \cup {None}],
         focus' \in Page \cup Confirm \cup {None},
         (\E r \in Request : r \in shown /\ \A p \in Phase : ~Due(r, p))
           => focus' \in {focus, None},
         \A r \in Request : req[r] # "unsent" => req'[r] # "unsent",
         Senders', Haste'
  PROVE  IInv'
<1>1. TypeOK BY DEF IInv
<1>2. /\ shown' = shown /\ moving' = moving /\ up' = up /\ backdrop' = backdrop
      /\ boxes' = boxes /\ bodyOpen' = bodyOpen /\ timers' = timers
  BY DEF screen
<1>3. Brings(<<>>, {}, {}) /\ timers' = timers \o <<>>
  <2>1. <<>> \in Seq(Dialog \X Phase) /\ Len(<<>>) = 0 OBVIOUS
  <2>2. \A x : ~In(<<>>, x) BY <2>1 DEF In
  <2>3. \A x, y : ~Before(<<>>, x, y) BY <2>1 DEF Before
  <2>4. \A v \in Seq(Dialog \X Phase) : v \o <<>> = v OBVIOUS
  <2>5. timers' = timers \o <<>> BY <1>1, <1>2, <2>4 DEF TypeOK
  <2> QED BY <2>1, <2>2, <2>3, <2>5 DEF Brings
<1>4. Changes({}, {}) BY <1>2, <1>3 DEF Changes
<1>5. Grows({}) BY <1>2 DEF Grows
<1>6. Handler BY <1>4, <1>5 DEF Handler
<1>7. bodyOpen' \in BOOLEAN BY <1>1, <1>2 DEF TypeOK
<1> QED BY <1>6, <1>7, HandlerStep

LEMMA RefreshStep ==
  ASSUME IInv, NEW p \in Page, Refresh(p)
  PROVE  IInv'
<1>1. TypeOK BY DEF IInv
<1>2. ~\E q \in Request : q \in shown /\ \A f \in Phase : ~Due(q, f)
  BY NothingReached, DialogsDiffer DEF Refresh, Page
<1>3. hasty' \subseteq Request /\ Senders' /\ Haste'
  <2>1. \A x : Going(x)' => Going(x) \/ x = p BY DEF Going, Refresh, screen
  <2>2. \A r \in Request : ~Settled(r) BY <1>2 DEF Settled, Due, In
  <2> QED BY <2>1, <2>2, LeaveHaste DEF Refresh, screen
<1>4. /\ UNCHANGED <<tabs, active, frame, screen>> /\ req' = req
      /\ leaving' \subseteq Page /\ loading' \subseteq Querying
      /\ req' \in [Request -> {"unsent", "sent", "answered", "lost"}]
      /\ from' \in [Request -> Page \cup {None}]
      /\ asker' \in [Confirm -> Page \cup {None}]
      /\ focus' \in Page \cup Confirm \cup {None}
  BY <1>1 DEF Refresh, TypeOK
<1> QED BY <1>2, <1>3, <1>4, QuietStep

LEMMA UnloadStep ==
  ASSUME IInv, NEW p \in Page, Unload(p)
  PROVE  IInv'
<1>1. TypeOK BY DEF IInv
<1>2. Going(p) /\ shown' = shown BY DEF Unload, Going, screen
<1>3. leaving' \subseteq leaving BY DEF Unload
<1>4. /\ req' \in [Request -> {"unsent", "sent", "answered", "lost"}]
      /\ from' \in [Request -> Page \cup {None}]
      /\ asker' \in [Confirm -> Page \cup {None}]
      /\ \A r \in Request : req[r] # "unsent" => req'[r] # "unsent"
      /\ Senders' /\ Haste'
  BY <1>2, <1>3, GoneHaste DEF Unload
<1>5. /\ UNCHANGED <<tabs, active, frame, screen>>
      /\ leaving' \subseteq Page /\ loading' \subseteq Querying /\ hasty' \subseteq Request
      /\ focus' \in Page \cup Confirm \cup {None} /\ focus' \in {focus, None}
  BY <1>1 DEF Unload, TypeOK, Loads, FocusWithout
<1> QED BY <1>4, <1>5, QuietStep

LEMMA ReadyStep ==
  ASSUME IInv, NEW p \in Page, NEW r \in Request, Ready(p, r)
  PROVE  IInv'
<1>1. TypeOK /\ Elements BY DEF IInv
<1>2. r \in Box /\ r \in Dialog /\ r \notin Confirm BY DialogsDiffer DEF Box, Dialog
<1>3. r \notin backdrop BY <1>1 DEF Ready, Fresh, Elements
<1>4. timers' = timers \o <<<<r, "backdrop">>>>
  BY <1>1, AppendIsConcat DEF Ready, TypeOK
<1>5. Changes({}, {r}) BY <1>2, <1>3, <1>4, BringsOne DEF Changes, Ready
<1>6. Grows({r})
  <2>1. \A q \in Request : req[q] # "unsent" \/ q \in {r} => req'[q] # "unsent"
    BY <1>1 DEF Ready, TypeOK
  <2> QED BY <1>2, <2>1 DEF Grows, Ready
<1>7. Handler BY <1>5, <1>6 DEF Handler
<1>8. /\ asker' \in [Confirm -> Page \cup {None}] /\ bodyOpen' \in BOOLEAN
      /\ focus' \in Page \cup Confirm \cup {None} /\ focus' \in {focus, None}
      /\ leaving' \subseteq Page /\ loading' \subseteq Querying
      /\ UNCHANGED <<tabs, active>>
  BY <1>1 DEF Ready, TypeOK
<1>9. /\ req' \in [Request -> {"unsent", "sent", "answered", "lost"}]
      /\ from' \in [Request -> Page \cup {None}] /\ hasty' \subseteq Request
      /\ Senders' /\ Haste'
  BY SendHaste DEF Ready
<1> QED BY <1>7, <1>8, <1>9, HandlerStep
-----------------------------------------------------------------------------
(* The tabs, which are reached on an empty screen only *)

LEMMA TabStep ==
  ASSUME IInv, MenuReached, UNCHANGED <<frame, screen, hasty>>, focus' = None,
         tabs' \in Seq(Program), active' \in Program \cup {None},
         leaving' \subseteq Page, loading' \subseteq Querying,
         req' \in [Request -> {"unsent", "sent", "answered", "lost"}],
         from' \in [Request -> Page \cup {None}],
         asker' \in [Confirm -> Page \cup {None}], Senders', ActiveIsOpen'
  PROVE  IInv'
<1>1. /\ shown' = shown /\ moving' = moving /\ up' = up /\ backdrop' = backdrop
      /\ boxes' = boxes /\ bodyOpen' = bodyOpen /\ timers' = timers
  BY DEF screen
<1>2. backdrop = {} /\ shown = {}
  <2>1. \A d \in Dialog : d \in shown => d \in backdrop BY DEF IInv, Screen
  <2> QED BY <2>1 DEF MenuReached, IInv, TypeOK
<1>3. TypeOK' BY <1>1 DEF IInv, TypeOK
<1>4. Ordered' BY <1>1 DEF IInv, Ordered
<1>5. \A d, p : Due(d, p)' <=> Due(d, p) BY <1>1 DEF Due
<1>6. Screen' BY <1>1, <1>5 DEF IInv, Screen
<1>7. Elements' BY <1>1, <1>2 DEF IInv, Elements, InBoxes
<1>8. Frame' BY <1>1, <1>5 DEF IInv, Frame
<1>9. Keyboard' /\ Haste' BY <1>1, <1>2, NoHaste DEF Keyboard
<1> QED BY <1>3, <1>4, <1>6, <1>7, <1>8, <1>9 DEF IInv

\* It is empty.
LEMMA MenuEmpty ==
  ASSUME IInv, MenuReached
  PROVE  shown = {}
<1>1. \A d \in Dialog : d \in shown => d \in backdrop BY DEF IInv, Screen
<1> QED BY <1>1 DEF MenuReached, IInv, TypeOK

LEMMA AddTabStep ==
  ASSUME IInv, NEW t \in Program, AddTab(t)
  PROVE  IInv'
<1>1. TypeOK /\ tabs \in Seq(Program) BY DEF IInv, TypeOK
<1>2. tabs' \in Seq(Program) BY <1>1 DEF AddTab
<1>3. tabs' # <<>> /\ \E i \in 1..Len(tabs') : tabs'[i] = t
  <2>1. CASE InTabs(t)
    <3>1. tabs' = tabs BY <2>1 DEF AddTab
    <3>2. PICK i \in 1..Len(tabs) : tabs[i] = t BY <2>1 DEF InTabs
    <3>3. tabs # <<>> BY <1>1, <3>2
    <3> QED BY <3>1, <3>2, <3>3
  <2>2. CASE ~InTabs(t)
    <3>1. tabs' = Append(tabs, t) BY <2>2 DEF AddTab
    <3>2. Len(tabs') = Len(tabs) + 1 /\ tabs'[Len(tabs) + 1] = t /\ Len(tabs) \in Nat
      BY <1>1, <3>1
    <3>3. Len(tabs) + 1 \in 1..Len(tabs') BY <3>2
    <3> QED BY <3>1, <3>2, <3>3, <1>1
  <2> QED BY <2>1, <2>2
<1>4. ActiveIsOpen' BY <1>3 DEF ActiveIsOpen, InTabs, AddTab
<1>5. leaving' \subseteq Page /\ loading' \subseteq Querying
  BY <1>1 DEF AddTab, TypeOK, Loads, Page
<1>6. /\ UNCHANGED <<frame, screen, hasty>> /\ MenuReached /\ focus' = None
      /\ active' \in Program \cup {None}
      /\ req' = req /\ from' = from /\ asker' = asker
  BY DEF AddTab, calls
<1>7. Senders' BY <1>6 DEF IInv, Senders
<1>8. /\ req' \in [Request -> {"unsent", "sent", "answered", "lost"}]
      /\ from' \in [Request -> Page \cup {None}]
      /\ asker' \in [Confirm -> Page \cup {None}]
  BY <1>1, <1>6 DEF TypeOK
<1> QED BY <1>2, <1>4, <1>5, <1>6, <1>7, <1>8, TabStep

LEMMA CloseTabStep ==
  ASSUME IInv, NEW t \in Program, CloseTab(t)
  PROVE  IInv'
<1>1. TypeOK /\ tabs \in Seq(Program) /\ Len(tabs) \in Nat BY DEF IInv, TypeOK
<1>2. PICK i \in 1..Len(tabs) : tabs' = Without(tabs, i) /\ active' = Neighbour(i)
  BY DEF CloseTab
<1>3. /\ tabs' \in Seq(Program) /\ Len(tabs') = Len(tabs) - 1
      /\ \A j \in 1..Len(tabs) - 1 : tabs'[j] = IF j < i THEN tabs[j] ELSE tabs[j + 1]
  BY <1>1, <1>2, WithoutIn
<1>4. tabs' = <<>> => i = 1 /\ active' = None
  <2> SUFFICES ASSUME tabs' = <<>> PROVE i = 1 /\ active' = None OBVIOUS
  <2>1. Len(tabs) = 1 BY <1>1, <1>3
  <2>2. i = 1 BY <2>1
  <2> QED BY <1>2, <2>2 DEF Neighbour
<1>5. tabs' # <<>> => \E j \in 1..Len(tabs') : tabs'[j] = active'
  <2> SUFFICES ASSUME tabs' # <<>> PROVE \E j \in 1..Len(tabs') : tabs'[j] = active'
    OBVIOUS
  <2>1. CASE i > 1
    <3>1. active' = tabs[i - 1] BY <1>2, <2>1 DEF Neighbour
    <3>2. i - 1 \in 1..Len(tabs') /\ i - 1 < i /\ i - 1 \in 1..Len(tabs) - 1
      BY <1>1, <1>3, <2>1
    <3> QED BY <1>3, <3>1, <3>2
  <2>2. CASE ~(i > 1)
    <3>1. active' = tabs'[Len(tabs')] BY <1>2, <2>2 DEF Neighbour
    <3>2. Len(tabs') \in 1..Len(tabs') BY <1>3
    <3> QED BY <3>1, <3>2
  <2> QED BY <2>1, <2>2
<1>6. ActiveIsOpen' BY <1>4, <1>5 DEF ActiveIsOpen, InTabs
<1>7. active' \in Program \cup {None}
  <2>1. CASE tabs' = <<>> BY <1>4, <2>1
  <2>2. CASE tabs' # <<>> BY <1>3, <1>5, <2>2
  <2> QED BY <2>1, <2>2
<1>8. /\ MenuReached /\ UNCHANGED <<frame, screen, hasty>> /\ focus' = None
      /\ leaving' \subseteq leaving /\ loading' \subseteq loading
  BY DEF CloseTab
<1>9. /\ req' \in [Request -> {"unsent", "sent", "answered", "lost"}]
      /\ from' \in [Request -> Page \cup {None}]
      /\ asker' \in [Confirm -> Page \cup {None}]
      /\ Senders'
  BY <1>8, MenuEmpty, GoneHaste DEF CloseTab, screen, Page
<1>10. leaving' \subseteq Page /\ loading' \subseteq Querying BY <1>1, <1>8 DEF TypeOK
<1> QED BY <1>3, <1>6, <1>7, <1>8, <1>9, <1>10, TabStep

LEMMA SwitchTabStep ==
  ASSUME IInv, NEW t \in Program, SwitchTab(t)
  PROVE  IInv'
<1>1. TypeOK BY DEF IInv
<1>2. ActiveIsOpen'
  <2>1. \E i \in 1..Len(tabs) : tabs[i] = t BY DEF SwitchTab, InTabs
  <2>2. tabs # <<>> BY <1>1, <2>1 DEF TypeOK
  <2> QED BY <2>1, <2>2 DEF SwitchTab, ActiveIsOpen, InTabs
<1>3. Senders' BY DEF IInv, Senders, SwitchTab, calls
<1> QED BY <1>1, <1>2, <1>3, TabStep DEF SwitchTab, calls, TypeOK
-----------------------------------------------------------------------------
(* The ends of transitions *)

\* The rest of the queue: of the same dialog only what may follow is in it.
LEMMA EndsQueue ==
  ASSUME TypeOK, Ordered, NEW d \in Dialog, NEW p \in Phase, Ends(d, p)
  PROVE  /\ Tail(timers) \in Seq(Dialog \X Phase)
         /\ \A e, q : Due(e, q) <=> In(Tail(timers), <<e, q>>) \/ (e = d /\ q = p)
         /\ \A x, y : Before(timers, x, y) <=>
              Before(Tail(timers), x, y) \/ (x = <<d, p>> /\ In(Tail(timers), y))
         /\ \A q \in Phase : In(Tail(timers), <<d, q>>) => <<p, q>> \in Follows
         /\ \A e \in Dialog, q \in Phase, n \in Phase :
              Before(Tail(timers), <<e, q>>, <<e, n>>) => <<q, n>> \in Follows
<1>1. timers \in Seq(Dialog \X Phase) /\ timers # <<>> /\ Head(timers) = <<d, p>>
  BY DEF TypeOK, Ends
<1>2. /\ Tail(timers) \in Seq(Dialog \X Phase)
      /\ \A x : In(timers, x) <=> In(Tail(timers), x) \/ x = <<d, p>>
      /\ \A x, y : Before(timers, x, y) <=>
           Before(Tail(timers), x, y) \/ (x = <<d, p>> /\ In(Tail(timers), y))
  BY <1>1, TailIn
<1>3. \A e, q : Due(e, q) <=> In(Tail(timers), <<e, q>>) \/ (e = d /\ q = p)
  BY <1>2 DEF Due
<1>4. \A q \in Phase : In(Tail(timers), <<d, q>>) => <<p, q>> \in Follows
  BY <1>2 DEF Ordered
<1>5. \A e \in Dialog, q \in Phase, n \in Phase :
        Before(Tail(timers), <<e, q>>, <<e, n>>) => <<q, n>> \in Follows
  BY <1>2 DEF Ordered
<1> QED BY <1>2, <1>3, <1>4, <1>5

\* One transition ends and the next one of the dialog begins.
LEMMA NextQueue ==
  ASSUME TypeOK, Ordered, NEW d \in Dialog, NEW p \in Phase, NEW n \in Phase, Ends(d, p),
         \A q \in Phase : <<p, q>> \in Follows => <<q, n>> \in Follows,
         timers' = Append(Tail(timers), <<d, n>>)
  PROVE  /\ timers' \in Seq(Dialog \X Phase) /\ Ordered'
         /\ \A e, q : Due(e, q)' <=> In(Tail(timers), <<e, q>>) \/ (e = d /\ q = n)
         /\ \A x, y : Before(Tail(timers), x, y) => Before(timers', x, y)
         /\ \A x : In(Tail(timers), x) => Before(timers', x, <<d, n>>)
<1>1. Tail(timers) \in Seq(Dialog \X Phase) /\ <<d, n>> \in Dialog \X Phase BY EndsQueue
<1>2. /\ timers' \in Seq(Dialog \X Phase)
      /\ \A x : In(timers', x) <=> In(Tail(timers), x) \/ x = <<d, n>>
      /\ \A x, y : Before(timers', x, y) <=>
           Before(Tail(timers), x, y) \/ (In(Tail(timers), x) /\ y = <<d, n>>)
  <2> DEFINE t == Append(Tail(timers), <<d, n>>)
  <2>1. /\ t \in Seq(Dialog \X Phase)
        /\ \A x : In(t, x) <=> In(Tail(timers), x) \/ x = <<d, n>>
        /\ \A x, y : Before(t, x, y) <=>
             Before(Tail(timers), x, y) \/ (In(Tail(timers), x) /\ y = <<d, n>>)
    BY <1>1, AppendIn
  <2> HIDE DEF t
  <2>2. timers' = t BY DEF t
  <2> QED BY <2>1, <2>2
<1>3. \A e, q : Due(e, q)' <=> In(Tail(timers), <<e, q>>) \/ (e = d /\ q = n)
  BY <1>2 DEF Due
<1>4. ASSUME NEW e \in Dialog, NEW q \in Phase, NEW m \in Phase,
             Before(timers', <<e, q>>, <<e, m>>)
      PROVE  <<q, m>> \in Follows
  <2>1. CASE Before(Tail(timers), <<e, q>>, <<e, m>>) BY <2>1, EndsQueue
  <2>2. CASE In(Tail(timers), <<e, q>>) /\ <<e, m>> = <<d, n>>
    <3>1. In(Tail(timers), <<d, q>>) /\ m = n BY <2>2
    <3> QED BY <3>1, EndsQueue
  <2> QED BY <1>2, <1>4, <2>1, <2>2
<1>5. Ordered' BY <1>4 DEF Ordered
<1> QED BY <1>2, <1>3, <1>5

\* One transition ends and none of the dialog begins.
LEMMA LastQueue ==
  ASSUME TypeOK, Ordered, NEW d \in Dialog, NEW p \in Phase, Ends(d, p),
         timers' = Tail(timers)
  PROVE  /\ timers' \in Seq(Dialog \X Phase) /\ Ordered'
         /\ \A e, q : Due(e, q)' <=> In(Tail(timers), <<e, q>>)
<1>1. Ordered' BY EndsQueue DEF Ordered
<1>2. \A e, q : Due(e, q)' <=> In(Tail(timers), <<e, q>>) BY DEF Due
<1> QED BY <1>1, <1>2, EndsQueue

LEMMA ShowElementStep ==
  ASSUME IInv, NEW d \in Dialog, ShowElement(d)
  PROVE  IInv'
<1>1. /\ TypeOK /\ Ordered /\ Screen /\ Elements /\ Frame /\ Keyboard
      /\ "backdrop" \in Phase /\ "shown" \in Phase /\ Ends(d, "backdrop")
  BY DEF IInv, Phase, ShowElement
<1>2. /\ shown' = shown /\ moving' = moving /\ backdrop' = backdrop /\ boxes' = boxes
      /\ bodyOpen' = bodyOpen /\ up' = up \cup {d} /\ frame' = frame /\ focus' = focus
      /\ timers' = Append(Tail(timers), <<d, "shown">>)
      /\ UNCHANGED <<tabs, active, leaving, loading, req, from, asker, hasty>>
  BY DEF ShowElement, pages, calls
<1> DEFINE T == Tail(timers)
<1>3. \A q \in Phase : In(T, <<d, q>>) => q = "hide" BY <1>1, EndsQueue DEF Follows
<1>4. \A e, q : Due(e, q) <=> In(T, <<e, q>>) \/ (e = d /\ q = "backdrop")
  BY <1>1, EndsQueue
<1>5. \A q \in Phase : <<"backdrop", q>> \in Follows => <<q, "shown">> \in Follows
  BY DEF Follows
<1>6. /\ timers' \in Seq(Dialog \X Phase) /\ Ordered'
      /\ \A e, q : Due(e, q)' <=> In(T, <<e, q>>) \/ (e = d /\ q = "shown")
      /\ \A x, y : Before(T, x, y) => Before(timers', x, y)
      /\ \A x : In(T, x) => Before(timers', x, <<d, "shown">>)
  BY <1>1, <1>2, <1>5, NextQueue
<1>7. \A x, y : Before(timers, x, y) <=> Before(T, x, y) \/ (x = <<d, "backdrop">> /\ In(T, y))
  BY <1>1, EndsQueue
<1> HIDE DEF T
<1>8. TypeOK' BY <1>1, <1>2, <1>6 DEF TypeOK
<1>9. Screen'
  <2> SUFFICES ASSUME NEW e \in Dialog
               PROVE  /\ e \in shown' => e \in backdrop' /\ (e \in up' \/ Due(e, "backdrop")')
                      /\ e \in up' => e \in shown' \/ Due(e, "hide")'
                      /\ e \in moving' =>
                           Due(e, "backdrop")' \/ Due(e, "shown")' \/ Due(e, "hide")'
                      /\ e \in backdrop' => e \in shown' \/ Due(e, "hide")' \/ Due(e, "hidden")'
                      /\ \A p \in Phase : Due(e, p)' => e \in backdrop'
                      /\ Due(e, "hide")' \/ Due(e, "hidden")' => e \notin shown'
                      /\ Due(e, "backdrop")' /\ e \notin shown' => Due(e, "hide")'
    BY DEF Screen
  <2>1. CASE e = d
    <3>1. /\ ~Due(e, "backdrop")' /\ Due(e, "shown")' /\ ~Due(e, "hidden")'
          /\ (Due(e, "hide")' <=> Due(e, "hide"))
      <4>1. \A q : Due(e, q)' <=> In(T, <<d, q>>) \/ q = "shown" BY <1>6, <2>1
      <4>2. \A q : Due(e, q) <=> In(T, <<d, q>>) \/ q = "backdrop" BY <1>4, <2>1
      <4>3. ~In(T, <<d, "backdrop">>) /\ ~In(T, <<d, "hidden">>) BY <1>3 DEF Phase
      <4> QED BY <4>1, <4>2, <4>3
    <3>2. Due(e, "backdrop") BY <1>4, <2>1
    <3>3. ~Due(e, "hidden") BY <1>3, <1>4, <2>1 DEF Phase
    <3> QED BY <1>1, <1>2, <2>1, <3>1, <3>2, <3>3 DEF Screen
  <2>2. CASE e # d
    <3>1. \A p : Due(e, p)' <=> Due(e, p) BY <1>4, <1>6, <2>2
    <3>2. e \in up' <=> e \in up BY <1>2, <2>2
    <3> QED BY <1>1, <1>2, <3>1, <3>2 DEF Screen
  <2> QED BY <2>1, <2>2
<1>10. Elements' BY <1>1, <1>2 DEF Elements, InBoxes
<1>11. Frame'
  <2>1. Due(Modal, "backdrop") \/ Due(Modal, "shown") =>
          Due(Modal, "backdrop")' \/ Due(Modal, "shown")'
    BY <1>4, <1>6
  <2> QED BY <1>1, <1>2, <2>1 DEF Frame
<1>12. Keyboard'
  <2> SUFFICES ASSUME NEW r \in Request, r \in shown
               PROVE  /\ (\A p \in Phase : ~Due(r, p)') => focus' = None
                      /\ \A c \in Confirm :
                           /\ Due(c, "shown")' /\ c \in up' =>
                                \/ Due(r, "backdrop")'
                                \/ Before(timers', <<c, "shown">>, <<r, "shown">>)
                           /\ Due(c, "backdrop")' =>
                                Before(timers', <<c, "backdrop">>, <<r, "backdrop">>)
    BY <1>2 DEF Keyboard
  <2>1. (\A p \in Phase : ~Due(r, p)') => focus' = None
    BY <1>1, <1>2, <1>4, <1>6 DEF Keyboard
  <2>2. ASSUME NEW c \in Confirm, Due(c, "backdrop")'
        PROVE  Before(timers', <<c, "backdrop">>, <<r, "backdrop">>)
    <3>1. In(T, <<c, "backdrop">>) /\ c # d BY <1>1, <1>3, <1>6, <2>2
    <3>2. Before(timers, <<c, "backdrop">>, <<r, "backdrop">>) BY <1>1, <1>4, <3>1 DEF Keyboard
    <3> QED BY <1>6, <1>7, <3>1, <3>2
  <2>3. ASSUME NEW c \in Confirm, Due(c, "shown")', c \in up'
        PROVE  Due(r, "backdrop")' \/ Before(timers', <<c, "shown">>, <<r, "shown">>)
    <3>1. CASE c = d
      <4>1. Before(timers, <<c, "backdrop">>, <<r, "backdrop">>) BY <1>1, <1>4, <3>1 DEF Keyboard
      <4>2. In(timers, <<r, "backdrop">>) BY <4>1 DEF In, Before
      <4>3. r # d BY <3>1, DialogsDiffer
      <4> QED BY <1>4, <1>6, <4>2, <4>3 DEF Due
    <3>2. CASE c # d
      <4>1. In(T, <<c, "shown">>) /\ Due(c, "shown") /\ c \in up BY <1>2, <1>4, <1>6, <2>3, <3>2
      <4>2. Due(r, "backdrop") \/ Before(timers, <<c, "shown">>, <<r, "shown">>)
        BY <1>1, <4>1 DEF Keyboard
      <4>3. CASE r = d BY <1>6, <4>1, <4>3
      <4>4. CASE r # d
        <5>1. Due(r, "backdrop") => Due(r, "backdrop")' BY <1>4, <1>6, <4>4
        <5>2. Before(timers, <<c, "shown">>, <<r, "shown">>) =>
                Before(timers', <<c, "shown">>, <<r, "shown">>)
          BY <1>6, <1>7, <3>2
        <5> QED BY <4>2, <5>1, <5>2
      <4> QED BY <4>3, <4>4
    <3> QED BY <3>1, <3>2
  <2> QED BY <2>1, <2>2, <2>3
<1>13. Senders' /\ Haste' /\ ActiveIsOpen'
  BY <1>2, SameHaste DEF IInv, ActiveIsOpen, InTabs
<1> QED BY <1>6, <1>8, <1>9, <1>10, <1>11, <1>12, <1>13 DEF IInv

LEMMA TransitionCompleteStep ==
  ASSUME IInv, NEW d \in Dialog, TransitionComplete(d)
  PROVE  IInv'
<1>1. /\ TypeOK /\ Ordered /\ Screen /\ Elements /\ Frame /\ Keyboard
      /\ "shown" \in Phase /\ Ends(d, "shown")
  BY DEF IInv, Phase, TransitionComplete
<1>2. /\ shown' = shown /\ moving' = moving \ {d} /\ backdrop' = backdrop
      /\ boxes' = boxes /\ bodyOpen' = bodyOpen /\ up' = up /\ timers' = Tail(timers)
      /\ frame' = (IF d = Modal THEN "page" ELSE frame)
      /\ focus' = (IF d \notin up THEN focus ELSE IF d \in Confirm THEN d ELSE None)
      /\ loading' \subseteq loading \cup Querying
      /\ UNCHANGED <<tabs, active, leaving, req, from, asker, hasty>>
  BY DEF TransitionComplete, calls, Loads
<1> DEFINE T == Tail(timers)
<1>3. \A q \in Phase : In(T, <<d, q>>) => q \in {"hide", "hidden"}
  BY <1>1, EndsQueue DEF Follows
<1>4. \A e, q : Due(e, q) <=> In(T, <<e, q>>) \/ (e = d /\ q = "shown")
  BY <1>1, EndsQueue
<1>5. /\ timers' \in Seq(Dialog \X Phase) /\ Ordered'
      /\ \A e, q : Due(e, q)' <=> In(T, <<e, q>>)
  BY <1>1, <1>2, LastQueue
<1>6. \A x, y : Before(timers, x, y) <=> Before(T, x, y) \/ (x = <<d, "shown">> /\ In(T, y))
  BY <1>1, EndsQueue
<1>7. timers' = T BY <1>2
<1> HIDE DEF T
<1>8. TypeOK' BY <1>1, <1>2, <1>5 DEF TypeOK
<1>9. Screen'
  <2> SUFFICES ASSUME NEW e \in Dialog
               PROVE  /\ e \in shown' => e \in backdrop' /\ (e \in up' \/ Due(e, "backdrop")')
                      /\ e \in up' => e \in shown' \/ Due(e, "hide")'
                      /\ e \in moving' =>
                           Due(e, "backdrop")' \/ Due(e, "shown")' \/ Due(e, "hide")'
                      /\ e \in backdrop' => e \in shown' \/ Due(e, "hide")' \/ Due(e, "hidden")'
                      /\ \A p \in Phase : Due(e, p)' => e \in backdrop'
                      /\ Due(e, "hide")' \/ Due(e, "hidden")' => e \notin shown'
                      /\ Due(e, "backdrop")' /\ e \notin shown' => Due(e, "hide")'
    BY DEF Screen
  <2>1. CASE e = d
    <3>1. \A q : q # "shown" => (Due(e, q)' <=> Due(e, q)) BY <1>4, <1>5, <2>1
    <3>2. ~Due(e, "shown")' /\ Due(e, "shown") /\ ~Due(e, "backdrop")'
      BY <1>3, <1>4, <1>5, <2>1 DEF Phase
    <3> QED BY <1>1, <1>2, <2>1, <3>1, <3>2 DEF Screen, Phase
  <2>2. CASE e # d
    <3>1. \A p : Due(e, p)' <=> Due(e, p) BY <1>4, <1>5, <2>2
    <3>2. e \in moving' <=> e \in moving BY <1>2, <2>2
    <3> QED BY <1>1, <1>2, <3>1, <3>2 DEF Screen
  <2> QED BY <2>1, <2>2
<1>10. Elements' BY <1>1, <1>2 DEF Elements, InBoxes
<1>11. Frame'
  <2>1. CASE d = Modal
    <3>1. d \in backdrop BY <1>1, <1>4 DEF Screen
    <3> QED BY <1>2, <2>1, <3>1 DEF Frame
  <2>2. CASE d # Modal
    <3>1. \A p : Due(Modal, p)' <=> Due(Modal, p) BY <1>4, <1>5, <2>2
    <3> QED BY <1>1, <1>2, <2>2, <3>1 DEF Frame
  <2> QED BY <2>1, <2>2
<1>12. Keyboard'
  <2> SUFFICES ASSUME NEW r \in Request, r \in shown
               PROVE  /\ (\A p \in Phase : ~Due(r, p)') => focus' = None
                      /\ \A c \in Confirm :
                           /\ Due(c, "shown")' /\ c \in up' =>
                                \/ Due(r, "backdrop")'
                                \/ Before(timers', <<c, "shown">>, <<r, "shown">>)
                           /\ Due(c, "backdrop")' =>
                                Before(timers', <<c, "backdrop">>, <<r, "backdrop">>)
    BY <1>2 DEF Keyboard
  <2>1. ASSUME \A p \in Phase : ~Due(r, p)' PROVE focus' = None
    <3>1. CASE d = r
      <4>1. d \notin Confirm BY <3>1, DialogsDiffer
      <4>2. ~Due(d, "backdrop") BY <1>3, <1>4 DEF Phase
      <4>3. d \in up BY <1>1, <3>1, <4>2 DEF Screen
      <4> QED BY <1>2, <4>1, <4>3
    <3>2. CASE d # r
      <4>1. \A p \in Phase : ~Due(r, p) BY <1>4, <1>5, <2>1, <3>2
      <4>2. focus = None BY <1>1, <4>1 DEF Keyboard
      <4>3. ~Due(r, "backdrop") /\ ~In(timers, <<r, "shown">>) BY <4>1 DEF Phase, Due
      <4>4. d \in Confirm => d \notin up
        BY <1>1, <1>4, <4>3 DEF Keyboard, Before, In
      <4> QED BY <1>2, <4>2, <4>4
    <3> QED BY <3>1, <3>2
  <2>2. ASSUME NEW c \in Confirm, Due(c, "backdrop")'
        PROVE  Before(timers', <<c, "backdrop">>, <<r, "backdrop">>)
    <3>1. Due(c, "backdrop") BY <1>4, <1>5, <2>2
    <3>2. Before(timers, <<c, "backdrop">>, <<r, "backdrop">>) BY <1>1, <3>1 DEF Keyboard
    <3> QED BY <1>6, <1>7, <3>2
  <2>3. ASSUME NEW c \in Confirm, Due(c, "shown")', c \in up'
        PROVE  Due(r, "backdrop")' \/ Before(timers', <<c, "shown">>, <<r, "shown">>)
    <3>1. c # d BY <1>1, <1>3, <1>5, <2>3
    <3>2. Due(c, "shown") /\ c \in up BY <1>2, <1>4, <1>5, <2>3
    <3>3. Due(r, "backdrop") \/ Before(timers, <<c, "shown">>, <<r, "shown">>)
      BY <1>1, <3>2 DEF Keyboard
    <3>4. Due(r, "backdrop") => Due(r, "backdrop")' BY <1>4, <1>5
    <3>5. Before(timers, <<c, "shown">>, <<r, "shown">>) =>
            Before(timers', <<c, "shown">>, <<r, "shown">>)
      BY <1>6, <1>7, <3>1
    <3> QED BY <3>3, <3>4, <3>5
  <2> QED BY <2>1, <2>2, <2>3
<1>13. Senders' /\ Haste' /\ ActiveIsOpen'
  BY <1>2, SameHaste DEF IInv, ActiveIsOpen, InTabs
<1> QED BY <1>5, <1>8, <1>9, <1>10, <1>11, <1>12, <1>13 DEF IInv

LEMMA HideModalStep ==
  ASSUME IInv, NEW d \in Dialog, HideModal(d)
  PROVE  IInv'
<1>1. /\ TypeOK /\ Ordered /\ Screen /\ Elements /\ Frame /\ Keyboard
      /\ "hide" \in Phase /\ "hidden" \in Phase /\ Ends(d, "hide")
  BY DEF IInv, Phase, HideModal
<1>2. /\ shown' = shown /\ moving' = moving \ {d} /\ backdrop' = backdrop /\ boxes' = boxes
      /\ bodyOpen' = bodyOpen /\ up' = up \ {d} /\ frame' = frame
      /\ focus' \in {focus, None} /\ timers' = Append(Tail(timers), <<d, "hidden">>)
      /\ UNCHANGED <<tabs, active, leaving, loading, req, from, asker, hasty>>
  BY DEF HideModal, pages, calls, FocusWithout
<1> DEFINE T == Tail(timers)
<1>3. \A q \in Phase : In(T, <<d, q>>) => q = "shown" BY <1>1, EndsQueue DEF Follows
<1>4. \A e, q : Due(e, q) <=> In(T, <<e, q>>) \/ (e = d /\ q = "hide")
  BY <1>1, EndsQueue
<1>5. \A q \in Phase : <<"hide", q>> \in Follows => <<q, "hidden">> \in Follows
  BY DEF Follows
<1>6. /\ timers' \in Seq(Dialog \X Phase) /\ Ordered'
      /\ \A e, q : Due(e, q)' <=> In(T, <<e, q>>) \/ (e = d /\ q = "hidden")
      /\ \A x, y : Before(T, x, y) => Before(timers', x, y)
  BY <1>1, <1>2, <1>5, NextQueue
<1>7. \A x, y : Before(timers, x, y) <=> Before(T, x, y) \/ (x = <<d, "hide">> /\ In(T, y))
  BY <1>1, EndsQueue
<1> HIDE DEF T
<1>8. d \notin shown BY <1>1, <1>4 DEF Screen
<1>9. TypeOK' BY <1>1, <1>2, <1>6 DEF TypeOK
<1>10. Screen'
  <2> SUFFICES ASSUME NEW e \in Dialog
               PROVE  /\ e \in shown' => e \in backdrop' /\ (e \in up' \/ Due(e, "backdrop")')
                      /\ e \in up' => e \in shown' \/ Due(e, "hide")'
                      /\ e \in moving' =>
                           Due(e, "backdrop")' \/ Due(e, "shown")' \/ Due(e, "hide")'
                      /\ e \in backdrop' => e \in shown' \/ Due(e, "hide")' \/ Due(e, "hidden")'
                      /\ \A p \in Phase : Due(e, p)' => e \in backdrop'
                      /\ Due(e, "hide")' \/ Due(e, "hidden")' => e \notin shown'
                      /\ Due(e, "backdrop")' /\ e \notin shown' => Due(e, "hide")'
    BY DEF Screen
  <2>1. CASE e = d
    <3>1. ~Due(e, "backdrop")' /\ Due(e, "hidden")' /\ ~Due(e, "hide")'
      <4>1. \A q : Due(e, q)' <=> In(T, <<d, q>>) \/ q = "hidden" BY <1>6, <2>1
      <4>2. ~In(T, <<d, "backdrop">>) /\ ~In(T, <<d, "hide">>) BY <1>3 DEF Phase
      <4> QED BY <4>1, <4>2
    <3>2. e \in backdrop BY <1>1, <1>4, <2>1 DEF Screen
    <3> QED BY <1>2, <1>8, <2>1, <3>1, <3>2
  <2>2. CASE e # d
    <3>1. \A p : Due(e, p)' <=> Due(e, p) BY <1>4, <1>6, <2>2
    <3>2. (e \in up' <=> e \in up) /\ (e \in moving' <=> e \in moving) BY <1>2, <2>2
    <3> QED BY <1>1, <1>2, <3>1, <3>2 DEF Screen
  <2> QED BY <2>1, <2>2
<1>11. Elements' BY <1>1, <1>2 DEF Elements, InBoxes
<1>12. Frame'
  <2>1. Due(Modal, "backdrop") \/ Due(Modal, "shown") =>
          Due(Modal, "backdrop")' \/ Due(Modal, "shown")'
    BY <1>4, <1>6
  <2> QED BY <1>1, <1>2, <2>1 DEF Frame
<1>13. Keyboard'
  <2> SUFFICES ASSUME NEW r \in Request, r \in shown
               PROVE  /\ (\A p \in Phase : ~Due(r, p)') => focus' = None
                      /\ \A c \in Confirm :
                           /\ Due(c, "shown")' /\ c \in up' =>
                                \/ Due(r, "backdrop")'
                                \/ Before(timers', <<c, "shown">>, <<r, "shown">>)
                           /\ Due(c, "backdrop")' =>
                                Before(timers', <<c, "backdrop">>, <<r, "backdrop">>)
    BY <1>2 DEF Keyboard
  <2>1. r # d BY <1>8
  <2>2. \A p : Due(r, p)' <=> Due(r, p) BY <1>4, <1>6, <2>1
  <2>3. (\A p \in Phase : ~Due(r, p)') => focus' = None BY <1>1, <1>2, <2>2 DEF Keyboard
  <2>4. \A c : \A p \in {"shown", "backdrop"} : Due(c, p)' => Due(c, p) BY <1>4, <1>6
  <2>5. ASSUME NEW c, NEW p \in {"shown", "backdrop"}, NEW y, Before(timers, <<c, p>>, y)
        PROVE  Before(timers', <<c, p>>, y)
    BY <1>6, <1>7, <2>5
  <2> QED BY <1>1, <1>2, <2>2, <2>3, <2>4, <2>5 DEF Keyboard
<1>14. Senders' /\ Haste' /\ ActiveIsOpen'
  BY <1>2, SameHaste DEF IInv, ActiveIsOpen, InTabs
<1> QED BY <1>6, <1>9, <1>10, <1>11, <1>12, <1>13, <1>14 DEF IInv

\* A dialog that is gone: nothing of it is due any more.
LEMMA HiddenScreen ==
  ASSUME IInv, NEW d \in Dialog, Ends(d, "hidden"), timers' = Tail(timers),
         backdrop' = backdrop \ {d}, UNCHANGED <<shown, moving, up>>, focus' \in {focus, None}
  PROVE  /\ timers' \in Seq(Dialog \X Phase) /\ Ordered' /\ Screen' /\ Keyboard'
         /\ d \notin shown
         /\ \A e, q : e # d => (Due(e, q)' <=> Due(e, q))
<1>1. /\ TypeOK /\ Ordered /\ Screen /\ Keyboard /\ "hidden" \in Phase
  BY DEF IInv, Phase
<1>2. shown' = shown /\ moving' = moving /\ up' = up OBVIOUS
<1> DEFINE T == Tail(timers)
<1>3. \A q \in Phase : ~In(T, <<d, q>>) BY <1>1, EndsQueue DEF Follows
<1>4. \A e, q : Due(e, q) <=> In(T, <<e, q>>) \/ (e = d /\ q = "hidden")
  BY <1>1, EndsQueue
<1>5. /\ timers' \in Seq(Dialog \X Phase) /\ Ordered'
      /\ \A e, q : Due(e, q)' <=> In(T, <<e, q>>)
  BY <1>1, LastQueue
<1>6. \A x, y : Before(timers, x, y) <=> Before(T, x, y) \/ (x = <<d, "hidden">> /\ In(T, y))
  BY <1>1, EndsQueue
<1>7. timers' = T OBVIOUS
<1> HIDE DEF T
<1>8. /\ ~Due(d, "hide") /\ ~Due(d, "backdrop") /\ ~Due(d, "shown")
      /\ \A q \in Phase : ~Due(d, q)'
  BY <1>3, <1>4, <1>5 DEF Phase
<1>9. d \notin shown /\ d \notin up /\ d \notin moving BY <1>1, <1>4, <1>8 DEF Screen
<1>10. Screen'
  <2> SUFFICES ASSUME NEW e \in Dialog
               PROVE  /\ e \in shown' => e \in backdrop' /\ (e \in up' \/ Due(e, "backdrop")')
                      /\ e \in up' => e \in shown' \/ Due(e, "hide")'
                      /\ e \in moving' =>
                           Due(e, "backdrop")' \/ Due(e, "shown")' \/ Due(e, "hide")'
                      /\ e \in backdrop' => e \in shown' \/ Due(e, "hide")' \/ Due(e, "hidden")'
                      /\ \A p \in Phase : Due(e, p)' => e \in backdrop'
                      /\ Due(e, "hide")' \/ Due(e, "hidden")' => e \notin shown'
                      /\ Due(e, "backdrop")' /\ e \notin shown' => Due(e, "hide")'
    BY DEF Screen
  <2>1. CASE e = d BY <1>2, <1>8, <1>9, <2>1 DEF Phase
  <2>2. CASE e # d
    <3>1. \A p : Due(e, p)' <=> Due(e, p) BY <1>4, <1>5, <2>2
    <3>2. e \in backdrop' <=> e \in backdrop BY <2>2
    <3> QED BY <1>1, <1>2, <3>1, <3>2 DEF Screen
  <2> QED BY <2>1, <2>2
<1>11. Keyboard'
  <2> SUFFICES ASSUME NEW r \in Request, r \in shown
               PROVE  /\ (\A p \in Phase : ~Due(r, p)') => focus' = None
                      /\ \A c \in Confirm :
                           /\ Due(c, "shown")' /\ c \in up' =>
                                \/ Due(r, "backdrop")'
                                \/ Before(timers', <<c, "shown">>, <<r, "shown">>)
                           /\ Due(c, "backdrop")' =>
                                Before(timers', <<c, "backdrop">>, <<r, "backdrop">>)
    BY <1>2 DEF Keyboard
  <2>1. r # d BY <1>9
  <2>2. \A p : Due(r, p)' <=> Due(r, p) BY <1>4, <1>5, <2>1
  <2>3. (\A p \in Phase : ~Due(r, p)') => focus' = None BY <1>1, <2>2 DEF Keyboard
  <2>4. \A c, p : Due(c, p)' => Due(c, p) BY <1>4, <1>5
  <2>5. ASSUME NEW c, NEW p \in {"shown", "backdrop"}, NEW y, Before(timers, <<c, p>>, y)
        PROVE  Before(timers', <<c, p>>, y)
    <3>1. <<c, p>> # <<d, "hidden">> BY <2>5
    <3>2. Before(T, <<c, p>>, y) BY <1>6, <2>5, <3>1
    <3> QED BY <1>7, <3>2
  <2> QED BY <1>1, <1>2, <2>2, <2>3, <2>4, <2>5 DEF Keyboard
<1> QED BY <1>4, <1>5, <1>9, <1>10, <1>11

LEMMA HiddenBoxStep ==
  ASSUME IInv, NEW d \in Box, HiddenBox(d)
  PROVE  IInv'
<1>1. /\ TypeOK /\ Elements /\ Frame /\ d \in Dialog /\ d # Modal /\ Ends(d, "hidden")
  BY DEF IInv, HiddenBox, Dialog
<1>2. /\ shown' = shown /\ moving' = moving /\ up' = up /\ backdrop' = backdrop \ {d}
      /\ bodyOpen' = FALSE /\ frame' = frame /\ focus' = focus /\ timers' = Tail(timers)
      /\ UNCHANGED <<tabs, active, leaving, loading, req, from, asker, hasty>>
  BY DEF HiddenBox, pages, calls
<1>3. /\ timers' \in Seq(Dialog \X Phase) /\ Ordered' /\ Screen' /\ Keyboard'
      /\ \A q : Due(Modal, q)' <=> Due(Modal, q)
  BY <1>1, <1>2, HiddenScreen
<1>4. PICK i \in 1..Len(boxes) : boxes[i] = d /\ boxes' = Without(boxes, i) BY DEF HiddenBox
<1>5. /\ boxes' \in Seq(Box) /\ Len(boxes') = Len(boxes) - 1 /\ Len(boxes) \in Nat
      /\ \A j \in 1..Len(boxes) - 1 : boxes'[j] = IF j < i THEN boxes[j] ELSE boxes[j + 1]
  <2>1. boxes \in Seq(Box) BY <1>1 DEF TypeOK
  <2>2. /\ Without(boxes, i) \in Seq(Box) /\ Len(Without(boxes, i)) = Len(boxes) - 1
        /\ \A j \in 1..Len(boxes) - 1 :
             Without(boxes, i)[j] = IF j < i THEN boxes[j] ELSE boxes[j + 1]
    BY <2>1, WithoutIn
  <2> QED BY <1>4, <2>1, <2>2
<1>6. TypeOK' BY <1>1, <1>2, <1>3, <1>5 DEF TypeOK
<1>7. Elements'
  <2>1. ASSUME NEW b \in Box PROVE InBoxes(b)' <=> InBoxes(b) /\ b # d
    <3>1. ASSUME InBoxes(b)' PROVE InBoxes(b) /\ b # d
      <4>1. PICK j \in 1..Len(boxes') : boxes'[j] = b BY <3>1 DEF InBoxes
      <4>2. PICK k \in 1..Len(boxes) : boxes[k] = b /\ k # i BY <1>5, <4>1
      <4> QED BY <1>1, <1>4, <4>2 DEF InBoxes, Elements
    <3>2. ASSUME InBoxes(b), b # d PROVE InBoxes(b)'
      <4>1. PICK k \in 1..Len(boxes) : boxes[k] = b BY <3>2 DEF InBoxes
      <4>2. CASE k < i
        <5>1. k \in 1..Len(boxes') /\ boxes'[k] = b BY <1>5, <4>1, <4>2
        <5> QED BY <5>1 DEF InBoxes
      <4>3. CASE k > i
        <5>1. k - 1 \in 1..Len(boxes') /\ ~(k - 1 < i) /\ (k - 1) + 1 = k
          BY <1>5, <4>1, <4>3
        <5>2. boxes'[k - 1] = b BY <1>5, <4>1, <5>1
        <5> QED BY <5>1, <5>2 DEF InBoxes
      <4>4. k # i BY <1>4, <3>2, <4>1
      <4> QED BY <1>5, <4>2, <4>3, <4>4
    <3> QED BY <3>1, <3>2
  <2>2. \A b \in Box : InBoxes(b)' <=> b \in backdrop' BY <1>1, <1>2, <2>1 DEF Elements
  <2>3. ASSUME NEW j \in 1..Len(boxes'), NEW k \in 1..Len(boxes'), boxes'[j] = boxes'[k]
        PROVE  j = k
    <3> DEFINE a == IF j < i THEN j ELSE j + 1
               b == IF k < i THEN k ELSE k + 1
    <3>1. a \in 1..Len(boxes) /\ b \in 1..Len(boxes) /\ boxes[a] = boxes[b] BY <1>5, <2>3
    <3>2. a = b BY <1>1, <3>1 DEF Elements
    <3> QED BY <1>5, <3>2
  <2>4. ASSUME NEW j \in 1..Len(boxes'), boxes'[j] \in Confirm PROVE j = 1
    <3>1. CASE j < i BY <1>1, <1>5, <2>4, <3>1 DEF Elements
    <3>2. CASE ~(j < i)
      <4>1. j + 1 \in 1..Len(boxes) /\ boxes[j + 1] \in Confirm BY <1>5, <2>4, <3>2
      <4> QED BY <1>1, <1>5, <4>1 DEF Elements
    <3> QED BY <3>1, <3>2
  <2>5. \A r \in Request : r \in backdrop' => req'[r] # "unsent" BY <1>1, <1>2 DEF Elements
  <2> QED BY <1>2, <2>2, <2>3, <2>4, <2>5 DEF Elements
<1>8. Frame' BY <1>1, <1>2, <1>3 DEF Frame
<1>9. Senders' /\ Haste' /\ ActiveIsOpen'
  BY <1>2, SameHaste DEF IInv, ActiveIsOpen, InTabs
<1> QED BY <1>3, <1>6, <1>7, <1>8, <1>9 DEF IInv

LEMMA HiddenModalStep ==
  ASSUME IInv, HiddenModal
  PROVE  IInv'
<1>1. /\ TypeOK /\ Elements /\ Modal \in Dialog /\ Ends(Modal, "hidden") /\ Modal \notin Box
  BY DialogsDiffer DEF IInv, HiddenModal, Dialog, Box
<1>2. /\ shown' = shown /\ moving' = moving /\ up' = up /\ backdrop' = backdrop \ {Modal}
      /\ bodyOpen' = FALSE /\ frame' = "blank" /\ timers' = Tail(timers) /\ boxes' = boxes
      /\ focus' \in {focus, None} /\ req' = Unloaded({Modal})
      /\ from' = Unawaited({Modal}) /\ asker' = Unasked({Modal}) /\ hasty' = hasty
      /\ leaving' \subseteq leaving /\ loading' \subseteq loading
      /\ UNCHANGED <<tabs, active>>
  BY DEF HiddenModal, FocusWithout
<1>3. /\ timers' \in Seq(Dialog \X Phase) /\ Ordered' /\ Screen' /\ Keyboard'
      /\ Modal \notin shown
  BY <1>1, <1>2, HiddenScreen
<1>7. /\ req' \in [Request -> {"unsent", "sent", "answered", "lost"}]
      /\ from' \in [Request -> Page \cup {None}]
      /\ asker' \in [Confirm -> Page \cup {None}]
      /\ \A r \in Request : req[r] # "unsent" => req'[r] # "unsent"
      /\ Senders' /\ Haste'
  <2>1. Going(Modal) /\ Modal \in Page BY <1>3 DEF Going, Page
  <2> QED BY <1>2, <2>1, GoneHaste
<1>4. TypeOK' BY <1>1, <1>2, <1>3, <1>7 DEF TypeOK
<1>5. Elements'
  <2>1. \A r \in Request : req[r] # "unsent" => req'[r] # "unsent" BY <1>7
  <2>2. \A b \in Box : b \in backdrop' <=> b \in backdrop BY <1>1, <1>2
  <2>3. \A r \in Request : r \in backdrop' => req'[r] # "unsent"
    BY <1>1, <1>2, <2>1 DEF Elements
  <2> QED BY <1>1, <1>2, <2>2, <2>3 DEF Elements, InBoxes
<1>6. Frame' BY <1>2, <1>3 DEF Frame
<1>8. ActiveIsOpen' BY <1>2 DEF IInv, ActiveIsOpen, InTabs
<1> QED BY <1>3, <1>4, <1>5, <1>6, <1>7, <1>8 DEF IInv
-----------------------------------------------------------------------------
(* The theorems *)

LEMMA InitInvariant == Init => IInv
<1> SUFFICES ASSUME Init PROVE IInv OBVIOUS
<1>1. TypeOK
  <2>1. \A S : <<>> \in Seq(S) OBVIOUS
  <2>2. /\ req \in [Request -> {"unsent", "sent", "answered", "lost"}]
        /\ from \in [Request -> Page \cup {None}]
        /\ asker \in [Confirm -> Page \cup {None}]
    BY DEF Init
  <2> QED BY <2>1, <2>2 DEF Init, TypeOK
<1>2. Len(timers) = 0 /\ Len(boxes) = 0 BY DEF Init
<1>3. \A d, p : ~Due(d, p) BY <1>2 DEF Due, In
<1>4. Ordered BY <1>2 DEF Ordered, Before
<1>5. Screen /\ Frame /\ Keyboard BY <1>3 DEF Init, Screen, Frame, Keyboard
<1>6. Elements BY <1>2 DEF Init, Elements, InBoxes
<1>7. Senders /\ Haste /\ ActiveIsOpen
  BY DEF Init, Senders, Haste, StuckOnlyIfHasty, ActiveIsOpen
<1> QED BY <1>1, <1>4, <1>5, <1>6, <1>7 DEF IInv

LEMMA NextInvariant == IInv /\ [Next]_vars => IInv'
<1> SUFFICES ASSUME IInv, [Next]_vars PROVE IInv' OBVIOUS
<1>1. ASSUME NEW p \in Page, NEW r \in Request, Press(p, r) PROVE IInv' BY <1>1, PressStep
<1>2. ASSUME NEW t \in Program, NEW c \in Confirm, Ask(t, c) PROVE IInv' BY <1>2, AskStep
<1>3. ASSUME NEW c \in Confirm, Decline(c) PROVE IInv' BY <1>3, DeclineStep
<1>4. ASSUME NEW c \in Confirm, NEW r \in Request, Agree(c, r) PROVE IInv' BY <1>4, AgreeStep
<1>5. ASSUME NEW t \in Program, OpenModal(t) PROVE IInv' BY <1>5, OpenModalStep
<1>6. ASSUME NEW t \in Program, AddTab(t) PROVE IInv' BY <1>6, AddTabStep
<1>7. ASSUME NEW t \in Program, CloseTab(t) PROVE IInv' BY <1>7, CloseTabStep
<1>8. ASSUME NEW t \in Program, SwitchTab(t) PROVE IInv' BY <1>8, SwitchTabStep
<1>9. CASE CloseModal BY <1>9, CloseModalStep
<1>10. CASE User
  BY <1>1, <1>2, <1>3, <1>4, <1>5, <1>6, <1>7, <1>8, <1>9, <1>10, RefreshStep DEF User
<1>11. CASE Tick
  BY <1>11, ShowElementStep, TransitionCompleteStep, HideModalStep, HiddenBoxStep,
     HiddenModalStep DEF Tick
<1>12. CASE \E r \in Request : Answers(r)
  BY <1>12, AnswerStep, AnswerAndFollowStep DEF Answers
<1>13. CASE UNCHANGED vars
  BY <1>13 DEF vars, IInv, TypeOK, Ordered, Screen, Elements, Frame, Keyboard, Senders,
     Haste, Going, StuckOnlyIfHasty, ActiveIsOpen, Due, InBoxes, InTabs
<1>14. CASE Load BY <1>14, UnloadStep, ReadyStep DEF Load
<1> QED BY <1>10, <1>11, <1>12, <1>13, <1>14 DEF Next

\* Every state of the page satisfies the inductive invariant: the flags of a dialog,
\* its element and its backdrop differ only as far as a transition under way will
\* settle it, and no button has the keyboard under a wait dialog that has come up.
THEOREM Invariant == Spec => []IInv
<1> QED BY InitInvariant, NextInvariant, PTL DEF Spec

\* The variables of the page keep their types.
THEOREM TypeCorrect == Spec => []TypeOK
<1>1. IInv => TypeOK BY DEF IInv
<1> QED BY <1>1, Invariant, PTL

\* Whatever was shown, hidden, answered and closed in whatever order: once the
\* transitions have ended, dialogs, backdrops and elements are those of the shown.
THEOREM ScreenClean == Spec => []AtRestClean
<1>1. IInv => AtRestClean
  <2> SUFFICES ASSUME IInv, timers = <<>>
               PROVE  /\ backdrop = shown /\ up = shown /\ moving = {}
                      /\ \A d \in Box : InBoxes(d) <=> d \in shown
                      /\ bodyOpen => shown # {}
    BY DEF AtRestClean
  <2>1. \A d, p : ~Due(d, p) BY DEF Due, In
  <2>2. \A d \in Dialog :
          /\ d \in shown <=> d \in backdrop
          /\ d \in shown <=> d \in up
          /\ d \notin moving
    BY <2>1 DEF IInv, Screen
  <2>3. /\ shown \subseteq Dialog /\ moving \subseteq Dialog
        /\ up \subseteq Dialog /\ backdrop \subseteq Dialog
    BY DEF IInv, TypeOK
  <2>4. backdrop = shown BY <2>2, <2>3
  <2>5. up = shown BY <2>2, <2>3
  <2>6. moving = {} BY <2>2, <2>3
  <2> QED BY <2>4, <2>5, <2>6 DEF IInv, Elements
<1> QED BY <1>1, Invariant, PTL

\* At rest the modal's iframe holds a page exactly while the modal is shown.
THEOREM ModalPage == Spec => []ModalPageMatches
<1>1. IInv => ModalPageMatches
  <2> SUFFICES ASSUME IInv, timers = <<>>
               PROVE  frame = "page" <=> Modal \in shown
    BY DEF ModalPageMatches
  <2>1. \A d, p : ~Due(d, p) BY DEF Due, In
  <2>2. Modal \in backdrop => Modal \in shown BY <2>1 DEF IInv, Screen, Dialog
  <2> QED BY <2>1, <2>2 DEF IInv, Frame
<1> QED BY <1>1, Invariant, PTL

\* The tab that is shown is open, whichever tabs were opened and closed.
THEOREM ActiveOpen == Spec => []ActiveIsOpen
<1>1. IInv => ActiveIsOpen BY DEF IInv
<1> QED BY <1>1, Invariant, PTL

\* A wait dialog stays for ever only for a request that a page on its way out has sent,
\* or whose page was sent away before the wait dialog was up.
THEOREM StuckIsHasty == Spec => []StuckOnlyIfHasty
<1>1. IInv => StuckOnlyIfHasty BY DEF IInv, Haste
<1> QED BY <1>1, Invariant, PTL

LEMMA AnswersAnswer ==
  ASSUME TypeOK, NEW r \in Request, Answers(r)
  PROVE  Answered
<1>1. req \in [Request -> {"unsent", "sent", "answered", "lost"}] BY DEF TypeOK
<1>2. ASSUME Answer(r) PROVE req[r] = "sent" /\ req'[r] = "answered"
  BY <1>1, <1>2 DEF Answer, Done
<1>3. ASSUME AnswerAndReload(r) PROVE req[r] = "sent" /\ req'[r] = "answered"
  BY <1>1, <1>3 DEF AnswerAndReload, Done
<1>4. ASSUME NEW next \in Request, AnswerAndFollow(r, next)
      PROVE  req[r] = "sent" /\ req'[r] = "answered"
  <2>1. req[r] = "sent" /\ req[next] = "unsent" BY <1>4 DEF AnswerAndFollow, Fresh
  <2>2. r # next BY <2>1
  <2> QED BY <1>1, <1>4, <2>1, <2>2 DEF AnswerAndFollow
<1> QED BY <1>2, <1>3, <1>4 DEF Answers, Answered

\* A wait dialog leaves a request that is under way only when another is answered.
THEOREM WaitCovers == Spec => WaitCoversRequest
<1>1. ASSUME IInv, [Next]_vars, NEW r \in Request,
             req[r] = "sent", r \in shown, r \notin shown', req'[r] = "sent"
      PROVE  Answered
  <2>1. \A c \in Confirm : c # r BY DialogsDiffer
  <2>2. ASSUME NEW q \in Request, Answers(q) PROVE Answered
    BY <1>1, <2>2, AnswersAnswer DEF IInv
  <2>3. ~User
    BY <1>1, <2>1, DialogsDiffer DEF User, Press, Ask, Decline, Agree, OpenModal, AddTab,
       CloseTab, SwitchTab, CloseModal, Refresh, Hideable, screen
  <2>4. ~Tick /\ ~Load /\ ~UNCHANGED vars
    BY <1>1 DEF Tick, ShowElement, TransitionComplete, HideModal, HiddenBox, HiddenModal,
       Load, Unload, Ready, screen, vars
  <2> QED BY <1>1, <2>2, <2>3, <2>4 DEF Next
<1>2. IInv /\ [Next]_vars =>
        [\A r \in Request :
          req[r] = "sent" /\ r \in shown /\ r \notin shown' /\ req'[r] = "sent"
          => Answered]_vars
  BY <1>1
<1> QED BY <1>2, Invariant, PTL DEF Spec, WaitCoversRequest

\* Under a wait dialog that has come up no input, by mouse or keyboard, sends a request:
\* the page of an answered request may, and one that has just loaded.
THEOREM SettledProtects == Spec => SettledWaitProtects
<1> DEFINE Heir(q) == \E a \in Request :
                           req[a] = "sent" /\ req'[a] = "answered" /\ from[a] = from'[q]
<1>1. ASSUME IInv, [Next]_vars, NEW q \in Request,
             \E r \in Request : Settled(r), req[q] = "unsent", req'[q] = "sent"
      PROVE  Heir(q) \/ from'[q] \in loading \ loading'
  <2>0. PICK r \in Request : Settled(r) BY <1>1
  <2>1. r \in shown /\ \A p \in Phase : ~Due(r, p) BY <2>0 DEF Settled, Due, In
  <2>2. /\ focus = None /\ \A p \in Page : ~PageReached(p)
        /\ \A c \in Confirm : ~BoxReached(c)
    BY <1>1, <2>1, NothingReached
  <2>3. TypeOK BY <1>1 DEF IInv
  <2>4. req' # req /\ \A gone : req' # Unloaded(gone) BY <1>1 DEF Unloaded
  <2>5. ASSUME NEW f \in Request, Answers(f) PROVE Heir(q)
    <3>1. ~Answer(f) /\ ~AnswerAndReload(f)
      BY <1>1, <2>3 DEF Answer, AnswerAndReload, Done, TypeOK
    <3>2. PICK next \in Request : AnswerAndFollow(f, next) BY <2>5, <3>1 DEF Answers
    <3>3. req[f] = "sent" /\ req[next] = "unsent" /\ f # next
      BY <3>2 DEF AnswerAndFollow, Fresh
    <3>4. req'[f] = "answered" /\ from'[next] = from[f]
      BY <2>3, <3>2, <3>3 DEF AnswerAndFollow, TypeOK
    <3>5. q = next BY <1>1, <2>3, <3>2 DEF AnswerAndFollow, TypeOK
    <3> QED BY <3>3, <3>4, <3>5
  <2>6. ~User
    <3>1. \A p \in Page, f \in Request : ~Press(p, f)
      BY <2>2, DialogsDiffer DEF Press, Page
    <3>2. \A c \in Confirm, f \in Request : ~Agree(c, f)
      BY <2>2, DialogsDiffer DEF Agree
    <3> QED BY <2>4, <3>1, <3>2 DEF User, Ask, Decline, OpenModal, AddTab, CloseTab,
          SwitchTab, CloseModal, Refresh, calls
  <2>7. ~Tick /\ ~UNCHANGED vars
    BY <2>4 DEF Tick, ShowElement, TransitionComplete, HideModal, HiddenBox, HiddenModal,
       vars, calls
  <2>8. ASSUME Load PROVE from'[q] \in loading \ loading'
    <3>1. PICK p \in Page, f \in Request : Ready(p, f) BY <2>4, <2>8 DEF Load, Unload
    <3>2. q = f BY <1>1, <2>3, <3>1 DEF Ready, TypeOK
    <3> QED BY <2>3, <3>1, <3>2 DEF Ready, TypeOK
  <2> QED BY <1>1, <2>5, <2>6, <2>7, <2>8 DEF Next
<1>2. IInv /\ [Next]_vars =>
        [\A q \in Request :
          (\E r \in Request : Settled(r)) /\ req[q] = "unsent" /\ req'[q] = "sent"
          => \/ \E a \in Request :
                  req[a] = "sent" /\ req'[a] = "answered" /\ from[a] = from'[q]
             \/ from'[q] \in loading \ loading']_vars
  BY <1>1
<1> QED BY <1>2, Invariant, PTL DEF Spec, SettledWaitProtects
-----------------------------------------------------------------------------
(* Progress *)

\* The transition at the head of the queue can always end: its dialog is one, and a
\* bootbox element that is to be removed is still in the document.  So the handlers
\* of the transitions never wait for each other, or for the user.
THEOREM TransitionsCanEnd ==
  Spec => [](timers # <<>> =>
               \E d \in Dialog :
                 \/ \E p \in {"backdrop", "shown", "hide"} : Ends(d, p)
                 \/ Ends(d, "hidden") /\ (d = Modal \/ InBoxes(d)))
<1>1. IInv /\ timers # <<>> =>
        \E d \in Dialog :
          \/ \E p \in {"backdrop", "shown", "hide"} : Ends(d, p)
          \/ Ends(d, "hidden") /\ (d = Modal \/ InBoxes(d))
  <2> SUFFICES ASSUME IInv, timers # <<>>
               PROVE  \E d \in Dialog :
                        \/ \E p \in {"backdrop", "shown", "hide"} : Ends(d, p)
                        \/ Ends(d, "hidden") /\ (d = Modal \/ InBoxes(d))
    OBVIOUS
  <2>1. timers \in Seq(Dialog \X Phase)
    BY DEF IInv, TypeOK
  <2>2. Head(timers) \in Dialog \X Phase /\ 1 \in 1..Len(timers) /\ timers[1] = Head(timers)
    BY <2>1
  <2>3. PICK d \in Dialog, p \in Phase : Head(timers) = <<d, p>>
    BY <2>2
  <2>4. Ends(d, p) /\ Due(d, p)
    BY <2>2, <2>3 DEF Ends, Due, In
  <2>5. d \in backdrop
    BY <2>4 DEF IInv, Screen
  <2>6. d = Modal \/ InBoxes(d)
    BY <2>5 DEF IInv, Elements, Dialog
  <2> QED BY <2>4, <2>6 DEF Phase
<1> QED BY <1>1, Invariant, PTL

\* The dialogs that hideAll hides are all the bootbox dialogs that are shown.
LEMMA HideAllShown ==
  ASSUME IInv
  PROVE  HideAll = shown \cap Box
<1>1. \A d \in Box : d \in shown => InBoxes(d)
  BY DEF IInv, Screen, Elements, Dialog
<1> QED BY <1>1 DEF HideAll, Hideable

\* What an answer leaves on the screen: its own follow-up.
LEMMA AnswerLeaves ==
  ASSUME IInv, NEW r \in Request, Answers(r)
  PROVE  /\ r \notin shown'
         /\ \A d \in shown' \cap Box : d \in Request /\ req[d] = "unsent" /\ req'[d] = "sent"
<1>1. req \in [Request -> {"unsent", "sent", "answered", "lost"}] /\ shown \subseteq Dialog
  BY DEF IInv, TypeOK
<1>2. r \in Box
  BY DEF Box
<1>3. CASE Answer(r) \/ AnswerAndReload(r)
  BY <1>2, <1>3, HideAllShown DEF Answer, AnswerAndReload
<1>4. ASSUME NEW next \in Request, AnswerAndFollow(r, next)
      PROVE  /\ r \notin shown'
             /\ \A d \in shown' \cap Box : d \in Request /\ req[d] = "unsent" /\ req'[d] = "sent"
  <2>1. req[r] = "sent" /\ req[next] = "unsent" /\ req'[next] = "sent"
    BY <1>1, <1>4 DEF AnswerAndFollow, Fresh
  <2>2. shown' = (shown \ HideAll) \cup {next}
    BY <1>4 DEF AnswerAndFollow
  <2> QED BY <1>2, <2>1, <2>2, HideAllShown
<1> QED BY <1>3, <1>4 DEF Answers

\* What every other step does to a request: it may send or lose it.
LEMMA OthersSend ==
  ASSUME TypeOK, [Next]_vars, NEW r \in Request, ~ \E q \in Request : Answers(q)
  PROVE  \/ req'[r] = req[r]
         \/ req'[r] = "sent" /\ req[r] = "unsent"
         \/ req'[r] = "lost" /\ req[r] = "sent"
<1>1. req \in [Request -> {"unsent", "sent", "answered", "lost"}]
  BY DEF TypeOK
<1>2. ASSUME NEW gone, req' = Unloaded(gone)
      PROVE  req'[r] = req[r] \/ (req'[r] = "lost" /\ req[r] = "sent")
  BY <1>1, <1>2 DEF Unloaded
<1>3. ASSUME NEW q \in Request, Fresh(q), req' = [req EXCEPT ![q] = "sent"]
      PROVE  req'[r] = req[r] \/ (req'[r] = "sent" /\ req[r] = "unsent")
  BY <1>1, <1>3 DEF Fresh
<1>4. CASE User
  <2>1. ASSUME NEW p \in Page, NEW q \in Request, Press(p, q)
        PROVE  Fresh(q) /\ req' = [req EXCEPT ![q] = "sent"]
    BY <2>1 DEF Press
  <2>2. ASSUME NEW c \in Confirm, NEW q \in Request, Agree(c, q)
        PROVE  Fresh(q) /\ req' = [req EXCEPT ![q] = "sent"]
    BY <2>2 DEF Agree
  <2>3. ASSUME NEW t \in Program, CloseTab(t) PROVE req' = Unloaded({t})
    BY <2>3 DEF CloseTab
  <2>4. ASSUME NEW t \in Program, OpenModal(t) \/ AddTab(t) \/ SwitchTab(t) PROVE req' = req
    BY <2>4 DEF OpenModal, AddTab, SwitchTab, calls
  <2>5. ASSUME NEW c \in Confirm, Decline(c) \/ \E t \in Program : Ask(t, c) PROVE req' = req
    BY <2>5 DEF Decline, Ask, calls
  <2>6. ASSUME CloseModal \/ \E p \in Page : Refresh(p) PROVE req' = req
    BY <2>6 DEF CloseModal, Refresh
  <2> QED BY <1>2, <1>3, <1>4, <2>1, <2>2, <2>3, <2>4, <2>5, <2>6 DEF User
<1>5. CASE Tick \/ UNCHANGED vars
  <2>1. req' = req \/ req' = Unloaded({Modal})
    BY <1>5 DEF Tick, ShowElement, TransitionComplete, HideModal, HiddenBox, HiddenModal,
       vars, calls
  <2> QED BY <1>2, <2>1
<1>6. CASE Load
  <2>1. ASSUME NEW p \in Page, Unload(p) PROVE req' = Unloaded({p})
    BY <2>1 DEF Unload
  <2>2. ASSUME NEW p \in Page, NEW q \in Request, Ready(p, q)
        PROVE  Fresh(q) /\ req' = [req EXCEPT ![q] = "sent"]
    BY <2>2 DEF Ready
  <2> QED BY <1>2, <1>3, <1>6, <2>1, <2>2 DEF Load
<1> QED BY <1>4, <1>5, <1>6 DEF Next

\* hideAll takes the answered request at its word: an answer hides every confirm
\* dialog and the wait dialogs of all other requests, and what is shown of bootbox
\* after it is at most the wait dialog of the follow-up that it has just sent.
THEOREM AnswerHidesAll ==
  Spec => [][Answered =>
               \A d \in shown' \cap Box :
                 d \in Request /\ req[d] = "unsent" /\ req'[d] = "sent"]_vars
<1>1. ASSUME IInv, [Next]_vars, Answered, NEW d \in shown' \cap Box
      PROVE  d \in Request /\ req[d] = "unsent" /\ req'[d] = "sent"
  <2>1. PICK r \in Request : req[r] = "sent" /\ req'[r] = "answered"
    BY <1>1 DEF Answered
  <2>2. PICK q \in Request : Answers(q)
    BY <1>1, <2>1, OthersSend DEF IInv
  <2> QED BY <1>1, <2>2, AnswerLeaves
<1>2. IInv /\ [Next]_vars =>
        [Answered =>
           \A d \in shown' \cap Box :
             d \in Request /\ req[d] = "unsent" /\ req'[d] = "sent"]_vars
  BY <1>1
<1> QED BY <1>2, Invariant, PTL DEF Spec

\* The fairness WF_vars(Answers(r)) with its guard written out: a request that is
\* under way is answered or times out.
Runs(r) == []<>(req[r] # "sent") \/ []<><<Answers(r)>>_vars

LEMMA FairAnswersRun ==
  ASSUME NEW r \in Request
  PROVE  WF_vars(Answers(r)) /\ [](req[r] # "sent" \/ ENABLED <<Answers(r)>>_vars)
           => Runs(r)
BY PTL DEF Runs

\* Every wait dialog is told to hide, by its own answer at the latest, unless its
\* request is lost with its page: the part of WaitEnds that the transitions which
\* follow do not enter.
THEOREM WaitIsHidden ==
  Spec /\ (\A r \in Request : Runs(r))
    => \A r \in Request :
         (req[r] = "sent" /\ r \in shown) ~> (r \notin shown \/ req[r] = "lost")
<1> SUFFICES ASSUME NEW r \in Request
             PROVE  Spec /\ (\A q \in Request : Runs(q))
                      => ((req[r] = "sent" /\ r \in shown) ~> (r \notin shown \/ req[r] = "lost"))
  OBVIOUS
<1> DEFINE Waiting == req[r] = "sent" /\ r \in shown
           Over == r \notin shown \/ req[r] = "lost"
           Quiet == req[r] # "sent"
<1>1. IInv /\ Waiting /\ [Next]_vars => Waiting' \/ Over'
  <2> SUFFICES ASSUME IInv, Waiting, [Next]_vars PROVE Waiting' \/ Over'
    OBVIOUS
  <2>1. CASE Answers(r)
    BY <2>1, AnswerLeaves
  <2>2. ASSUME NEW q \in Request, q # r, Answers(q) PROVE Over'
    <3>1. r \in Box
      BY DEF Box
    <3> QED BY <2>2, <3>1, AnswerLeaves
  <2>3. CASE ~ \E q \in Request : Answers(q)
    BY <2>3, OthersSend DEF IInv
  <2> QED BY <2>1, <2>2, <2>3
<1>2. IInv /\ Waiting /\ [Next]_vars /\ <<Answers(r)>>_vars => Over'
  BY AnswerLeaves
<1>3. Waiting => ~Quiet
  OBVIOUS
<1>4. (\A q \in Request : Runs(q)) => Runs(r)
  OBVIOUS
<1>5. Runs(r) => []<>Quiet \/ []<><<Answers(r)>>_vars
  BY DEF Runs
<1> HIDE DEF Waiting, Over, Quiet
<1>6. Spec /\ Runs(r) => (Waiting ~> Over)
  BY <1>1, <1>2, <1>3, <1>5, Invariant, PTL DEF Spec
<1>7. Spec /\ (\A q \in Request : Runs(q)) => (Waiting ~> Over)
  BY <1>4, <1>6
<1> QED BY <1>7 DEF Waiting, Over
=============================================================================
