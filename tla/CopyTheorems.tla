---------------------------- MODULE CopyTheorems ----------------------------
(***************************************************************************)
(* The safety invariants of BufferCopy for any data, any size of the       *)
(* mapping, the pages, the chunks and the words that SizeAssumption lets.  *)
(***************************************************************************)
EXTENDS BufferCopy, TLAPS

-----------------------------------------------------------------------------
(* The inductive invariant *)

\* Where the buffer at s ends in a mapping with buffers at the addresses D.
IsEnd(D, s, e) ==
  /\ e \in Int /\ s < e /\ e <= Space /\ (e \in D \/ e = Space)
  /\ \A t \in D : t > s => e <= t

Used(s) == s \in Starts /\ ~buffers[s].free

\* A buffer in use ends behind its text.
Layout ==
  /\ buffers \in [Starts -> [text : Seq(Nat), free : BOOLEAN]]
  /\ Starts \subseteq 0 .. Space - 1
  /\ \A s \in Starts : \E e \in Int : IsEnd(Starts, s, e)
  /\ \A s \in Starts : ~buffers[s].free => End(s) = s + Room(Text(s))

Contents ==
  /\ mem \in [0 .. Space - 1 -> Nat]
  /\ \A s \in Starts : ~buffers[s].free =>
       \A i \in 1 .. Len(Text(s)) : mem[s + i - 1] = Text(s)[i]

Backed == \A s \in Starts : ~buffers[s].free => PagesOf(s, End(s)) \subseteq pages

Running == {"check", "next", "checked", "copy"}

Places ==
  /\ at \in Running \cup {"idle", "return"} /\ which \in {1, 2} /\ result \in BOOLEAN
  /\ IF at = "idle" THEN b = <<>>
     ELSE b \in Starts \X Starts /\ Used(b[1]) /\ Used(b[2])

\* What has been compared is equal, and a whole number of words.
Progress ==
  at \in Running =>
    /\ Len(Text(b[1])) = Len(Text(b[2]))
    /\ pos \in Nat /\ pos < total /\ pos % WORD = 0
    /\ \A i \in 1 .. pos : Text(b[1])[i] = Text(b[2])[i]

\* What has been copied is what the buffer holds at pos.
Copies ==
  at \in Running =>
    /\ copied \in Seq(Nat) \X Seq(Nat)
    /\ \A w \in {1, 2} : /\ Len(copied[w]) <= chunk
                         /\ \A i \in 1 .. Len(copied[w]) : copied[w][i] = Text(b[w])[pos + i]
    /\ which = 1 => copied[2] = <<>>
    /\ which = 2 => Len(copied[1]) = chunk
    /\ at # "copy" => copied[which] = <<>>

\* No change of the list makes rk_binder_alloc_buffer_size return anything
\* but the buffer's size.
Sized ==
  /\ at = "next" => Behind(b[which]) # {}
  /\ at = "checked" => size = End(b[which]) - b[which]

CInv == Layout /\ Contents /\ Backed /\ Places /\ Progress /\ Copies /\ Sized /\ CompareExact

-----------------------------------------------------------------------------
(* Arithmetic of words and pages *)

(* Quotient and remainder. *)
LEMMA DivMod ==
  ASSUME NEW P \in Nat \ {0}, NEW a \in Nat
  PROVE  /\ a \div P \in Nat /\ a % P \in 0 .. P - 1
         /\ a = P * (a \div P) + (a % P) /\ P * (a \div P) \in Nat
  BY SMT

(* There is one quotient. *)
LEMMA DivUnique ==
  ASSUME NEW P \in Nat \ {0}, NEW a \in Nat, NEW q \in Nat, P * q <= a, a < P * q + P
  PROVE  a \div P = q
  BY SMT

(* An address that is not behind the end of a page is in the page. *)
LEMMA SamePage ==
  ASSUME NEW P \in Nat \ {0}, NEW a \in Nat, NEW n \in Nat, n < P - (a % P)
  PROVE  (a + n) \div P = a \div P
<1> DEFINE q == a \div P
           m == P * q
           r == a % P
<1>1. q \in Nat /\ r \in 0 .. P - 1 /\ a = m + r /\ m \in Nat
  BY Zenon, DivMod
<1>2. n < P - r
  OBVIOUS
<1>3. m <= a + n /\ a + n < m + P /\ a + n \in Nat
  <2> HIDE DEF q, m, r
  <2> QED
    BY SMT, <1>1, <1>2
<1> HIDE DEF q
<1> QED
  BY Zenon, <1>1, <1>3, DivUnique DEF q

(* The chunks before the last one are whole words. *)
LEMMA WordsAdd ==
  ASSUME NEW W \in Nat \ {0}, NEW m \in Nat, NEW n \in Nat, m % W = 0, n % W = 0
  PROVE  (m + n) % W = 0
<1> DEFINE p == m \div W
           q == n \div W
<1>1. p \in Nat /\ q \in Nat /\ m = W * p /\ n = W * q
  BY SMT, DivMod
<1>2. m + n = W * (p + q) /\ p + q \in Nat
  <2> HIDE DEF p, q
  <2> QED
    BY SMT, <1>1
<1> DEFINE k == p + q
           a == m + n
<1>3. k \in Nat /\ a \in Nat /\ W * k = a
  BY SMT, <1>2
<1>4. W * k <= a /\ a < W * k + W
  <2> HIDE DEF k, a
  <2> QED
    BY SMT, <1>3
<1> HIDE DEF k, a
<1>5. a \div W = k
  BY Zenon, <1>3, <1>4, DivUnique
<1>6. a = W * (a \div W) + (a % W) /\ a % W \in 0 .. W - 1
  BY Zenon, <1>3, DivMod
<1>7. a % W = 0
  BY SMT, <1>3, <1>5, <1>6
<1> QED
  BY Zenon, <1>7 DEF a

(* A buffer has room for its text. *)
LEMMA RoomFacts ==
  ASSUME NEW text \in Seq(Nat)
  PROVE  Room(text) \in Nat /\ Room(text) > 0 /\ Len(text) <= Room(text)
<1> DEFINE n == Len(text)
           x == n + WORD - 1
           q == x \div WORD
           m == WORD * q
<1>1. n \in Nat /\ WORD \in Nat \ {0}
  BY SMT, SizeAssumption
<1>2. x \in Nat
  BY SMT, <1>1
<1>3. q \in Nat /\ x % WORD \in 0 .. WORD - 1 /\ x = m + (x % WORD) /\ m \in Nat
  BY Zenon, <1>1, <1>2, DivMod
<1>4. n <= m
  <2> DEFINE r == x % WORD
  <2>1. r \in 0 .. WORD - 1 /\ n + WORD - 1 = m + r
    BY Zenon, <1>3
  <2> HIDE DEF n, m, r
  <2> QED
    BY SMT, <1>1, <1>3, <2>1
<1>5. Room(text) = WORD * (IF q = 0 THEN 1 ELSE q)
  BY Zenon DEF Room, Words
<1>6. CASE q = 0
  <2>1. m = 0 /\ Room(text) = WORD
    BY SMT, <1>1, <1>5, <1>6
  <2> QED
    BY SMT, <1>1, <1>4, <2>1
<1>7. CASE q # 0
  <2>1. Room(text) = m /\ m > 0
    BY SMT, <1>1, <1>3, <1>5, <1>7
  <2> QED
    BY SMT, <1>3, <1>4, <2>1
<1> QED
  BY Zenon, <1>6, <1>7

\* What End reads of the list, for buffers at the addresses D.
BehindIn(D, s) == {t \in D : t > s}
LastIn(D, s) == BehindIn(D, s) = {}
EndIn(D, s) == IF BehindIn(D, s) = {} THEN Space
               ELSE CHOOSE t \in BehindIn(D, s) : \A u \in BehindIn(D, s) : t <= u

(* The end of a buffer is where the next one in the list starts. *)
LEMMA EndUnfold == \A s : End(s) = EndIn(Starts, s) /\ End(s)' = EndIn(Starts', s)
  BY Zenon DEF End, EndIn, Behind, BehindIn, Starts

(* What is behind the buffer and in front of every other one is its end. *)
LEMMA EndIs ==
  ASSUME NEW D, D \subseteq 0 .. Space - 1, NEW s \in D, NEW e, IsEnd(D, s, e)
  PROVE  EndIn(D, s) = e
<1> DEFINE B == BehindIn(D, s)
<1> USE DEF BehindIn
<1>0. Space \in Nat
  BY SMT, SizeAssumption
<1>1. CASE B = {}
  BY SMT, <1>0, <1>1 DEF IsEnd, EndIn
<1>2. CASE B # {}
  <2>1. e \in D
    <3>1. PICK t \in B : TRUE
      BY Zenon, <1>2
    <3>2. e <= t /\ t < Space /\ t \in Int /\ e \in Int /\ (e \in D \/ e = Space)
      BY SMT, <1>0, <3>1 DEF IsEnd
    <3> QED
      BY SMT, <1>0, <3>2
  <2>2. e \in B /\ \A u \in B : e <= u
    BY SMT, <1>0, <2>1 DEF IsEnd
  <2>3. EndIn(D, s) = CHOOSE t \in B : \A u \in B : t <= u
    BY Zenon, <1>2 DEF EndIn
  <2> DEFINE c == CHOOSE t \in B : \A u \in B : t <= u
  <2>4. c \in B /\ \A u \in B : c <= u
    BY Zenon, <2>2
  <2>5. c <= e /\ e <= c
    BY Zenon, <2>2, <2>4
  <2>6. c \in Int /\ e \in Int
    <3>1. c \in D
      BY Zenon, <2>4
    <3> HIDE DEF c
    <3> QED
      BY SMT, <1>0, <2>1, <3>1
  <2> HIDE DEF c
  <2>7. c = e
    BY SMT, <2>5, <2>6
  <2> QED
    BY Zenon, <2>3, <2>7 DEF c
<1> QED
  BY Zenon, <1>1, <1>2

(* A buffer that is split ends at the new one, which ends where it ended. *)
LEMMA EndAdd ==
  ASSUME NEW D, D \subseteq 0 .. Space - 1, NEW s \in D, NEW e, IsEnd(D, s, e),
         NEW x \in Int, s < x, x < e
  PROVE  /\ IsEnd(D \cup {x}, s, x) /\ IsEnd(D \cup {x}, x, e)
         /\ \A t \in D, g \in Int : t # s /\ IsEnd(D, t, g) => IsEnd(D \cup {x}, t, g)
<1>0. Space \in Nat /\ D \subseteq Int
  BY SMT, SizeAssumption
<1>1. IsEnd(D \cup {x}, s, x) /\ IsEnd(D \cup {x}, x, e)
  BY SMT, <1>0 DEF IsEnd
<1>2. ASSUME NEW t \in D, NEW g \in Int, t # s, IsEnd(D, t, g) PROVE IsEnd(D \cup {x}, t, g)
  <2>1. x > t => g <= x
    BY SMT, <1>0, <1>2 DEF IsEnd
  <2> QED
    BY SMT, <1>0, <1>2, <2>1 DEF IsEnd
<1> QED
  BY Zenon, <1>1, <1>2

(* What is removed belongs to the buffer in front. *)
LEMMA EndRemove ==
  ASSUME NEW D, D \subseteq 0 .. Space - 1, NEW x \in D, NEW f, IsEnd(D, x, f),
         NEW t \in D, t # x, NEW e, IsEnd(D, t, e)
  PROVE  IsEnd(D \ {x}, t, IF e = x THEN f ELSE e)
<1>0. Space \in Nat /\ D \subseteq Int
  BY SMT, SizeAssumption
<1>1. CASE e = x
  BY SMT, <1>0, <1>1 DEF IsEnd
<1>2. CASE e # x
  BY SMT, <1>0, <1>2 DEF IsEnd
<1> QED
  BY Zenon, <1>1, <1>2

(* No two buffers end at the same place. *)
LEMMA EndsDiffer ==
  ASSUME NEW D, D \subseteq 0 .. Space - 1, NEW s \in D, NEW t \in D, NEW e,
         IsEnd(D, s, e), IsEnd(D, t, e)
  PROVE  s = t
  BY SMT, SizeAssumption DEF IsEnd

(* The end of a buffer in the mapping as it is. *)
LEMMA EndFacts ==
  ASSUME Layout, NEW s \in Starts
  PROVE  IsEnd(Starts, s, End(s)) /\ End(s) \in Int
<1>1. PICK e \in Int : IsEnd(Starts, s, e)
  BY Zenon DEF Layout
<1>2. End(s) = e
  BY Zenon, <1>1, EndIs, EndUnfold DEF Layout
<1> QED
  BY Zenon, <1>1, <1>2

(* list_is_last: nothing starts behind a buffer that ends with the mapping. *)
LEMMA LastEnd ==
  ASSUME NEW D, D \subseteq 0 .. Space - 1, NEW s \in D, NEW e, IsEnd(D, s, e)
  PROVE  LastIn(D, s) <=> e = Space
<1> USE DEF BehindIn, LastIn
<1>0. Space \in Nat /\ D \subseteq Int
  BY SMT, SizeAssumption
<1>1. CASE e = Space
  <2>1. ASSUME NEW t \in D, t > s PROVE FALSE
    BY SMT, <1>0, <1>1, <2>1 DEF IsEnd
  <2> QED
    BY Zenon, <1>1, <2>1
<1>2. CASE e # Space
  <2>1. e \in D /\ e > s
    BY SMT, <1>0, <1>2 DEF IsEnd
  <2> QED
    BY Zenon, <1>2, <2>1
<1> QED
  BY Zenon, <1>1, <1>2

-----------------------------------------------------------------------------
(* The driver leaves every other buffer in use as it is *)

\* The buffer at t is in use and stays so, with its end.
Stays(t) ==
  /\ t \in Starts' /\ buffers'[t] = buffers[t] /\ End(t)' = End(t)

(* binder_alloc_new_buf splits a free buffer. *)
LEMMA AllocLayout ==
  ASSUME Layout, NEW text \in Texts, NEW s \in Starts, binder_alloc_new_buf(text, s)
  PROVE  /\ Layout'
         /\ s \in Starts' /\ End(s)' = s + Room(text)
         /\ buffers'[s] = [text |-> text, free |-> FALSE]
         /\ \A t \in Starts \ {s} : Stays(t)
         /\ \A t \in Starts' \ Starts : buffers'[t] = FreeBuffer
<1> DEFINE room == Room(text)
           e == End(s)
           x == s + room
           rest == IF e - s > room THEN {x} ELSE {}
           D == Starts \cup rest
<1>1. text \in Seq(Nat) /\ room \in Nat /\ room > 0
  BY Zenon, TextsAssumption, RoomFacts
<1>2. IsEnd(Starts, s, e) /\ e \in Int
  BY Zenon, EndFacts
<1>3. /\ e - s >= room
      /\ buffers' = [t \in D |-> IF t = s THEN [text |-> text, free |-> FALSE]
                                 ELSE IF t \in Starts THEN buffers[t] ELSE FreeBuffer]
  BY Zenon DEF binder_alloc_new_buf
<1>4. Space \in Nat /\ Starts \subseteq Int /\ Starts \subseteq 0 .. Space - 1 /\ s \in Int
  BY SMT, SizeAssumption DEF Layout
<1>5. Starts' = D
  BY Zenon, <1>3 DEF Starts
<1> HIDE DEF room, e
<1>6. D \subseteq 0 .. Space - 1
  BY SMT, <1>1, <1>2, <1>4 DEF IsEnd
<1>7. IsEnd(D, s, x)
  <2>1. CASE e - s > room
    <3>1. D = Starts \cup {x} /\ x \in Int /\ s < x /\ x < e
      BY SMT, <1>1, <1>2, <1>4, <2>1
    <3> QED
      BY Zenon, <1>2, <1>4, <3>1, EndAdd
  <2>2. CASE ~(e - s > room)
    <3>1. D = Starts /\ e = x
      BY SMT, <1>1, <1>2, <1>3, <1>4, <2>2
    <3> QED
      BY Zenon, <1>2, <3>1
  <2> QED
    BY Zenon, <2>1, <2>2
<1>8. ASSUME NEW t \in Starts, t # s PROVE IsEnd(D, t, End(t)) /\ End(t) \in Int
  <2>0. IsEnd(Starts, t, End(t)) /\ End(t) \in Int
    BY Zenon, EndFacts
  <2>1. CASE e - s > room
    <3>1. D = Starts \cup {x} /\ x \in Int /\ s < x /\ x < e
      BY SMT, <1>1, <1>2, <1>4, <2>1
    <3> QED
      BY Zenon, <1>2, <1>4, <1>8, <2>0, <3>1, EndAdd
  <2>2. CASE ~(e - s > room)
    BY Zenon, <2>0, <2>2
  <2> QED
    BY Zenon, <2>1, <2>2
<1>9. ASSUME NEW t \in D, t \notin Starts PROVE IsEnd(D, t, e)
  <2>1. t = x /\ e - s > room
    BY Zenon, <1>9
  <2>2. D = Starts \cup {x} /\ x \in Int /\ s < x /\ x < e
    BY SMT, <1>1, <1>2, <1>4, <2>1
  <2> QED
    BY Zenon, <1>2, <1>4, <2>1, <2>2, EndAdd
<1>10. End(s)' = x /\ \A t \in Starts : t # s => End(t)' = End(t)
  BY Zenon, <1>5, <1>6, <1>7, <1>8, EndIs, EndUnfold
<1>11. /\ s \in D /\ buffers'[s] = [text |-> text, free |-> FALSE]
       /\ \A t \in Starts : t # s => t \in D /\ buffers'[t] = buffers[t]
       /\ \A t \in D : t \notin Starts => buffers'[t] = FreeBuffer /\ t # s
  BY Zenon, <1>3
<1>12. Layout'
  <2>1. buffers' \in [Starts' -> [text : Seq(Nat), free : BOOLEAN]]
    <3>1. FreeBuffer \in [text : Seq(Nat), free : BOOLEAN]
      BY SMT DEF FreeBuffer
    <3>2. [text |-> text, free |-> FALSE] \in [text : Seq(Nat), free : BOOLEAN]
      BY Zenon, <1>1
    <3>3. \A t \in Starts : buffers[t] \in [text : Seq(Nat), free : BOOLEAN]
      BY Zenon DEF Layout
    <3> QED
      BY Zenon, <1>3, <1>5, <3>1, <3>2, <3>3
  <2>2. \A t \in Starts' : \E g \in Int : IsEnd(Starts', t, g)
    <3>1. x \in Int
      BY SMT, <1>1, <1>4
    <3> QED
      BY Zenon, <1>2, <1>5, <1>7, <1>8, <1>9, <3>1
  <2>3. ASSUME NEW t \in Starts', ~buffers'[t].free PROVE End(t)' = t + Room(buffers'[t].text)
    <3>1. CASE t = s
      <4>1. buffers'[s].text = text
        BY SMT, <1>11
      <4>2. End(t)' = End(s)'
        BY Zenon, <3>1, EndUnfold
      <4> QED
        BY Zenon, <1>10, <3>1, <4>1, <4>2 DEF room
    <3>2. CASE t # s
      <4>1. t \in Starts
        <5>1. FreeBuffer.free = TRUE
          BY Zenon DEF FreeBuffer
        <5> QED
          BY Zenon, <1>5, <1>11, <2>3, <5>1
      <4> QED
        BY Zenon, <1>10, <1>11, <2>3, <3>2, <4>1 DEF Layout, Text
    <3> QED
      BY Zenon, <3>1, <3>2
  <2> QED
    BY Zenon, <1>5, <1>6, <2>1, <2>2, <2>3 DEF Layout, Text
<1> QED
  BY Zenon, <1>5, <1>10, <1>11, <1>12 DEF Stays, room

(* binder_free_buf takes out what merges with the buffer in front. *)
LEMMA FreeLayout ==
  ASSUME Layout, NEW s \in Starts, binder_free_buf(s)
  PROVE  /\ Layout'
         /\ \A t \in Starts : ~buffers[t].free /\ t # s => Stays(t)
         /\ \A t \in Starts' : ~buffers'[t].free => t \in Starts /\ ~buffers[t].free /\ t # s
<1> DEFINE next == {t \in Starts : t = End(s) /\ buffers[t].free}
           prev == {t \in Starts : End(t) = s /\ buffers[t].free}
           gone == next \cup (IF prev = {} THEN {} ELSE {s})
           E1 == Starts \ next
           D == Starts \ gone
<1>1. /\ ~buffers[s].free
      /\ buffers' = [t \in D |-> IF t = s THEN FreeBuffer ELSE buffers[t]]
  BY Zenon DEF binder_free_buf
<1>2. Starts' = D
  BY Zenon, <1>1 DEF Starts
<1>3. Starts \subseteq 0 .. Space - 1 /\ D \subseteq 0 .. Space - 1 /\ E1 \subseteq 0 .. Space - 1
  BY Zenon DEF Layout
<1>4. \A t \in Starts : IsEnd(Starts, t, End(t)) /\ End(t) \in Int
  BY Zenon, EndFacts
<1>5. s \in E1
  BY Zenon, <1>1
(* The buffer behind s goes first. *)
<1>6. /\ \A t \in E1 : \E e \in Int : IsEnd(E1, t, e)
      /\ \A t \in E1 : t # s => IsEnd(E1, t, End(t))
  <2>1. CASE next = {}
    <3>1. E1 = Starts
      BY Zenon, <2>1
    <3> QED
      BY Zenon, <1>4, <3>1
  <2>2. CASE next # {}
    <3> DEFINE n == End(s)
    <3>1. n \in Starts /\ next = {n} /\ E1 = Starts \ {n}
      BY Zenon, <2>2
    <3>2. ASSUME NEW t \in E1
          PROVE  /\ IsEnd(E1, t, IF End(t) = n THEN End(n) ELSE End(t))
                 /\ t # s => End(t) # n
      <4>1. t \in Starts /\ t # n
        BY Zenon, <3>1
      <4>2. IsEnd(E1, t, IF End(t) = n THEN End(n) ELSE End(t))
        BY Zenon, <1>3, <1>4, <3>1, <4>1, EndRemove
      <4>3. t # s => End(t) # n
        BY Zenon, <1>3, <1>4, <4>1, EndsDiffer
      <4> QED
        BY Zenon, <4>2, <4>3
    <3>3. \A t \in E1 : (IF End(t) = n THEN End(n) ELSE End(t)) \in Int
      BY Zenon, <1>4, <3>1
    <3> QED
      BY Zenon, <3>2, <3>3
  <2> QED
    BY Zenon, <2>1, <2>2
(* Then s itself, if the buffer in front is free. *)
<1>7. /\ \A t \in D : \E e \in Int : IsEnd(D, t, e)
      /\ \A t \in D : ~buffers[t].free /\ t # s => IsEnd(D, t, End(t))
  <2>1. CASE prev = {}
    <3>1. D = E1
      BY Zenon, <2>1
    <3> QED
      BY Zenon, <1>6, <3>1
  <2>2. CASE prev # {}
    <3>1. PICK u \in Starts : End(u) = s /\ buffers[u].free
      BY Zenon, <2>2
    <3>2. D = E1 \ {s}
      BY Zenon, <2>2
    <3>3. PICK f \in Int : IsEnd(E1, s, f)
      BY Zenon, <1>5, <1>6
    <3>4. ASSUME NEW t \in D
          PROVE  /\ IsEnd(D, t, IF End(t) = s THEN f ELSE End(t))
                 /\ ~buffers[t].free => End(t) # s
      <4>1. t \in E1 /\ t # s /\ t \in Starts /\ IsEnd(E1, t, End(t))
        BY Zenon, <1>6, <3>2
      <4>2. IsEnd(D, t, IF End(t) = s THEN f ELSE End(t))
        <5> HIDE DEF next, prev, gone, E1, D
        <5>1. IsEnd(E1 \ {s}, t, IF End(t) = s THEN f ELSE End(t))
          BY Zenon, <1>3, <1>5, <3>3, <4>1, EndRemove
        <5> QED
          BY Zenon, <3>2, <5>1
      <4>3. End(t) = s => t = u
        BY Zenon, <1>3, <1>4, <3>1, <4>1, EndsDiffer
      <4> QED
        BY Zenon, <3>1, <4>2, <4>3
    <3>5. \A t \in D : (IF End(t) = s THEN f ELSE End(t)) \in Int
      BY Zenon, <1>4, <3>2, <3>3
    <3> QED
      BY Zenon, <3>4, <3>5
  <2> QED
    BY Zenon, <2>1, <2>2
<1>8. FreeBuffer.free = TRUE
  BY Zenon DEF FreeBuffer
<1>9. \A t \in D : ~buffers'[t].free => t \in Starts /\ ~buffers[t].free /\ t # s
  BY Zenon, <1>1, <1>8
<1>10. ASSUME NEW t \in Starts, ~buffers[t].free, t # s
       PROVE  t \in D /\ buffers'[t] = buffers[t] /\ End(t)' = End(t)
  <2>1. t \in D
    BY Zenon, <1>10
  <2>2. End(t)' = End(t)
    BY Zenon, <1>2, <1>3, <1>7, <1>10, <2>1, EndIs, EndUnfold
  <2> QED
    BY Zenon, <1>1, <1>10, <2>1, <2>2
<1>11. Layout'
  <2>1. buffers' \in [Starts' -> [text : Seq(Nat), free : BOOLEAN]]
    <3>1. FreeBuffer \in [text : Seq(Nat), free : BOOLEAN]
      BY SMT DEF FreeBuffer
    <3>2. \A t \in Starts : buffers[t] \in [text : Seq(Nat), free : BOOLEAN]
      BY Zenon DEF Layout
    <3> QED
      BY Zenon, <1>1, <1>2, <3>1, <3>2
  <2>2. ASSUME NEW t \in Starts', ~buffers'[t].free PROVE End(t)' = t + Room(buffers'[t].text)
    BY Zenon, <1>2, <1>9, <1>10, <2>2 DEF Layout, Text
  <2> QED
    BY Zenon, <1>2, <1>3, <1>7, <2>1, <2>2 DEF Layout, Text
<1> QED
  BY Zenon, <1>2, <1>9, <1>10, <1>11 DEF Stays

(* binder_alloc_new_buf writes into the buffer that it takes. *)
LEMMA AllocContents ==
  ASSUME Layout, Contents, Backed, NEW text \in Texts, NEW s \in Starts,
         binder_alloc_new_buf(text, s)
  PROVE  Contents' /\ Backed'
<1> DEFINE room == Room(text)
<1>1. text \in Seq(Nat) /\ room \in Nat /\ room > 0 /\ Len(text) <= room /\ Len(text) \in Nat
      /\ DOMAIN text = 1 .. Len(text)
  BY SMT, TextsAssumption, RoomFacts
<1>2. /\ End(s) - s >= room
      /\ mem' = [a \in DOMAIN mem |->
                   IF a - s + 1 \in DOMAIN text THEN text[a - s + 1] ELSE mem[a]]
      /\ pages' = pages \cup PagesOf(s, s + room)
  BY Zenon DEF binder_alloc_new_buf
<1>3. /\ s \in Starts' /\ End(s)' = s + room /\ buffers'[s] = [text |-> text, free |-> FALSE]
      /\ \A t \in Starts \ {s} : Stays(t)
      /\ \A t \in Starts' \ Starts : buffers'[t] = FreeBuffer
  BY Zenon, AllocLayout
<1>4. FreeBuffer.free = TRUE /\ buffers'[s].text = text
  BY SMT, <1>3 DEF FreeBuffer
<1>5. Space \in Nat /\ Starts \subseteq Int /\ Starts \subseteq 0 .. Space - 1 /\ s \in Int
  BY SMT, SizeAssumption DEF Layout
<1>6. /\ IsEnd(Starts, s, End(s)) /\ End(s) \in Int
      /\ mem \in [0 .. Space - 1 -> Nat] /\ DOMAIN mem = 0 .. Space - 1
  BY Zenon, EndFacts DEF Contents
<1> HIDE DEF room
<1>7. mem' \in [0 .. Space - 1 -> Nat]
  <2>1. ASSUME NEW a \in 0 .. Space - 1
        PROVE  (IF a - s + 1 \in DOMAIN text THEN text[a - s + 1] ELSE mem[a]) \in Nat
    BY SMT, <1>1, <1>6
  <2> QED
    BY Zenon, <1>2, <1>6, <2>1
<1>8. ASSUME NEW t \in Starts', ~buffers'[t].free, t # s
      PROVE  t \in Starts /\ ~buffers[t].free /\ Stays(t)
  BY Zenon, <1>3, <1>4, <1>8 DEF Stays
<1>9. ASSUME NEW t \in Starts', ~buffers'[t].free, NEW i \in 1 .. Len(buffers'[t].text)
      PROVE  mem'[t + i - 1] = buffers'[t].text[i]
  <2>1. CASE t = s
    <3>1. i \in 1 .. Len(text)
      BY Zenon, <1>4, <1>9, <2>1
    <3>2. s + i - 1 \in 0 .. Space - 1 /\ (s + i - 1) - s + 1 = i
      BY SMT, <1>1, <1>2, <1>5, <1>6, <3>1 DEF IsEnd
    <3>3. mem'[s + i - 1] = text[i]
      BY Zenon, <1>1, <1>2, <1>6, <3>1, <3>2
    <3> QED
      BY Zenon, <1>4, <2>1, <3>3
  <2>2. CASE t # s
    <3>1. t \in Starts /\ ~buffers[t].free /\ buffers'[t] = buffers[t]
      BY Zenon, <1>8, <1>9, <2>2 DEF Stays
    <3> DEFINE old == Text(t)
               k == Room(old)
    <3>2. old \in Seq(Nat) /\ k \in Nat /\ Len(old) <= k /\ Len(old) \in Nat
      <4>1. old \in Seq(Nat)
        BY SMT, <3>1 DEF Layout, Text
      <4> HIDE DEF old
      <4> QED
        BY SMT, <4>1, RoomFacts
    <3>3. End(t) = t + k /\ IsEnd(Starts, t, End(t)) /\ t \in Int
      BY Zenon, <1>5, <3>1, EndFacts DEF Layout
    <3>4. i \in 1 .. Len(old) /\ mem[t + i - 1] = old[i]
      BY Zenon, <1>9, <3>1 DEF Contents, Text
    <3> HIDE DEF old, k
    <3>5. t + i - 1 \in 0 .. Space - 1 /\ (t + i - 1) - s + 1 \notin 1 .. Len(text)
      <4> DEFINE e == End(s)
                 f == End(t)
                 n == Len(text)
                 m == Len(old)
      <4>1. /\ n \in Nat /\ n <= room /\ room \in Nat /\ m \in Nat /\ m <= k /\ k \in Nat
            /\ e - s >= room /\ f = t + k /\ i \in 1 .. m
        BY Zenon, <1>1, <1>2, <3>2, <3>3, <3>4
      <4>2. /\ e \in Int /\ f \in Int /\ f <= Space /\ t >= 0
            /\ (s > t => f <= s) /\ (t > s => e <= t)
        BY SMT, <1>5, <1>6, <3>1, <3>3 DEF IsEnd
      <4> HIDE DEF e, f, n, m
      <4>3. t + i - 1 \in 0 .. Space - 1
        BY SMT, <1>5, <3>3, <4>1, <4>2
      <4>4. (t + i - 1) - s + 1 \notin 1 .. n
        BY SMT, <1>5, <2>2, <3>3, <4>1, <4>2
      <4> QED
        BY Zenon, <4>3, <4>4 DEF n
    <3>6. mem'[t + i - 1] = mem[t + i - 1]
      BY Zenon, <1>1, <1>2, <1>6, <3>5
    <3> QED
      BY Zenon, <3>1, <3>4, <3>6 DEF old, Text
  <2> QED
    BY Zenon, <2>1, <2>2
<1>10. ASSUME NEW t \in Starts', ~buffers'[t].free PROVE PagesOf(t, End(t)') \subseteq pages'
  <2>1. CASE t = s
    <3>1. End(t)' = s + room
      BY Zenon, <1>3, <2>1, EndUnfold
    <3> QED
      BY Zenon, <1>2, <2>1, <3>1
  <2>2. CASE t # s
    BY Zenon, <1>2, <1>8, <1>10, <2>2 DEF Backed, Stays
  <2> QED
    BY Zenon, <2>1, <2>2
<1>11. Contents'
  BY Zenon, <1>7, <1>9 DEF Contents, Text
<1>12. Backed'
  BY Zenon, <1>10 DEF Backed, PagesOf
<1> QED
  BY Zenon, <1>11, <1>12

(* A comparison depends on its two buffers only. *)
LEMMA ProbeKept ==
  ASSUME Layout, Layout', Places, Progress, Copies, Sized, CompareExact, UNCHANGED probeVars,
         \A s \in Compared : s \in Starts /\ ~buffers[s].free => Stays(s)
  PROVE  Places' /\ Progress' /\ Copies' /\ Sized' /\ CompareExact'
<1>1. /\ at' = at /\ b' = b /\ pos' = pos /\ which' = which /\ size' = size
      /\ copied' = copied /\ result' = result
  BY Zenon DEF probeVars
<1>2. CASE at = "idle"
  BY Zenon, <1>1, <1>2 DEF Places, Progress, Copies, Sized, CompareExact, Running
<1>3. CASE at # "idle"
  <2>1. b \in Starts \X Starts /\ Used(b[1]) /\ Used(b[2]) /\ which \in {1, 2}
    BY Zenon, <1>3 DEF Places
  <2>2. Compared = {b[1], b[2]}
    BY SMT, <2>1 DEF Compared
  <2>3. \A w \in {1, 2} : /\ b[w] \in Starts /\ b[w] \in Starts' /\ ~buffers[b[w]].free
                          /\ buffers'[b[w]] = buffers[b[w]] /\ End(b[w])' = End(b[w])
    <3>1. \A w \in {1, 2} : b[w] \in Starts /\ ~buffers[b[w]].free /\ b[w] \in Compared
      BY Zenon, <2>1, <2>2 DEF Used
    <3>2. \A w \in {1, 2} : Stays(b[w])
      BY Zenon, <3>1
    <3> QED
      BY Zenon, <1>1, <3>1, <3>2 DEF Stays
  <2>4. /\ Text(b[1])' = Text(b[1]) /\ Text(b[2])' = Text(b[2])
        /\ total' = total /\ chunk' = chunk
    BY Zenon, <1>1, <2>3 DEF Text, total, chunk
  <2>5. Places'
    <3>1. b \in Starts' \X Starts'
      BY SMT, <2>1, <2>3
    <3> QED
      BY Zenon, <1>1, <1>3, <2>3, <3>1 DEF Places, Used
  <2>6. Progress'
    BY Zenon, <1>1, <2>4 DEF Progress
  <2>7. Copies'
    <3>1. \A w \in {1, 2} : Text(b[w])' = Text(b[w])
      BY Zenon, <1>1, <2>3 DEF Text
    <3> QED
      BY Zenon, <1>1, <2>4, <3>1 DEF Copies
  <2>8. Sized'
    <3>1. Behind(b[which])' = {} <=> Behind(b[which]) = {}
      <4>1. /\ Behind(b[which]) = {} <=> End(b[which]) = Space
            /\ Behind(b[which])' = {} <=> End(b[which])' = Space
        <5>1. \A s \in Starts : Behind(s) = {} <=> End(s) = Space
          BY Zenon, EndFacts, LastEnd DEF Layout, Behind, BehindIn, LastIn
        <5>2. ASSUME NEW s \in Starts' PROVE Behind(s)' = {} <=> End(s)' = Space
          <6>1. PICK e \in Int : IsEnd(Starts', s, e)
            BY Zenon DEF Layout
          <6>2. Starts' \subseteq 0 .. Space - 1
            BY Zenon DEF Layout
          <6>3. End(s)' = e
            <7>1. EndIn(Starts', s) = e
              BY Zenon, <6>1, <6>2, EndIs
            <7> QED
              BY Zenon, <7>1, EndUnfold
          <6>4. LastIn(Starts', s) <=> e = Space
            BY Zenon, <6>1, <6>2, LastEnd
          <6> QED
            BY Zenon, <6>3, <6>4 DEF Behind, BehindIn, LastIn
        <5> QED
          BY Zenon, <1>1, <2>1, <2>3, <5>1, <5>2
      <4> QED
        BY Zenon, <1>1, <2>1, <2>3, <4>1
    <3>2. End(b[which])' = End(b[which])
      BY Zenon, <1>1, <2>1, <2>3
    <3> QED
      BY Zenon, <1>1, <3>1, <3>2 DEF Sized
  <2>9. CompareExact'
    BY Zenon, <1>1, <2>4 DEF CompareExact
  <2> QED
    BY Zenon, <2>5, <2>6, <2>7, <2>8, <2>9
<1> QED
  BY Zenon, <1>2, <1>3

(* The driver's steps keep the invariant. *)
LEMMA DriverKeeps == CInv /\ Driver => CInv'
<1> SUFFICES ASSUME CInv, Driver PROVE CInv'
  OBVIOUS
<1>1. ASSUME NEW s \in Starts, NEW text \in Texts, binder_alloc_new_buf(text, s) PROVE CInv'
  <2>1. Layout' /\ \A t \in Starts \ {s} : Stays(t)
    BY Zenon, <1>1, AllocLayout DEF CInv
  <2>2. Contents' /\ Backed'
    BY Zenon, <1>1, AllocContents DEF CInv
  <2>3. buffers[s].free /\ UNCHANGED probeVars
    BY Zenon, <1>1 DEF binder_alloc_new_buf
  <2>4. \A t \in Compared : t \in Starts /\ ~buffers[t].free => Stays(t)
    BY Zenon, <2>1, <2>3
  <2>5. Places' /\ Progress' /\ Copies' /\ Sized' /\ CompareExact'
    BY Zenon, <2>1, <2>3, <2>4, ProbeKept DEF CInv
  <2> QED
    BY Zenon, <2>1, <2>2, <2>5 DEF CInv
<1>2. ASSUME NEW s \in Starts, binder_free_buf(s) PROVE CInv'
  <2>1. /\ Layout' /\ \A t \in Starts : ~buffers[t].free /\ t # s => Stays(t)
        /\ \A t \in Starts' : ~buffers'[t].free => t \in Starts /\ ~buffers[t].free /\ t # s
    BY Zenon, <1>2, FreeLayout DEF CInv
  <2>2. s \notin Compared /\ UNCHANGED probeVars /\ mem' = mem /\ pages' = pages
    BY Zenon, <1>2 DEF binder_free_buf
  <2>3. \A t \in Starts' : ~buffers'[t].free =>
          t \in Starts /\ ~buffers[t].free /\ buffers'[t] = buffers[t] /\ End(t)' = End(t)
    BY Zenon, <2>1 DEF Stays
  <2>4. Contents'
    BY ZenonT(60), <2>2, <2>3 DEF CInv, Contents, Text
  <2>5. Backed'
    BY Zenon, <2>2, <2>3 DEF CInv, Backed, PagesOf
  <2>6. \A t \in Compared : t \in Starts /\ ~buffers[t].free => Stays(t)
    BY Zenon, <2>1, <2>2
  <2>7. Places' /\ Progress' /\ Copies' /\ Sized' /\ CompareExact'
    BY Zenon, <2>1, <2>2, <2>6, ProbeKept DEF CInv
  <2> QED
    BY Zenon, <2>1, <2>4, <2>5, <2>7 DEF CInv
<1>3. ASSUME NEW p \in pages, Shrink(p) PROVE CInv'
  <2>1. /\ \A s \in Starts : ~buffers[s].free => p \notin PagesOf(s, End(s))
        /\ pages' = pages \ {p} /\ buffers' = buffers /\ mem' = mem /\ UNCHANGED probeVars
    BY Zenon, <1>3 DEF Shrink
  <2>2. Starts' = Starts /\ \A s : End(s)' = End(s)
    <3>1. Starts' = Starts
      BY Zenon, <2>1 DEF Starts
    <3> QED
      BY Zenon, <3>1, EndUnfold
  <2>3. Layout'
    BY Zenon, <2>1, <2>2 DEF CInv, Layout, Text
  <2>4. Contents'
    BY Zenon, <2>1, <2>2 DEF CInv, Contents, Text
  <2>5. Backed'
    BY Zenon, <2>1, <2>2 DEF CInv, Backed, PagesOf
  <2>6. \A t \in Compared : t \in Starts /\ ~buffers[t].free => Stays(t)
    BY Zenon, <2>1, <2>2 DEF Stays
  <2>7. Places' /\ Progress' /\ Copies' /\ Sized' /\ CompareExact'
    BY Zenon, <2>1, <2>3, <2>6, ProbeKept DEF CInv
  <2> QED
    BY Zenon, <2>3, <2>4, <2>5, <2>7 DEF CInv
<1> QED
  BY Zenon, <1>1, <1>2, <1>3 DEF Driver

-----------------------------------------------------------------------------
(* The steps of the comparison *)

(* The comparison changes nothing of the allocator. *)
LEMMA ComparingReads ==
  ASSUME CInv, UNCHANGED allocVars
  PROVE  /\ Layout' /\ Contents' /\ Backed'
         /\ Starts' = Starts /\ buffers' = buffers
         /\ \A s : End(s)' = End(s) /\ Text(s)' = Text(s)
<1>1. buffers' = buffers /\ mem' = mem /\ pages' = pages
  BY Zenon DEF allocVars
<1>2. Starts' = Starts
  BY Zenon, <1>1 DEF Starts
<1>3. \A s : End(s)' = End(s) /\ Text(s)' = Text(s)
  BY Zenon, <1>1, <1>2, EndUnfold DEF Text
<1>4. Layout'
  BY Zenon, <1>1, <1>2, <1>3 DEF CInv, Layout
<1>5. Contents'
  BY Zenon, <1>1, <1>2, <1>3 DEF CInv, Contents
<1>6. Backed'
  BY Zenon, <1>1, <1>2, <1>3 DEF CInv, Backed, PagesOf
<1> QED
  BY Zenon, <1>1, <1>2, <1>3, <1>4, <1>5, <1>6

(* The two buffers of a comparison have room for their texts. *)
LEMMA ComparedBuffers ==
  ASSUME CInv, at # "idle"
  PROVE  /\ b \in Starts \X Starts
         /\ \A w \in {1, 2} :
              /\ b[w] \in Starts /\ b[w] \in Nat /\ ~buffers[b[w]].free
              /\ Text(b[w]) \in Seq(Nat) /\ Len(Text(b[w])) \in Nat
              /\ End(b[w]) \in Int /\ b[w] + Len(Text(b[w])) <= End(b[w])
              /\ End(b[w]) <= Space
<1>1. b \in Starts \X Starts /\ Used(b[1]) /\ Used(b[2])
  BY Zenon DEF CInv, Places
<1>2. ASSUME NEW s \in Starts, ~buffers[s].free
      PROVE  /\ s \in Nat /\ Text(s) \in Seq(Nat) /\ Len(Text(s)) \in Nat
             /\ End(s) \in Int /\ s + Len(Text(s)) <= End(s) /\ End(s) <= Space
  <2>1. s \in Nat
    BY SMT, SizeAssumption DEF CInv, Layout
  <2>2. Text(s) \in Seq(Nat)
    BY SMT DEF CInv, Layout, Text
  <2>3. Len(Text(s)) \in Nat
    BY SMT, <2>2
  <2>4. Room(Text(s)) \in Nat /\ Len(Text(s)) <= Room(Text(s))
    BY Zenon, <2>2, RoomFacts
  <2>5. End(s) = s + Room(Text(s)) /\ IsEnd(Starts, s, End(s)) /\ End(s) \in Int
    BY Zenon, <1>2, EndFacts DEF CInv, Layout
  <2>6. End(s) <= Space
    BY Zenon, <2>5 DEF IsEnd
  <2> QED
    BY SMT, <2>1, <2>2, <2>3, <2>4, <2>5, <2>6
<1>3. ASSUME NEW w \in {1, 2} PROVE b[w] \in Starts /\ ~buffers[b[w]].free
  BY Zenon, <1>1 DEF Used
<1> QED
  BY Zenon, <1>1, <1>2, <1>3

(* A chunk is not empty, and only the last one is shorter than c1. *)
LEMMA ChunkFacts ==
  ASSUME CInv, at \in Running
  PROVE  /\ total \in Nat /\ pos \in Nat /\ chunk \in Nat /\ chunk > 0 /\ pos + chunk <= total
         /\ chunk = CHUNK \/ pos + chunk = total
         /\ Len(Text(b[1])) = total /\ Len(Text(b[2])) = total
<1>1. at # "idle"
  BY Zenon DEF Running
<1>2. /\ total \in Nat /\ pos \in Nat /\ pos < total
      /\ Len(Text(b[1])) = total /\ Len(Text(b[2])) = total
  BY Zenon, <1>1, ComparedBuffers DEF CInv, Progress, total
<1>3. CHUNK \in Nat \ {0} /\ chunk = IF total - pos < CHUNK THEN total - pos ELSE CHUNK
  BY Zenon, SizeAssumption DEF chunk, Smaller
<1> QED
  BY SMT, <1>2, <1>3

\* x takes the place of p[w].
Replaced(S, p, w, x, q) ==
  q \in S \X S /\ q[w] = x /\ \A v \in {1, 2} : v # w => q[v] = p[v]

(* One of the copies of the two buffers, c1 and c2, changes. *)
LEMMA PairExcept ==
  ASSUME NEW S, NEW p \in S \X S, NEW w \in {1, 2}, NEW x \in S
  PROVE  Replaced(S, p, w, x, [p EXCEPT ![w] = x])
  BY SMT DEF Replaced

(* memcmp: sequences of one length are equal if their elements are. *)
LEMMA SameBytes ==
  ASSUME NEW s \in Seq(Nat), NEW t \in Seq(Nat), Len(s) = Len(t),
         \A i \in 1 .. Len(s) : s[i] = t[i]
  PROVE  s = t
  BY SMT

(* What is copied from a page goes behind what has been copied. *)
LEMMA Longer ==
  ASSUME NEW s \in Seq(Nat), NEW n \in Nat, NEW g \in [1 .. n -> Nat]
  PROVE  /\ s \o g \in Seq(Nat) /\ Len(s \o g) = Len(s) + n
         /\ \A i \in 1 .. Len(s) + n : (s \o g)[i] = IF i <= Len(s) THEN s[i] ELSE g[i - Len(s)]
  BY SMT

(* Nothing has been copied yet. *)
LEMMA NothingCopied ==
  ASSUME at' \in Running => chunk' \in Nat /\ chunk' > 0, copied' = <<<<>>, <<>>>>, which' = 1
  PROVE  Copies'
<1>1. <<>> \in Seq(Nat) /\ Len(<<>>) = 0 /\ 1 .. 0 = {}
  BY SMT
<1> DEFINE e == <<>>
<1>2. e \in Seq(Nat) /\ copied' = <<e, e>> /\ Len(e) = 0
  BY Zenon, <1>1
<1> HIDE DEF e
<1>3. copied' \in Seq(Nat) \X Seq(Nat) /\ copied'[1] = e /\ copied'[2] = e
  <2>1. PICK c : c = copied'
    BY Zenon
  <2>2. c = <<e, e>> /\ e \in Seq(Nat)
    BY Zenon, <1>2, <2>1
  <2>3. c[1] = e /\ c[2] = e
    BY SMT, <2>2
  <2>4. c \in Seq(Nat) \X Seq(Nat)
    BY Zenon, <2>2
  <2> QED
    BY Zenon, <2>1, <2>3, <2>4
<1>4. ASSUME at' \in Running, NEW w \in {1, 2}
      PROVE  /\ Len(copied'[w]) <= chunk' /\ 1 .. Len(copied'[w]) = {}
  <2>1. 0 <= chunk'
    BY SMT, <1>4
  <2>2. copied'[w] = e
    BY Zenon, <1>3
  <2> QED
    BY Zenon, <1>1, <1>2, <2>1, <2>2
<1> QED
  BY SMT, <1>3, <1>4 DEF Copies, e

(* rkx_binder_buffer_data_equal compares the sizes first. *)
LEMMA BeginKeeps ==
  ASSUME CInv, NEW b1 \in Starts, NEW b2 \in Starts, DataEqual(b1, b2)
  PROVE  CInv'
<1>1. /\ b' = <<b1, b2>> /\ pos' = 0 /\ which' = 1 /\ copied' = <<<<>>, <<>>>>
      /\ ~buffers[b1].free /\ ~buffers[b2].free /\ UNCHANGED allocVars
      /\ IF Len(Text(b1)) # Len(Text(b2)) THEN ReturnFalse ELSE Continue(0)
  BY Zenon DEF DataEqual
<1>2. /\ Layout' /\ Contents' /\ Backed' /\ Starts' = Starts /\ buffers' = buffers
      /\ \A s : End(s)' = End(s) /\ Text(s)' = Text(s)
  BY Zenon, <1>1, ComparingReads
<1>3. b'[1] = b1 /\ b'[2] = b2 /\ b' \in Starts \X Starts
  BY SMT, <1>1
<1>4. /\ Text(b1) \in Seq(Nat) /\ Text(b2) \in Seq(Nat)
      /\ Len(Text(b1)) \in Nat /\ Len(Text(b2)) \in Nat
  BY SMT DEF CInv, Layout, Text
<1>5. Text(b[1])' = Text(b1) /\ Text(b[2])' = Text(b2)
  BY Zenon, <1>2, <1>3 DEF Text
<1>6. ASSUME at' \in Running \cup {"return"}, result' \in BOOLEAN PROVE Places'
  <2>1. at' # "idle"
    BY Zenon, <1>6 DEF Running
  <2> QED
    BY Zenon, <1>1, <1>2, <1>3, <1>6, <2>1 DEF Places, Used
<1>7. CASE Len(Text(b1)) # Len(Text(b2))
  <2>1. at' = "return" /\ result' = FALSE /\ Text(b1) # Text(b2)
    BY Zenon, <1>1, <1>7 DEF ReturnFalse
  <2> QED
    BY Zenon, <1>2, <1>5, <1>6, <2>1 DEF CInv, Progress, Copies, Sized, CompareExact, Running
<1>8. CASE Len(Text(b1)) = Len(Text(b2)) /\ ~(0 < Len(Text(b1)))
  <2>1. Text(b1) = Text(b2)
    BY SMT, <1>4, <1>8
  <2>2. at' = "return" /\ result' = TRUE
    BY Zenon, <1>1, <1>3, <1>8 DEF Continue
  <2> QED
    BY Zenon, <1>2, <1>5, <1>6, <2>1, <2>2 DEF CInv, Progress, Copies, Sized, CompareExact,
       Running
<1>9. CASE Len(Text(b1)) = Len(Text(b2)) /\ 0 < Len(Text(b1))
  <2>1. at' = "check" /\ result' = result
    BY Zenon, <1>1, <1>3, <1>9 DEF Continue
  <2>2. Places'
    BY Zenon, <1>6, <2>1 DEF Running, CInv, Places
  <2>3. total' = Len(Text(b1)) /\ 0 % WORD = 0
    <3>1. 0 % WORD = 0
      BY SMT, SizeAssumption
    <3> QED
      BY Zenon, <1>5, <3>1 DEF total
  <2>4. Progress'
    BY SMT, <1>1, <1>4, <1>5, <1>9, <2>3 DEF Progress
  <2>5. Copies'
    <3>1. chunk' \in Nat /\ chunk' > 0
      BY SMT, <1>1, <1>4, <1>9, <2>3, SizeAssumption DEF chunk, Smaller
    <3> QED
      BY Zenon, <1>1, <3>1, NothingCopied
  <2> QED
    BY Zenon, <1>2, <2>1, <2>2, <2>4, <2>5 DEF CInv, Sized, CompareExact
<1> QED
  BY Zenon, <1>7, <1>8, <1>9

(* A step that does not leave the buffers the comparison is about. *)
LEMMA ProbeSteps ==
  ASSUME CInv, UNCHANGED <<allocVars, b, pos>>, at \in Running,
         at' \in Running \cup {"return"}, which' \in {1, 2}, result' \in BOOLEAN
  PROVE  /\ Layout' /\ Contents' /\ Backed' /\ Places' /\ Progress'
         /\ \A w \in {1, 2} : /\ Text(b[w])' = Text(b[w]) /\ End(b[w])' = End(b[w])
                              /\ Behind(b[w])' = Behind(b[w])
         /\ total' = total /\ chunk' = chunk
<1>1. UNCHANGED allocVars /\ b' = b /\ pos' = pos
  BY Zenon
<1>2. /\ Layout' /\ Contents' /\ Backed' /\ Starts' = Starts /\ buffers' = buffers
      /\ \A s : End(s)' = End(s) /\ Text(s)' = Text(s)
  BY Zenon, <1>1, ComparingReads
<1>3. ASSUME NEW w \in {1, 2}
      PROVE  Text(b[w])' = Text(b[w]) /\ End(b[w])' = End(b[w]) /\ Behind(b[w])' = Behind(b[w])
  <2>1. b'[w] = b[w]
    BY Zenon, <1>1
  <2>2. Text(b[w])' = Text(b[w])
    BY Zenon, <1>2, <2>1 DEF Text
  <2>3. Behind(b[w])' = Behind(b[w])
    BY Zenon, <1>2, <2>1 DEF Behind
  <2>4. End(b[w])' = End(b[w])
    <3>1. End(b[w])' = EndIn(Starts', b'[w])
      BY Zenon DEF End, EndIn, Behind, BehindIn
    <3> QED
      BY Zenon, <1>2, <2>1, <3>1, EndUnfold
  <2> QED
    BY Zenon, <2>2, <2>3, <2>4
<1>4. total' = total /\ chunk' = chunk
  <2>1. total' = total
    BY Zenon, <1>3 DEF total
  <2> QED
    BY Zenon, <1>1, <2>1 DEF chunk
<1>5. Places'
  <2>1. at # "idle" /\ at' # "idle"
    BY Zenon DEF Running
  <2> QED
    BY Zenon, <1>1, <1>2, <2>1 DEF CInv, Places, Used
<1>6. Progress'
  BY Zenon, <1>1, <1>3, <1>4 DEF CInv, Progress
<1> QED
  BY Zenon, <1>2, <1>3, <1>4, <1>5, <1>6

(* A step of rk_check_buffer leaves the copies alone. *)
LEMMA CopiesKept ==
  ASSUME CInv, UNCHANGED <<allocVars, b, pos, which, copied>>, at \in Running \ {"copy"},
         at' \in Running \cup {"return"}, result' \in BOOLEAN
  PROVE  Copies'
<1>1. which' \in {1, 2}
  BY Zenon DEF CInv, Places
<1>2. \A w \in {1, 2} : Text(b[w])' = Text(b[w])
  BY Zenon, <1>1, ProbeSteps
<1>3. chunk' = chunk
  BY Zenon, <1>1, ProbeSteps
<1>4. Copies /\ at # "copy" /\ at \in Running
  BY Zenon DEF CInv
<1> QED
  BY ZenonT(60), <1>2, <1>3, <1>4 DEF Copies

(* Whether the buffer is the last one is known. *)
LEMMA LastKeeps ==
  ASSUME CInv, list_is_last
  PROVE  CInv'
<1>1. /\ at = "check" /\ UNCHANGED <<allocVars, b, pos, which, copied, result>>
      /\ IF Behind(b[which]) = {} THEN at' = "checked" /\ size' = Space - b[which]
                                  ELSE at' = "next" /\ UNCHANGED size
  BY Zenon DEF list_is_last
<1>2. at \in Running \ {"copy"} /\ at' \in Running /\ which \in {1, 2} /\ result' \in BOOLEAN
  BY Zenon, <1>1 DEF Running, CInv, Places
<1>3. /\ Layout' /\ Contents' /\ Backed' /\ Places' /\ Progress'
      /\ End(b[which])' = End(b[which]) /\ Behind(b[which])' = Behind(b[which])
  BY Zenon, <1>1, <1>2, ProbeSteps
<1>4. Copies'
  BY Zenon, <1>1, <1>2, CopiesKept
<1>5. Behind(b[which]) = {} => End(b[which]) = Space
  BY Zenon DEF End
<1>6. Sized'
  BY Zenon, <1>1, <1>3, <1>5 DEF Sized
<1>7. CompareExact'
  BY Zenon, <1>2 DEF CompareExact, Running
<1> QED
  BY Zenon, <1>3, <1>4, <1>6, <1>7 DEF CInv

(* There is still a buffer behind this one. *)
LEMMA NextKeeps ==
  ASSUME CInv, rk_binder_buffer_next
  PROVE  CInv'
<1>1. /\ at = "next" /\ at' = "checked" /\ UNCHANGED <<allocVars, b, pos, which, copied, result>>
      /\ size' \in IF Behind(b[which]) = {} THEN 0 .. Space ELSE {End(b[which]) - b[which]}
  BY Zenon DEF rk_binder_buffer_next
<1>2. at \in Running \ {"copy"} /\ at' \in Running /\ which \in {1, 2} /\ result' \in BOOLEAN
  BY Zenon, <1>1 DEF Running, CInv, Places
<1>3. /\ Layout' /\ Contents' /\ Backed' /\ Places' /\ Progress'
      /\ End(b[which])' = End(b[which]) /\ Behind(b[which])' = Behind(b[which])
  BY Zenon, <1>1, <1>2, ProbeSteps
<1>4. Copies'
  BY Zenon, <1>1, <1>2, CopiesKept
<1>5. size' = End(b[which]) - b[which]
  BY Zenon, <1>1 DEF CInv, Sized
<1>6. Sized'
  BY Zenon, <1>1, <1>3, <1>5 DEF Sized
<1>7. CompareExact'
  BY Zenon, <1>2 DEF CompareExact, Running
<1> QED
  BY Zenon, <1>3, <1>4, <1>6, <1>7 DEF CInv

(* No copy of a buffer in use is refused. *)
LEMMA CheckKeeps ==
  ASSUME CInv, rk_check_buffer
  PROVE  CInv'
<1>1. /\ at = "checked" /\ UNCHANGED <<allocVars, b, pos, which, copied>> /\ result' = FALSE
      /\ at' = IF /\ size >= chunk /\ pos <= size - chunk
                  /\ pos % WORD = 0 /\ ~buffers[b[which]].free
                 THEN "copy" ELSE "return"
  BY Zenon DEF rk_check_buffer
<1>2. at \in Running \ {"copy"} /\ which \in {1, 2} /\ result' \in BOOLEAN
  BY Zenon, <1>1 DEF Running, CInv, Places
<1>3. at' = "copy"
  <2>1. /\ b[which] \in Nat /\ ~buffers[b[which]].free /\ End(b[which]) \in Int
        /\ b[which] + Len(Text(b[which])) <= End(b[which])
    BY Zenon, <1>1, <1>2, ComparedBuffers
  <2>2. /\ total \in Nat /\ pos \in Nat /\ chunk \in Nat /\ pos + chunk <= total
        /\ Len(Text(b[which])) = total
    BY Zenon, <1>2, ChunkFacts
  <2>3. size = End(b[which]) - b[which]
    BY Zenon, <1>1 DEF CInv, Sized
  <2>4. pos % WORD = 0
    BY Zenon, <1>2 DEF CInv, Progress
  <2>5. size >= chunk /\ pos <= size - chunk
    BY SMT, <2>1, <2>2, <2>3
  <2> QED
    BY Zenon, <1>1, <2>1, <2>4, <2>5
<1>4. at' \in Running
  BY Zenon, <1>3 DEF Running
<1>5. Layout' /\ Contents' /\ Backed' /\ Places' /\ Progress'
  BY Zenon, <1>1, <1>2, <1>4, ProbeSteps
<1>6. Copies'
  BY Zenon, <1>1, <1>2, <1>4, CopiesKept
<1>7. Sized' /\ CompareExact'
  BY Zenon, <1>3 DEF Sized, CompareExact
<1> QED
  BY Zenon, <1>5, <1>6, <1>7 DEF CInv

(* What is read from one page is not empty, is in the page and in the chunk. *)
LEMMA PartFacts ==
  ASSUME CInv, at \in Running, which \in {1, 2}, Len(copied[which]) < chunk
  PROVE  LET n == Len(copied[which])
             part == PartInPage(chunk - n, Offset % PAGE_SIZE)
         IN  /\ n \in Nat /\ part \in Nat /\ 0 < part /\ n + part <= chunk
             /\ Offset \in Nat /\ part <= PAGE_SIZE - (Offset % PAGE_SIZE)
             /\ Offset = b[which] + pos + n /\ b[which] \in Nat
             /\ Offset + part <= End(b[which]) /\ End(b[which]) \in Int /\ End(b[which]) <= Space
<1> DEFINE n == Len(copied[which])
           part == PartInPage(chunk - n, Offset % PAGE_SIZE)
           o == Offset
           r == Offset % PAGE_SIZE
           s == b[which]
           e == End(s)
<1>1. copied[which] \in Seq(Nat)
  BY Zenon DEF CInv, Copies
<1>2. n \in Nat
  BY SMT, <1>1
<1>3. /\ s \in Nat /\ e \in Int /\ e <= Space /\ s + Len(Text(s)) <= e
  <2>1. at # "idle"
    BY Zenon DEF Running
  <2> QED
    BY Zenon, <2>1, ComparedBuffers
<1>4. /\ total \in Nat /\ pos \in Nat /\ chunk \in Nat /\ pos + chunk <= total
      /\ Len(Text(s)) = total
  BY Zenon, ChunkFacts
<1>5. o = s + pos + n
  BY Zenon DEF Offset
<1>6. o \in Nat
  <2> HIDE DEF o, s, n
  <2> QED
    BY SMT, <1>2, <1>3, <1>4, <1>5
<1>7. r \in 0 .. PAGE_SIZE - 1 /\ PAGE_SIZE \in Nat \ {0}
  BY Zenon, <1>6, DivMod, SizeAssumption
<1>8. part = IF chunk - n < PAGE_SIZE - r THEN chunk - n ELSE PAGE_SIZE - r
  BY Zenon DEF PartInPage, Smaller
<1>9. n < chunk
  OBVIOUS
<1>10. /\ part \in Nat /\ 0 < part /\ n + part <= chunk /\ part <= PAGE_SIZE - r /\ o + part <= e
  <2>1. s + total <= e
    BY Zenon, <1>3, <1>4
  <2> HIDE DEF o, s, n, r, e, part
  <2> QED
    BY SMT, <1>2, <1>3, <1>4, <1>5, <1>7, <1>8, <1>9, <2>1
<1> QED
  BY Zenon, <1>2, <1>3, <1>5, <1>6, <1>10

(* Every byte that is copied comes from its place in the buffer. *)
LEMMA CopyKeeps ==
  ASSUME CInv, CopyFromPage
  PROVE  CInv'
<1> DEFINE n == Len(copied[which])
           part == PartInPage(chunk - n, Offset % PAGE_SIZE)
           g == [i \in 1 .. part |-> mem[Offset + i - 1]]
           c == copied[which] \o g
<1>1. /\ at = "copy" /\ n < chunk /\ copied' = [copied EXCEPT ![which] = c]
      /\ UNCHANGED <<allocVars, at, b, pos, which, size, result>>
  BY Zenon DEF CopyFromPage
<1>2. at \in Running /\ at' \in Running /\ which \in {1, 2} /\ which' \in {1, 2} /\ result' \in BOOLEAN
  BY Zenon, <1>1 DEF Running, CInv, Places
<1>3. /\ Layout' /\ Contents' /\ Backed' /\ Places' /\ Progress' /\ chunk' = chunk
      /\ \A w \in {1, 2} : Text(b[w])' = Text(b[w])
  BY Zenon, <1>1, <1>2, ProbeSteps
<1>4. /\ n \in Nat /\ part \in Nat /\ 0 < part /\ n + part <= chunk
      /\ Offset \in Nat /\ Offset = b[which] + pos + n /\ b[which] \in Nat
      /\ Offset + part <= End(b[which]) /\ End(b[which]) \in Int /\ End(b[which]) <= Space
  BY Zenon, <1>1, <1>2, PartFacts
<1>5. /\ total \in Nat /\ pos \in Nat /\ chunk \in Nat /\ pos + chunk <= total
      /\ Len(Text(b[which])) = total
  BY Zenon, <1>2, ChunkFacts
<1>6. /\ copied \in Seq(Nat) \X Seq(Nat)
      /\ \A w \in {1, 2} : /\ Len(copied[w]) <= chunk
                           /\ \A i \in 1 .. Len(copied[w]) : copied[w][i] = Text(b[w])[pos + i]
      /\ which = 1 => copied[2] = <<>>
      /\ which = 2 => Len(copied[1]) = chunk
  BY Zenon, <1>2 DEF CInv, Copies
<1>7. copied[which] \in Seq(Nat)
  BY Zenon, <1>2, <1>6
<1>8. \A a \in 0 .. Space - 1 : mem[a] \in Nat
  BY Zenon DEF CInv, Contents
<1>9. \A i \in 1 .. Len(Text(b[which])) : mem[b[which] + i - 1] = Text(b[which])[i]
  <2>1. b[which] \in Starts /\ ~buffers[b[which]].free
    <3>1. at # "idle"
      BY Zenon, <1>1
    <3> QED
      BY Zenon, <1>2, <3>1, ComparedBuffers
  <2> QED
    BY Zenon, <2>1 DEF CInv, Contents
<1>10. g \in [1 .. part -> Nat]
  <2>1. ASSUME NEW i \in 1 .. part PROVE mem[Offset + i - 1] \in Nat
    <3>1. Offset + i - 1 \in 0 .. Space - 1
      <4> HIDE DEF part, n
      <4>1. Space \in Nat
        BY Zenon, SizeAssumption
      <4> QED
        BY SMT, <1>4, <4>1
    <3> QED
      BY Zenon, <1>8, <3>1
  <2> QED
    BY Zenon, <2>1
<1>11. ASSUME NEW i \in 1 .. part PROVE g[i] = Text(b[which])[pos + (n + i)]
  <2>1. pos + (n + i) \in 1 .. Len(Text(b[which])) /\ Offset + i - 1 = b[which] + (pos + (n + i)) - 1
    <3> HIDE DEF part, n
    <3> QED
      BY SMTT(30), <1>4, <1>5
  <2>2. g[i] = mem[Offset + i - 1]
    BY Zenon
  <2> QED
    BY Zenon, <1>9, <2>1, <2>2
<1>12. /\ c \in Seq(Nat) /\ Len(c) = n + part
       /\ \A i \in 1 .. n + part : c[i] = IF i <= n THEN copied[which][i] ELSE g[i - n]
  <2> HIDE DEF g, part
  <2> QED
    BY Zenon, <1>4, <1>7, <1>10, Longer
<1>13. \A i \in 1 .. Len(c) : c[i] = Text(b[which])[pos + i]
  <2> SUFFICES ASSUME NEW i \in 1 .. Len(c) PROVE c[i] = Text(b[which])[pos + i]
    BY Zenon
  <2> HIDE DEF c, g, part
  <2>1. i \in 1 .. n + part
    BY Zenon, <1>12
  <2>2. CASE i <= n
    <3>1. i \in 1 .. n
      <4> HIDE DEF n
      <4> QED
        BY SMT, <1>4, <2>1, <2>2
    <3> QED
      BY Zenon, <1>2, <1>6, <1>12, <2>1, <2>2, <3>1
  <2>3. CASE ~(i <= n)
    <3>1. i - n \in 1 .. part /\ n + (i - n) = i
      <4> HIDE DEF n
      <4> QED
        BY SMT, <1>4, <2>1, <2>3
    <3>2. g[i - n] = Text(b[which])[pos + (n + (i - n))]
      BY Zenon, <1>11, <3>1
    <3> QED
      BY Zenon, <1>12, <2>1, <2>3, <3>1, <3>2
  <2> QED
    BY Zenon, <2>2, <2>3
<1>14. /\ copied' \in Seq(Nat) \X Seq(Nat) /\ copied'[which] = c
       /\ \A v \in {1, 2} : v # which => copied'[v] = copied[v]
  <2> HIDE DEF c
  <2>1. Replaced(Seq(Nat), copied, which, c, copied')
    BY Zenon, <1>1, <1>2, <1>6, <1>12, PairExcept
  <2> QED
    BY Zenon, <2>1 DEF Replaced
<1>15. ASSUME NEW w \in {1, 2}
       PROVE  /\ Len(copied'[w]) <= chunk
              /\ \A i \in 1 .. Len(copied'[w]) : copied'[w][i] = Text(b[w])[pos + i]
  <2> HIDE DEF c
  <2>1. CASE w = which
    BY Zenon, <1>4, <1>12, <1>13, <1>14, <2>1
  <2>2. CASE w # which
    BY Zenon, <1>6, <1>14, <2>2
  <2> QED
    BY Zenon, <2>1, <2>2
<1>16. Copies'
  <2>1. which = 1 => copied'[2] = <<>>
    <3>1. which = 1 => 2 # which
      BY SMT
    <3> QED
      BY Zenon, <1>6, <1>14, <3>1
  <2>2. which = 2 => Len(copied'[1]) = chunk
    <3>1. which = 2 => 1 # which
      BY SMT
    <3> QED
      BY Zenon, <1>6, <1>14, <3>1
  <2> QED
    BY ZenonT(60), <1>1, <1>3, <1>14, <1>15, <2>1, <2>2 DEF Copies
<1>17. Sized' /\ CompareExact'
  BY Zenon, <1>1 DEF Sized, CompareExact
<1> QED
  BY Zenon, <1>3, <1>16, <1>17 DEF CInv

(* The second buffer is copied when the first copy is complete. *)
LEMMA OtherKeeps ==
  ASSUME CInv, CopyOther
  PROVE  CInv'
<1>1. /\ at = "copy" /\ which = 1 /\ Len(copied[1]) = chunk /\ which' = 2 /\ at' = "check"
      /\ UNCHANGED <<allocVars, b, pos, size, copied, result>>
  BY Zenon DEF CopyOther
<1>2. at \in Running /\ at' \in Running /\ which' \in {1, 2} /\ result' \in BOOLEAN
  BY Zenon, <1>1 DEF Running, CInv, Places
<1>3. /\ Layout' /\ Contents' /\ Backed' /\ Places' /\ Progress' /\ chunk' = chunk
      /\ \A w \in {1, 2} : Text(b[w])' = Text(b[w])
  BY Zenon, <1>1, <1>2, ProbeSteps
<1>4. Copies'
  <2>1. /\ copied \in Seq(Nat) \X Seq(Nat)
        /\ \A w \in {1, 2} : /\ Len(copied[w]) <= chunk
                             /\ \A i \in 1 .. Len(copied[w]) : copied[w][i] = Text(b[w])[pos + i]
        /\ copied[2] = <<>>
    BY Zenon, <1>1, <1>2 DEF CInv, Copies
  <2>2. which' # 1
    BY SMT, <1>1
  <2> QED
    BY Zenon, <1>1, <1>3, <2>1, <2>2 DEF Copies
<1>5. Sized' /\ CompareExact'
  BY Zenon, <1>1 DEF Sized, CompareExact
<1> QED
  BY Zenon, <1>3, <1>4, <1>5 DEF CInv

(* memcmp decides about a chunk, and the last chunk about the data. *)
LEMMA MemcmpKeeps ==
  ASSUME CInv, memcmp
  PROVE  CInv'
<1> DEFINE s == Text(b[1])
           t == Text(b[2])
<1>1. /\ at = "copy" /\ which = 2 /\ Len(copied[2]) = chunk
      /\ which' = 1 /\ copied' = <<<<>>, <<>>>> /\ UNCHANGED allocVars /\ b' = b
      /\ copied[1] # copied[2] => ReturnFalse /\ pos' = pos
      /\ copied[1] = copied[2] => pos' = pos + chunk /\ Continue(pos')
  BY Zenon DEF memcmp
<1>2. at \in Running /\ at # "idle" /\ result \in BOOLEAN
  BY Zenon, <1>1 DEF Running, CInv, Places
<1>3. /\ Layout' /\ Contents' /\ Backed' /\ Starts' = Starts /\ buffers' = buffers
      /\ \A u : Text(u)' = Text(u)
  BY Zenon, <1>1, ComparingReads
<1>4. /\ total \in Nat /\ pos \in Nat /\ chunk \in Nat /\ chunk > 0 /\ pos + chunk <= total
      /\ chunk = CHUNK \/ pos + chunk = total
      /\ Len(s) = total /\ Len(t) = total
  BY Zenon, <1>2, ChunkFacts
<1>5. s \in Seq(Nat) /\ t \in Seq(Nat)
  BY Zenon, <1>2, ComparedBuffers
<1>6. Text(b[1])' = s /\ Text(b[2])' = t /\ total' = total
  <2>1. Text(b[1])' = s /\ Text(b[2])' = t
    BY Zenon, <1>1, <1>3 DEF Text
  <2> QED
    BY Zenon, <2>1 DEF total
<1>7. /\ copied \in Seq(Nat) \X Seq(Nat) /\ Len(copied[1]) = chunk /\ Len(copied[2]) = chunk
      /\ \A i \in 1 .. chunk : copied[1][i] = s[pos + i] /\ copied[2][i] = t[pos + i]
  BY Zenon, <1>1, <1>2 DEF CInv, Copies
<1>8. copied[1] \in Seq(Nat) /\ copied[2] \in Seq(Nat)
  BY Zenon, <1>7
<1>9. ASSUME at' \in Running \cup {"return"}, result' \in BOOLEAN PROVE Places'
  <2>1. at' # "idle"
    BY Zenon, <1>9 DEF Running
  <2> QED
    BY Zenon, <1>1, <1>2, <1>3, <1>9, <2>1 DEF CInv, Places, Used
<1>10. CASE copied[1] # copied[2]
  <2>1. at' = "return" /\ result' = FALSE
    BY Zenon, <1>1, <1>10 DEF ReturnFalse
  <2>2. s # t
    <3>1. SUFFICES ASSUME s = t PROVE copied[1] = copied[2]
      BY Zenon, <1>10
    <3>2. \A i \in 1 .. Len(copied[1]) : copied[1][i] = copied[2][i]
      BY Zenon, <1>7, <3>1
    <3> QED
      BY ZenonT(60), <1>7, <1>8, <3>2, SameBytes
  <2> QED
    BY Zenon, <1>3, <1>6, <1>9, <2>1, <2>2
       DEF CInv, Progress, Copies, Sized, CompareExact, Running
<1>11. ASSUME copied[1] = copied[2], NEW i \in 1 .. pos + chunk PROVE s[i] = t[i]
  <2>1. CASE i \in 1 .. pos
    BY Zenon, <1>2, <2>1 DEF CInv, Progress
  <2>2. CASE ~(i \in 1 .. pos)
    <3>1. i - pos \in 1 .. chunk /\ pos + (i - pos) = i
      BY SMT, <1>4, <2>2
    <3>2. /\ copied[1][i - pos] = s[pos + (i - pos)]
          /\ copied[2][i - pos] = t[pos + (i - pos)]
      BY Zenon, <1>7, <3>1
    <3> QED
      BY Zenon, <1>11, <3>1, <3>2
  <2> QED
    BY Zenon, <2>1, <2>2
<1>12. CASE copied[1] = copied[2] /\ ~(pos' < total)
  <2>1. at' = "return" /\ result' = TRUE
    BY Zenon, <1>1, <1>3, <1>12 DEF Continue, total
  <2>2. s = t
    <3>1. pos + chunk = total
      BY SMT, <1>1, <1>4, <1>12
    <3>2. \A i \in 1 .. Len(s) : s[i] = t[i]
      BY Zenon, <1>4, <1>11, <1>12, <3>1
    <3> HIDE DEF s, t
    <3> QED
      BY Zenon, <1>4, <1>5, <3>2, SameBytes
  <2> QED
    BY Zenon, <1>3, <1>6, <1>9, <2>1, <2>2
       DEF CInv, Progress, Copies, Sized, CompareExact, Running
<1>13. CASE copied[1] = copied[2] /\ pos' < total
  <2>1. at' = "check" /\ result' = result
    BY Zenon, <1>1, <1>3, <1>13 DEF Continue, total
  <2>2. Places'
    BY Zenon, <1>2, <1>9, <2>1 DEF Running
  <2>3. pos' = pos + chunk /\ pos' \in Nat
    BY SMT, <1>1, <1>4, <1>13
  <2>4. pos' % WORD = 0
    <3>1. chunk = CHUNK
      BY SMT, <1>4, <1>13, <2>3
    <3>2. pos % WORD = 0 /\ CHUNK % WORD = 0 /\ WORD \in Nat \ {0} /\ CHUNK \in Nat
      BY Zenon, <1>2, SizeAssumption DEF CInv, Progress
    <3> QED
      BY Zenon, <1>4, <2>3, <3>1, <3>2, WordsAdd
  <2>5. Progress'
    <3>1. \A i \in 1 .. pos' : s[i] = t[i]
      BY Zenon, <1>11, <1>13, <2>3
    <3> QED
      BY ZenonT(60), <1>4, <1>6, <1>13, <2>3, <2>4, <3>1 DEF Progress
  <2>6. Copies'
    <3>1. chunk' \in Nat /\ chunk' > 0
      BY SMT, <1>4, <1>6, <1>13, <2>3, SizeAssumption DEF chunk, Smaller
    <3> QED
      BY Zenon, <1>1, <3>1, NothingCopied
  <2> QED
    BY Zenon, <1>3, <2>1, <2>2, <2>5, <2>6 DEF CInv, Sized, CompareExact
<1> QED
  BY Zenon, <1>10, <1>12, <1>13

(* The comparison is over. *)
LEMMA ReturnKeeps ==
  ASSUME CInv, Return
  PROVE  CInv'
<1>1. /\ at' = "idle" /\ b' = <<>> /\ which' = 1 /\ result' = FALSE /\ UNCHANGED allocVars
  BY Zenon DEF Return
<1>2. Layout' /\ Contents' /\ Backed'
  BY Zenon, <1>1, ComparingReads
<1>3. Places'
  BY Zenon, <1>1 DEF Places
<1> QED
  BY Zenon, <1>1, <1>2, <1>3 DEF CInv, Progress, Copies, Sized, CompareExact, Running

-----------------------------------------------------------------------------
(* The theorems *)

(* At first one free buffer covers the whole mapping. *)
LEMMA InitInv == Init => CInv
<1> SUFFICES ASSUME Init PROVE CInv
  BY Zenon
<1>1. /\ buffers = [x \in {0} |-> FreeBuffer] /\ at = "idle" /\ b = <<>> /\ which = 1
      /\ mem = [a \in 0 .. Space - 1 |-> 0] /\ result = FALSE
  BY Zenon DEF Init
<1>2. Starts = {0} /\ buffers[0] = FreeBuffer
  BY Zenon, <1>1 DEF Starts
<1>3. FreeBuffer.free = TRUE /\ FreeBuffer \in [text : Seq(Nat), free : BOOLEAN]
  BY SMT DEF FreeBuffer
<1>4. Space \in Nat /\ 0 < Space
  BY SMT, SizeAssumption
<1>5. IsEnd(Starts, 0, Space) /\ Starts \subseteq 0 .. Space - 1 /\ Space \in Int
  BY SMT, <1>2, <1>4 DEF IsEnd
<1>6. Layout
  <2>1. buffers \in [Starts -> [text : Seq(Nat), free : BOOLEAN]]
    BY Zenon, <1>1, <1>2, <1>3
  <2> QED
    BY Zenon, <1>2, <1>3, <1>5, <2>1 DEF Layout
<1>7. Contents
  <2>1. mem \in [0 .. Space - 1 -> Nat]
    BY SMT, <1>1
  <2> QED
    BY Zenon, <1>2, <1>3, <2>1 DEF Contents
<1>8. Backed
  BY Zenon, <1>2, <1>3 DEF Backed
<1>9. Places
  BY Zenon, <1>1 DEF Places
<1> QED
  BY Zenon, <1>1, <1>6, <1>7, <1>8, <1>9 DEF CInv, Progress, Copies, Sized, CompareExact,
     Running

(* The invariant of the comparison. *)
THEOREM CopyInvariant == Spec => []CInv
<1>1. CInv /\ [Next]_vars => CInv'
  <2> SUFFICES ASSUME CInv, [Next]_vars PROVE CInv'
    BY Zenon
  <2>1. CASE Driver
    BY Zenon, <2>1, DriverKeeps
  <2>2. CASE Compare
    BY Zenon, <2>2, LastKeeps, NextKeeps, CheckKeeps, CopyKeeps, OtherKeeps, MemcmpKeeps,
       ReturnKeeps
       DEF Compare
  <2>3. CASE \E b1, b2 \in Starts : DataEqual(b1, b2)
    BY Zenon, <2>3, BeginKeeps
  <2>4. CASE UNCHANGED vars
    <3>1. UNCHANGED allocVars /\ UNCHANGED probeVars
      BY Zenon, <2>4 DEF vars
    <3>2. /\ Layout' /\ Contents' /\ Backed' /\ Starts' = Starts /\ buffers' = buffers
          /\ \A s : End(s)' = End(s)
      BY Zenon, <3>1, ComparingReads
    <3>3. \A t \in Compared : t \in Starts /\ ~buffers[t].free => Stays(t)
      BY Zenon, <3>2 DEF Stays
    <3>4. Places' /\ Progress' /\ Copies' /\ Sized' /\ CompareExact'
      BY Zenon, <3>1, <3>2, <3>3, ProbeKept DEF CInv
    <3> QED
      BY Zenon, <3>2, <3>4 DEF CInv
  <2> QED
    BY Zenon, <2>1, <2>2, <2>3, <2>4 DEF Next
<1> QED
  BY InitInv, <1>1, PTL DEF Spec

(* rkx_binder_buffer_data_equal returns true exactly for equal data,       *)
(* whatever the driver and the shrinker do while it reads the list and the *)
(* pages without alloc->mutex.                                             *)
THEOREM ComparesExactly == Spec => []CompareExact
<1>1. CInv => CompareExact
  BY Zenon DEF CInv
<1> QED
  BY <1>1, CopyInvariant, PTL

(* rk_binder_alloc_do_buffer_copy reads inside the buffer and inside one   *)
(* page at a time, and the page is there.                                  *)
THEOREM ReadsBackedPages == Spec => []ReadsBacked
<1>1. CInv => ReadsBacked
  <2> DEFINE n == Len(copied[which])
             part == PartInPage(chunk - n, Offset % PAGE_SIZE)
             o == Offset
  <2> SUFFICES ASSUME CInv, at = "copy", n < chunk
               PROVE  /\ o + part <= End(b[which])
                      /\ PagesOf(o, o + part) = {o \div PAGE_SIZE}
                      /\ o \div PAGE_SIZE \in pages
    BY Zenon DEF ReadsBacked
  <2>1. at \in Running /\ which \in {1, 2} /\ at # "idle"
    BY Zenon DEF Running, CInv, Places
  <2>2. /\ n \in Nat /\ part \in Nat /\ 0 < part /\ o \in Nat /\ part <= PAGE_SIZE - (o % PAGE_SIZE)
        /\ o = b[which] + pos + n /\ b[which] \in Nat
        /\ o + part <= End(b[which]) /\ End(b[which]) \in Int
    BY Zenon, <2>1, PartFacts
  <2>3. pos \in Nat /\ PAGE_SIZE \in Nat \ {0}
    BY Zenon, <2>1, ChunkFacts, SizeAssumption
  <2> HIDE DEF n, part, o
  <2>4. ASSUME NEW a \in o .. (o + part) - 1 PROVE a \div PAGE_SIZE = o \div PAGE_SIZE
    <3>1. o % PAGE_SIZE \in Int
      BY SMT, <2>2, <2>3
    <3>2. a - o \in Nat /\ a - o < PAGE_SIZE - (o % PAGE_SIZE) /\ o + (a - o) = a
      BY SMT, <2>2, <2>3, <3>1
    <3>3. (o + (a - o)) \div PAGE_SIZE = o \div PAGE_SIZE
      BY Zenon, <2>2, <2>3, <3>2, SamePage
    <3> QED
      BY Zenon, <3>2, <3>3
  <2>5. o \in o .. (o + part) - 1 /\ o \in b[which] .. End(b[which]) - 1
    BY SMT, <2>2, <2>3
  <2>6. PagesOf(o, o + part) = {o \div PAGE_SIZE}
    <3>1. PagesOf(o, o + part) \subseteq {o \div PAGE_SIZE}
      BY Zenon, <2>4 DEF PagesOf
    <3>2. o \div PAGE_SIZE \in PagesOf(o, o + part)
      BY Zenon, <2>5 DEF PagesOf
    <3> HIDE DEF PagesOf
    <3> QED
      BY SMT, <3>1, <3>2
  <2>7. o \div PAGE_SIZE \in PagesOf(b[which], End(b[which]))
    BY Zenon, <2>5 DEF PagesOf
  <2>8. PagesOf(b[which], End(b[which])) \subseteq pages
    BY Zenon, <2>1, ComparedBuffers DEF CInv, Backed
  <2> QED
    BY Zenon, <2>2, <2>6, <2>7, <2>8
<1> QED
  BY <1>1, CopyInvariant, PTL

=============================================================================
