----------------------------- MODULE BufferCopy -----------------------------
(***************************************************************************)
(* Comparing the data of two transactions on 5.10 and 5.15 kernels: the    *)
(* probe's rkx_binder_buffer_data_equal (rkx_binder_kp.c) copies both      *)
(* buffers chunk by chunk with rk_binder_alloc_copy_from_buffer            *)
(* (rkx_binder_alloc.c), which reads the allocator's list of buffers and   *)
(* its pages without alloc->mutex.  Meanwhile the binder driver allocates, *)
(* splits, frees and merges other buffers of the process, and the shrinker *)
(* takes pages that no buffer uses.                                        *)
(*                                                                         *)
(* Addresses are offsets into the mapping, and the list of buffers is in   *)
(* their order: the next entry is the one at the next address.  A buffer   *)
(* in use holds a text; the two buffers that are compared stay in use,     *)
(* which BinderKp shows.                                                   *)
(***************************************************************************)
EXTENDS Integers, Sequences

CONSTANTS
  Texts,       \* the data of transactions
  Space,       \* alloc->buffer_size
  PAGE_SIZE,
  CHUNK,       \* sizeof(c1)
  WORD         \* buffers start at, and are copied from, multiples of it

\* Data are sequences of bytes.
ASSUME TextsAssumption == Texts \subseteq Seq(Nat)

ASSUME SizeAssumption ==
  /\ {Space, PAGE_SIZE, CHUNK, WORD} \subseteq Nat \ {0}
  /\ Space % PAGE_SIZE = 0 /\ PAGE_SIZE % WORD = 0 /\ CHUNK % WORD = 0

VARIABLES
  buffers,     \* alloc->buffers, the buffer at each address that has one
  mem,         \* the bytes of the mapping
  pages,       \* the pages that are there
  at, b, pos,  \* the probe: its place, the two buffers, pos
  which,       \* the buffer that is being copied, 1 or 2
  size,        \* what rk_binder_alloc_buffer_size returned
  copied,      \* what has been copied of the chunk, per buffer
  result       \* what rkx_binder_buffer_data_equal returns

allocVars == <<buffers, mem, pages>>
probeVars == <<at, b, pos, which, size, copied, result>>
vars == <<allocVars, probeVars>>

Starts == DOMAIN buffers
Behind(s) == {t \in Starts : t > s}
End(s) == IF Behind(s) = {} THEN Space
          ELSE CHOOSE t \in Behind(s) : \A u \in Behind(s) : t <= u
Text(s) == buffers[s].text
Compared == {b[i] : i \in DOMAIN b}
PagesOf(from, to) == {a \div PAGE_SIZE : a \in from .. to - 1}

-----------------------------------------------------------------------------
(* The binder driver, under alloc->mutex *)

Smaller(m, n) == IF m < n THEN m ELSE n

\* An empty transaction takes a word too.
Words(text) == (Len(text) + WORD - 1) \div WORD
Room(text) == WORD * (IF Words(text) = 0 THEN 1 ELSE Words(text))

FreeBuffer == [text |-> <<>>, free |-> TRUE]

\* The front of a free buffer is used, the rest becomes a buffer behind it.
binder_alloc_new_buf(text, s) ==
  LET rest == IF End(s) - s > Room(text) THEN {s + Room(text)} ELSE {} IN
  /\ buffers[s].free /\ End(s) - s >= Room(text)
  /\ buffers' = [t \in Starts \cup rest |->
                   IF t = s THEN [text |-> text, free |-> FALSE]
                   ELSE IF t \in Starts THEN buffers[t] ELSE FreeBuffer]
  /\ mem' = [a \in DOMAIN mem |-> IF a - s + 1 \in DOMAIN text THEN text[a - s + 1] ELSE mem[a]]
  /\ pages' = pages \cup PagesOf(s, s + Room(text))
  /\ UNCHANGED probeVars

\* A free buffer right behind is taken in, and one right in front takes it in.
binder_free_buf(s) ==
  LET next == {t \in Starts : t = End(s) /\ buffers[t].free}
      prev == {t \in Starts : End(t) = s /\ buffers[t].free}
  IN
  /\ ~buffers[s].free /\ s \notin Compared
  /\ buffers' = [t \in Starts \ (next \cup (IF prev = {} THEN {} ELSE {s})) |->
                   IF t = s THEN FreeBuffer ELSE buffers[t]]
  /\ UNCHANGED <<mem, pages, probeVars>>

\* The shrinker takes a page that no buffer in use touches.
Shrink(p) ==
  /\ p \in pages
  /\ \A s \in Starts : ~buffers[s].free => p \notin PagesOf(s, End(s))
  /\ pages' = pages \ {p}
  /\ UNCHANGED <<buffers, mem, probeVars>>

-----------------------------------------------------------------------------
(* rkx_binder_buffer_data_equal *)

total == Len(Text(b[1]))
chunk == Smaller(total - pos, CHUNK)

\* Whether there is a chunk left to compare, at position p.
Continue(p) == IF p < Len(Text(b'[1])) THEN at' = "check" /\ UNCHANGED result
                                       ELSE at' = "return" /\ result' = TRUE

ReturnFalse == at' = "return" /\ result' = FALSE

\* The node's lock is held: neither buffer is freed before the return.
DataEqual(b1, b2) ==
  /\ at = "idle" /\ b1 # b2
  /\ ~buffers[b1].free /\ ~buffers[b2].free
  /\ b' = <<b1, b2>> /\ pos' = 0 /\ which' = 1 /\ copied' = <<<<>>, <<>>>>
  /\ IF Len(Text(b1)) # Len(Text(b2)) THEN ReturnFalse ELSE Continue(0)
  /\ UNCHANGED <<allocVars, size>>

\* rk_binder_alloc_buffer_size asks whether the buffer is the last one ...
list_is_last ==
  /\ at = "check"
  /\ IF Behind(b[which]) = {}
       THEN at' = "checked" /\ size' = Space - b[which]
       ELSE at' = "next" /\ UNCHANGED size
  /\ UNCHANGED <<allocVars, b, pos, which, copied, result>>

(* ... and later reads the start of the next one.  Behind the last entry   *)
(* is the list head, which is not a buffer: any size can come out.         *)
rk_binder_buffer_next ==
  /\ at = "next"
  /\ at' = "checked"
  /\ size' \in IF Behind(b[which]) = {} THEN 0 .. Space
               ELSE {End(b[which]) - b[which]}
  /\ UNCHANGED <<allocVars, b, pos, which, copied, result>>

(* allow_user_free is set when the transaction is delivered, and then it   *)
(* is not compared any more.                                               *)
rk_check_buffer ==
  /\ at = "checked"
  /\ at' = IF /\ size >= chunk /\ pos <= size - chunk
              /\ pos % WORD = 0 /\ ~buffers[b[which]].free
             THEN "copy" ELSE "return"
  /\ size' = 0 /\ result' = FALSE
  /\ UNCHANGED <<allocVars, b, pos, which, copied>>

\* Where the next byte is read: buffer_space_offset.
Offset == b[which] + pos + Len(copied[which])

\* Faulty: the part in the next page is read behind this page.
WholeChunk(left, pgoff) == left

\* What is read from one page.
PartInPage(left, pgoff) == Smaller(left, PAGE_SIZE - pgoff)

\* One round of rk_binder_alloc_do_buffer_copy.
CopyFromPage ==
  LET part == PartInPage(chunk - Len(copied[which]), Offset % PAGE_SIZE) IN
  /\ at = "copy" /\ Len(copied[which]) < chunk
  /\ copied' = [copied EXCEPT ![which] = @ \o [i \in 1 .. part |-> mem[Offset + i - 1]]]
  /\ UNCHANGED <<allocVars, at, b, pos, which, size, result>>

\* The first copy is complete: check and copy the second buffer.
CopyOther ==
  /\ at = "copy" /\ which = 1 /\ Len(copied[1]) = chunk
  /\ which' = 2 /\ at' = "check"
  /\ UNCHANGED <<allocVars, b, pos, size, copied, result>>

\* Faulty: the first chunk decides.
FirstChunk ==
  /\ at = "copy" /\ which = 2 /\ Len(copied[2]) = chunk
  /\ at' = "return" /\ result' = (copied[1] = copied[2])
  /\ UNCHANGED <<allocVars, b, pos, which, size, copied>>

memcmp ==
  /\ at = "copy" /\ which = 2 /\ Len(copied[2]) = chunk
  /\ IF copied[1] # copied[2]
       THEN ReturnFalse /\ UNCHANGED <<pos, b>>
       ELSE pos' = pos + chunk /\ UNCHANGED b /\ Continue(pos')
  /\ which' = 1 /\ copied' = <<<<>>, <<>>>>
  /\ UNCHANGED <<allocVars, size>>

Return ==
  /\ at = "return"
  /\ at' = "idle" /\ b' = <<>> /\ pos' = 0 /\ which' = 1 /\ size' = 0
  /\ copied' = <<<<>>, <<>>>> /\ result' = FALSE
  /\ UNCHANGED allocVars

-----------------------------------------------------------------------------

Init ==
  /\ buffers = [s \in {0} |-> FreeBuffer]
  /\ mem = [a \in 0 .. Space - 1 |-> 0] /\ pages = {}
  /\ at = "idle" /\ b = <<>> /\ pos = 0 /\ which = 1 /\ size = 0
  /\ copied = <<<<>>, <<>>>> /\ result = FALSE

Driver == \/ \E s \in Starts : binder_free_buf(s) \/ \E text \in Texts : binder_alloc_new_buf(text, s)
          \/ \E p \in pages : Shrink(p)

Compare == \/ list_is_last \/ rk_binder_buffer_next \/ rk_check_buffer
           \/ CopyFromPage \/ CopyOther \/ memcmp \/ Return

Next == \/ Driver \/ Compare
        \/ \E b1, b2 \in Starts : DataEqual(b1, b2)

Spec == Init /\ [][Next]_vars

-----------------------------------------------------------------------------
(* Properties *)

(* rkx_binder_buffer_data_equal returns true exactly when the two          *)
(* transactions carry the same data, although the list and the pages       *)
(* change while it reads them: the entry behind a buffer in use keeps its  *)
(* place, so no copy is refused and every byte comes from its buffer.      *)
CompareExact == at = "return" => (result <=> Text(b[1]) = Text(b[2]))

(* rk_binder_alloc_do_buffer_copy never follows the page_ptr of a page the *)
(* shrinker has taken, and what it reads ends inside the buffer.           *)
ReadsBacked ==
  at = "copy" /\ Len(copied[which]) < chunk =>
    LET part == PartInPage(chunk - Len(copied[which]), Offset % PAGE_SIZE)
    IN  /\ Offset + part <= End(b[which])
        /\ PagesOf(Offset, Offset + part) = {Offset \div PAGE_SIZE}
        /\ Offset \div PAGE_SIZE \in pages
=============================================================================
