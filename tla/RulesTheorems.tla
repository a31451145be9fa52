---------------------------- MODULE RulesTheorems ----------------------------
(***************************************************************************)
(* Theorems about FreeAsyncRules for any interfaces, buckets, entries and  *)
(* readers.                                                                *)
(*                                                                         *)
(* NoUseAfterFree: a walk may be on an entry that was deleted long ago and *)
(* follow its pointer to another one.  The invariant RInv says that what a *)
(* walk may reach is kept for it: a pointer leads from what a reader may   *)
(* stand on only to what that reader may stand on.                         *)
(*                                                                         *)
(* ListsIntact and RefinesTable: on top of RInv, TInv relates the lists to *)
(* the rules they hold and a walk to what its lookup has been shown, and   *)
(* CInv the counter to the number of linked rules.                         *)
(***************************************************************************)
EXTENDS FreeAsyncRules, FiniteSetTheorems, TLAPS

Types ==
  /\ next \in [Node -> Entry \cup {NONE}]
  /\ mem \in [Entry -> {"free", "linked", "unlinked", "zombie"}]
  /\ grace \in [Entry -> SUBSET Reader]
  /\ at \in [Reader -> {"idle", "count", "visit", "advance"}]
  /\ asked \in [Reader -> Keys \cup {NONE}]
  /\ pos \in [Reader -> Node \cup {NONE}]
  /\ \A r \in Reader : at[r] # "idle" => asked[r] \in Keys

Live(p) == p \in Bucket \/ mem[p] = "linked"

\* Pointers of the lists lead to linked entries, and to every one just once.
Lists ==
  /\ \A p \in Node : Live(p) /\ next[p] # NONE => mem[next[p]] = "linked"
  /\ \A p, q \in Node : Live(p) /\ Live(q) /\ next[p] # NONE /\ next[p] = next[q] => p = q
  /\ \A e \in Entry : mem[e] = "linked" => \E p \in Node : Live(p) /\ next[p] = e

\* One entry at most is between hash_del_rcu and kfree_rcu.
Pending ==
  /\ op.kind = "kfree" => op.entry \in Entry
  /\ \A e \in Entry : mem[e] = "unlinked" <=> op.kind = "kfree" /\ op.entry = e
  /\ \A e \in Entry : mem[e] = "unlinked" /\ next[e] # NONE =>
                        mem[next[e]] \in {"linked", "unlinked"}
  /\ op.kind \in {"barrier", "down"} => \A e \in Entry : mem[e] # "linked"

\* A grace period waits only for readers that are inside RCU.
Graces == \A e \in Entry : mem[e] = "zombie" => grace[e] \subseteq InRcu

\* Entry e is not freed before reader r has left.
Kept(r, e) == mem[e] \in {"linked", "unlinked"} \/ (mem[e] = "zombie" /\ r \in grace[e])

Walks ==
  \A r \in InRcu :
    /\ pos[r] \in Bucket \/ (pos[r] \in Entry /\ Kept(r, pos[r]))
    /\ \A e \in Entry : Kept(r, e) /\ next[e] # NONE => Kept(r, next[e])

\* The inductive invariant.
RInv == Types /\ Lists /\ Pending /\ Graces /\ Walks

-----------------------------------------------------------------------------

(* What hash_del_rcu does to the lists: the one pointer to the entry skips *)
(* it, and the lists of the other entries stay as they are.                *)
LEMMA Unlink ==
  ASSUME Types, Lists, NEW e \in Entry, mem[e] = "linked", hash_del_rcu(e),
         NEW m \in {"unlinked", "zombie"}, mem' = [mem EXCEPT ![e] = m]
  PROVE  /\ next' \in [Node -> Entry \cup {NONE}]
         /\ Lists'
         /\ \A x \in Entry : next'[x] # next[x] =>
              mem[x] = "linked" /\ next[x] = e /\ next'[x] = next[e]
<1> DEFINE p == Pred(e)
<1>1. p \in Node /\ next[p] = e /\ Live(p)
  <2>1. \E q \in Node : next[q] = e /\ (q \in Bucket \/ mem[q] = "linked")
    BY Zenon DEF Lists, Live
  <2> QED  BY Zenon, <2>1 DEF Pred, Live, Node
<1>2. next' = [next EXCEPT ![p] = next[e]]
  BY Zenon DEF hash_del_rcu
<1> HIDE DEF p
<1>3. e \in Node /\ NONE \notin Entry /\ Entry \cap Bucket = {}
  BY Zenon, DisjointAssumption DEF Node
<1>4. next' \in [Node -> Entry \cup {NONE}]
  BY Zenon, <1>1, <1>2, <1>3 DEF Types
<1>5. \A q \in Node : next'[q] = IF q = p THEN next[e] ELSE next[q]
  BY Zenon, <1>1, <1>2 DEF Types
<1>6. \A q \in Node : Live(q)' <=> Live(q) /\ q # e
  BY Zenon, <1>3 DEF Live, Types, Node
<1>7. \A x \in Entry : mem'[x] = "linked" <=> mem[x] = "linked" /\ x # e
  BY Zenon DEF Types
<1>8. \A q \in Node : Live(q) /\ next[q] = e => q = p
  BY Zenon, <1>1, <1>3 DEF Lists
<1>9. ASSUME NEW q \in Node, Live(q)', next'[q] # NONE  PROVE mem'[next'[q]] = "linked"
  <2>1. next'[q] \in Entry
    BY Zenon, <1>4, <1>9
  <2>2. CASE q = p
    BY <1>3, <1>5, <1>6, <1>7, <1>8, <1>9, <2>1, <2>2 DEF Lists, Live
  <2>3. CASE q # p
    BY Zenon, <1>5, <1>6, <1>7, <1>8, <1>9, <2>1, <2>3 DEF Lists
  <2> QED  BY Zenon, <2>2, <2>3
<1>10. ASSUME NEW q \in Node, NEW s \in Node, Live(q)', Live(s)', next'[q] # NONE,
              next'[q] = next'[s]
       PROVE  q = s
  BY <1>3, <1>5, <1>6, <1>10 DEF Lists, Live
<1>11. ASSUME NEW x \in Entry, mem'[x] = "linked"
       PROVE  \E q \in Node : Live(q)' /\ next'[q] = x
  <2>1. PICK q \in Node : Live(q) /\ next[q] = x
    BY Zenon, <1>7, <1>11 DEF Lists
  <2>2. CASE q = e
    BY Zenon, <1>1, <1>5, <1>6, <1>7, <1>11, <2>1, <2>2
  <2>3. CASE q # e
    BY Zenon, <1>1, <1>5, <1>6, <1>7, <1>11, <2>1, <2>3
  <2> QED  BY Zenon, <2>2, <2>3
<1>12. Lists'
  BY Zenon, <1>9, <1>10, <1>11 DEF Lists
<1>13. ASSUME NEW x \in Entry, next'[x] # next[x]
       PROVE  mem[x] = "linked" /\ next[x] = e /\ next'[x] = next[e]
  BY Zenon, <1>1, <1>3, <1>5, <1>13 DEF Live, Node
<1> QED  BY Zenon, <1>4, <1>12, <1>13

(* AddLink puts a free entry at the head of a bucket: hash_add_rcu. No list *)
(* and no walk leads to the memory before.                                 *)
LEMMA LinkRInv ==
  ASSUME RInv, NEW k \in Keys, NEW s \in Strategies, AddLink(k, s)
  PROVE  RInv'
<1> DEFINE b == Hash[k[1]]
<1>1. b \in Bucket
  BY Zenon, HashAssumption DEF Keys
<1>2. PICK e \in Entry : /\ mem[e] = "free"
                        /\ mem' = [mem EXCEPT ![e] = "linked"]
                        /\ next' = [next EXCEPT ![e] = next[b], ![b] = e]
  BY Zenon DEF AddLink
<1>3. op.kind = "none" /\ op'.kind = "inc" /\ UNCHANGED <<grace, at, asked, pos>>
  BY Zenon DEF AddLink, Idle, readerVars
<1> HIDE DEF b
<1>4. e \in Node /\ b \in Node /\ e # b /\ NONE \notin Entry /\ Entry \cap Bucket = {}
  BY Zenon, <1>1, DisjointAssumption DEF Node
<1>5. \A q \in Node : next'[q] = IF q = b THEN e ELSE IF q = e THEN next[b] ELSE next[q]
  BY Zenon, <1>2, <1>4 DEF RInv, Types
<1>6. \A x \in Entry : mem'[x] = IF x = e THEN "linked" ELSE mem[x]
  BY Zenon, <1>2 DEF RInv, Types
<1>7. Types'
  BY Zenon, <1>2, <1>3, <1>4 DEF RInv, Types
<1>8. \A q \in Node : Live(q)' <=> Live(q) \/ q = e
  BY Zenon, <1>4, <1>6 DEF Live, Node
<1>9. \A q \in Node : Live(q) => next[q] # e
  BY Zenon, <1>2, <1>4 DEF RInv, Lists
<1>10. \A q \in Node : next[q] \in Entry \cup {NONE} /\ next'[q] \in Entry \cup {NONE}
  BY Zenon, <1>7 DEF RInv, Types
<1>11. Live(b) /\ ~Live(e)
  BY Zenon, <1>1, <1>2, <1>4 DEF Live
<1>12. Lists'
  <2>1. ASSUME NEW q \in Node, Live(q)', next'[q] # NONE  PROVE mem'[next'[q]] = "linked"
    BY <1>4, <1>5, <1>6, <1>8, <1>10, <1>11, <2>1 DEF RInv, Lists
  <2>2. ASSUME NEW q \in Node, NEW t \in Node, Live(q)', Live(t)', next'[q] # NONE,
               next'[q] = next'[t]
        PROVE  q = t
    BY <1>4, <1>5, <1>8, <1>9, <1>11, <2>2 DEF RInv, Lists
  <2>3. ASSUME NEW x \in Entry, mem'[x] = "linked"
        PROVE  \E q \in Node : Live(q)' /\ next'[q] = x
    <3>1. CASE x = e
      BY Zenon, <1>4, <1>5, <1>8, <1>11, <3>1
    <3>2. CASE x # e
      <4>1. PICK q \in Node : Live(q) /\ next[q] = x
        BY Zenon, <1>6, <2>3, <3>2 DEF RInv, Lists
      <4>2. q # e
        BY Zenon, <1>11, <4>1
      <4> QED  BY Zenon, <1>4, <1>5, <1>8, <4>1, <4>2
    <3> QED  BY Zenon, <3>1, <3>2
  <2> QED  BY Zenon, <2>1, <2>2, <2>3 DEF Lists
<1>13. Pending'
  BY Zenon, <1>3, <1>6 DEF RInv, Pending
<1>14. Graces'
  BY Zenon, <1>3, <1>6 DEF RInv, Graces, InRcu
<1>15. Walks'
  <2>1. InRcu' = InRcu /\ pos' = pos
    BY Zenon, <1>3 DEF InRcu
  <2>2. \A r \in Reader, x \in Entry : Kept(r, x)' <=> Kept(r, x) \/ x = e
    BY Zenon, <1>2, <1>3, <1>6 DEF Kept
  <2>3. ASSUME NEW r \in InRcu, NEW x \in Entry, Kept(r, x)', next'[x] # NONE
        PROVE  Kept(r, next[x])'
    <3>1. r \in Reader /\ x \in Node /\ x # b /\ next'[x] \in Entry
      BY Zenon, <1>1, <1>4, <1>10, <2>3 DEF InRcu, Node
    <3>2. CASE x = e
      <4>1. mem[next[b]] = "linked"
        BY Zenon, <1>4, <1>5, <1>11, <2>3, <3>1, <3>2 DEF RInv, Lists
      <4> QED  BY Zenon, <1>4, <1>5, <2>2, <3>1, <3>2, <4>1 DEF Kept
    <3>3. CASE x # e
      BY Zenon, <1>5, <2>2, <2>3, <3>1, <3>3 DEF RInv, Walks
    <3> QED  BY Zenon, <3>2, <3>3
  <2>4. ASSUME NEW r \in InRcu
        PROVE  (pos[r] \in Bucket \/ (pos[r] \in Entry /\ Kept(r, pos[r])))'
    BY Zenon, <2>1, <2>2, <2>4 DEF RInv, Walks, InRcu
  <2> QED  BY Zenon, <2>1, <2>3, <2>4 DEF Walks
<1> QED  BY Zenon, <1>7, <1>12, <1>13, <1>14, <1>15 DEF RInv

(* Taking an entry out of its list keeps it for the walks: a walk that may *)
(* reach it now may reach it until it is given to kfree_rcu and beyond.    *)
LEMMA UnlinkWalks ==
  ASSUME RInv, NEW e \in Entry, mem[e] = "linked", hash_del_rcu(e),
         NEW m \in {"unlinked", "zombie"}, mem' = [mem EXCEPT ![e] = m],
         grace' \in [Entry -> SUBSET Reader], UNCHANGED <<at, pos>>,
         \A x \in Entry : x # e => grace'[x] = grace[x],
         m = "zombie" => grace'[e] = InRcu
  PROVE  Walks'
<1>1. InRcu' = InRcu /\ InRcu \subseteq Reader
  BY Zenon DEF InRcu
<1>2. next' \in [Node -> Entry \cup {NONE}] /\
      \A x \in Entry : next'[x] # next[x] => next[x] = e /\ next'[x] = next[e]
  BY Zenon, Unlink DEF RInv
<1>3. \A r \in InRcu, x \in Entry : Kept(r, x)' <=> Kept(r, x)
  BY Zenon DEF Kept, RInv, Types
<1>4. Entry \subseteq Node /\ NONE \notin Entry
  BY Zenon, DisjointAssumption DEF Node
<1>5. ASSUME NEW r \in InRcu, NEW x \in Entry, Kept(r, x)', next'[x] # NONE
      PROVE  Kept(r, next[x])'
  <2>1. next'[x] \in Entry /\ Kept(r, x) /\ Kept(r, e)
    BY Zenon, <1>2, <1>3, <1>4, <1>5 DEF Kept
  <2>2. Kept(r, next'[x])
    BY Zenon, <1>2, <1>5, <2>1 DEF RInv, Walks
  <2> QED  BY Zenon, <1>3, <2>1, <2>2
<1>6. ASSUME NEW r \in InRcu
      PROVE  (pos[r] \in Bucket \/ (pos[r] \in Entry /\ Kept(r, pos[r])))'
  BY Zenon, <1>3, <1>6 DEF RInv, Walks
<1> QED  BY Zenon, <1>1, <1>5, <1>6 DEF Walks

(* DelUnlink: the entry waits for its kfree_rcu and still points into the  *)
(* list.                                                                   *)
LEMMA DelRInv ==
  ASSUME RInv, NEW k \in Keys, DelUnlink(k)
  PROVE  RInv'
<1>1. PICK e \in Linked(k) : /\ hash_del_rcu(e)
                            /\ mem' = [mem EXCEPT ![e] = "unlinked"]
                            /\ op' = [kind |-> "kfree", entry |-> e]
  BY Zenon DEF DelUnlink
<1>2. e \in Entry /\ mem[e] = "linked"
  BY Zenon DEF Linked
<1>3. op.kind = "none" /\ op'.kind = "kfree" /\ op'.entry = e /\ UNCHANGED <<grace, at, asked, pos>>
  BY Zenon, <1>1 DEF DelUnlink, Idle, readerVars
<1>4. /\ next' \in [Node -> Entry \cup {NONE}]
      /\ Lists'
      /\ \A x \in Entry : next'[x] # next[x] => mem[x] = "linked" /\ next[x] = e /\ next'[x] = next[e]
  BY Zenon, <1>1, <1>2, Unlink DEF RInv
<1>5. Types'
  BY Zenon, <1>1, <1>2, <1>3, <1>4 DEF RInv, Types
<1>6. \A x \in Entry : mem'[x] = IF x = e THEN "unlinked" ELSE mem[x]
  BY Zenon, <1>1, <1>2 DEF RInv, Types
<1>7. Pending'
  <2>1. \A x \in Entry : mem[x] # "unlinked"
    BY Zenon, <1>3 DEF RInv, Pending
  <2>2. next'[e] # NONE => next'[e] \in Entry /\ mem[next'[e]] = "linked"
    BY <1>2, <1>4 DEF RInv, Lists, Live, Node
  <2> QED  BY Zenon, <1>2, <1>3, <1>6, <2>1, <2>2 DEF Pending
<1>8. Graces'
  BY Zenon, <1>3, <1>6 DEF RInv, Graces, InRcu
<1>9. Walks'
  BY Zenon, <1>1, <1>2, <1>3, UnlinkWalks DEF RInv, Types
<1> QED  BY Zenon, <1>4, <1>5, <1>7, <1>8, <1>9 DEF RInv

(* DelKfreeRcu: the entry becomes a zombie that is kept for every reader   *)
(* that is inside RCU.                                                     *)
LEMMA KfreeRInv ==
  ASSUME RInv, DelKfreeRcu
  PROVE  RInv'
<1> DEFINE e == op.entry
<1>1. e \in Entry /\ mem[e] = "unlinked" /\ \A x \in Entry : mem[x] = "unlinked" => x = e
  BY Zenon DEF RInv, Pending, DelKfreeRcu
<1>2. /\ mem' = [mem EXCEPT ![e] = "zombie"] /\ grace' = [grace EXCEPT ![e] = InRcu]
      /\ op'.kind = "dec" /\ UNCHANGED <<next, at, asked, pos>>
  BY Zenon DEF DelKfreeRcu, kfree_rcu, kfree_rcu_waits_for, readerVars
<1> HIDE DEF e
<1>3. InRcu' = InRcu /\ InRcu \subseteq Reader
  BY Zenon, <1>2 DEF InRcu
<1>4. \A x \in Entry : /\ mem'[x] = IF x = e THEN "zombie" ELSE mem[x]
                       /\ grace'[x] = IF x = e THEN InRcu ELSE grace[x]
  BY Zenon, <1>1, <1>2 DEF RInv, Types
<1>5. Types'
  BY Zenon, <1>1, <1>2, <1>3 DEF RInv, Types
<1>6. \A q \in Node : next[q] \in Entry \cup {NONE}
  BY Zenon DEF RInv, Types
<1>7. (\A q \in Node : Live(q)' <=> Live(q)) /\ \A x \in Entry : mem'[x] = "linked" <=> mem[x] = "linked"
  BY Zenon, <1>1, <1>4, DisjointAssumption DEF Live, Node
<1>8. Lists'
  BY Zenon, <1>2, <1>6, <1>7 DEF RInv, Lists
<1>9. Pending'
  BY <1>1, <1>2, <1>4 DEF Pending
<1>10. Graces'
  BY Zenon, <1>3, <1>4 DEF RInv, Graces
<1>11. \A r \in InRcu, x \in Entry : Kept(r, x)' <=> Kept(r, x)
  BY Zenon, <1>1, <1>4 DEF Kept
<1>12. Walks'
  BY Zenon, <1>2, <1>3, <1>6, <1>11 DEF RInv, Walks, Node
<1> QED  BY Zenon, <1>5, <1>8, <1>9, <1>10, <1>12 DEF RInv

(* RcuReclaim frees an entry no reader is kept for, so no walk leads to it. *)
LEMMA ReclaimRInv ==
  ASSUME RInv, NEW e \in Entry, RcuReclaim(e)
  PROVE  RInv'
<1>1. mem[e] = "zombie" /\ grace[e] = {}
  BY Zenon DEF RcuReclaim
<1>2. /\ mem' = [mem EXCEPT ![e] = "free"] /\ next' = [next EXCEPT ![e] = NONE]
      /\ UNCHANGED <<grace, op, at, asked, pos>>
  BY Zenon DEF RcuReclaim, readerVars
<1>3. e \in Node /\ e \notin Bucket /\ NONE \notin Entry
  BY Zenon, DisjointAssumption DEF Node
<1>4. \A x \in Entry : mem'[x] = IF x = e THEN "free" ELSE mem[x]
  BY Zenon, <1>2 DEF RInv, Types
<1>5. \A q \in Node : next'[q] = (IF q = e THEN NONE ELSE next[q]) /\ next[q] \in Entry \cup {NONE}
  BY Zenon, <1>2, <1>3 DEF RInv, Types
<1>6. Types'
  BY Zenon, <1>2, <1>3 DEF RInv, Types
<1>7. (\A q \in Node : Live(q)' <=> Live(q)) /\ ~Live(e)
  BY Zenon, <1>1, <1>3, <1>4 DEF Live, Node
<1>8. Lists'
  <2>1. \A q \in Node : Live(q)' => next'[q] = next[q]
    BY Zenon, <1>5, <1>7
  <2>2. \A x \in Entry : mem'[x] = "linked" <=> mem[x] = "linked"
    BY Zenon, <1>1, <1>4
  <2> QED  BY <1>5, <1>7, <2>1, <2>2 DEF RInv, Lists
<1>9. Pending'
  <2>1. \A x \in Entry : mem'[x] = "unlinked" <=> mem[x] = "unlinked"
    BY Zenon, <1>1, <1>4
  <2>2. ASSUME NEW x \in Entry, mem[x] = "unlinked", next'[x] # NONE
        PROVE  mem'[next'[x]] \in {"linked", "unlinked"}
    BY <1>1, <1>4, <1>5, <2>2 DEF RInv, Pending, Node
  <2> QED  BY <1>1, <1>2, <1>4, <2>1, <2>2 DEF RInv, Pending
<1>10. Graces'
  BY <1>2, <1>4 DEF RInv, Graces, InRcu
<1>11. InRcu' = InRcu /\ \A r \in InRcu, x \in Entry : Kept(r, x)' <=> Kept(r, x)
  BY <1>1, <1>2, <1>4 DEF Kept, InRcu
<1>12. \A r \in InRcu : ~Kept(r, e)
  BY Zenon, <1>1 DEF Kept
<1>13. Walks'
  BY Zenon, <1>2, <1>5, <1>11, <1>12 DEF RInv, Walks, Node
<1> QED  BY Zenon, <1>6, <1>8, <1>9, <1>10, <1>13 DEF RInv

(* DestroyEntry unlinks an entry and gives it to kfree_rcu in one step.    *)
LEMMA DestroyRInv ==
  ASSUME RInv, NEW e \in Entry, DestroyEntry(e)
  PROVE  RInv'
<1>1. mem[e] = "linked" /\ hash_del_rcu(e) /\ op.kind = "destroy" /\ op' = op
  BY Zenon DEF DestroyEntry
<1>2. /\ mem' = [mem EXCEPT ![e] = "zombie"] /\ grace' = [grace EXCEPT ![e] = InRcu]
      /\ UNCHANGED <<at, asked, pos>>
  BY Zenon DEF DestroyEntry, kfree_rcu, kfree_rcu_waits_for, readerVars
<1>3. next' \in [Node -> Entry \cup {NONE}] /\ Lists'
  BY Zenon, <1>1, <1>2, Unlink DEF RInv
<1>4. InRcu' = InRcu /\ InRcu \subseteq Reader
  BY Zenon, <1>2 DEF InRcu
<1>5. \A x \in Entry : /\ mem'[x] = IF x = e THEN "zombie" ELSE mem[x]
                       /\ grace'[x] = IF x = e THEN InRcu ELSE grace[x]
  BY Zenon, <1>2 DEF RInv, Types
<1>6. Types'
  BY Zenon, <1>2, <1>3, <1>4 DEF RInv, Types
<1>7. Pending'
  BY <1>1, <1>5 DEF RInv, Pending
<1>8. Graces'
  BY Zenon, <1>4, <1>5 DEF RInv, Graces
<1>9. Walks'
  BY Zenon, <1>1, <1>2, <1>5, <1>6, UnlinkWalks DEF Types
<1> QED  BY Zenon, <1>3, <1>6, <1>7, <1>8, <1>9 DEF RInv

(* A reader that leaves RCU (Return) is no longer waited for, and what is  *)
(* kept for the others stays.                                              *)
LEMMA ReturnRInv ==
  ASSUME RInv, NEW r \in Reader, NEW a, Return(r, a)
  PROVE  RInv'
<1>1. /\ asked' = [asked EXCEPT ![r] = NONE] /\ at' = [at EXCEPT ![r] = "idle"]
      /\ pos' = [pos EXCEPT ![r] = NONE] /\ grace' = [e \in Entry |-> grace[e] \ {r}]
      /\ UNCHANGED <<next, mem, op>>
  BY Zenon DEF Return, rcu_read_unlock
<1>2. Types'
  BY Zenon, <1>1 DEF RInv, Types
<1>3. InRcu' = InRcu \ {r} /\ \A q \in InRcu' : pos'[q] = pos[q]
  BY Zenon, <1>1 DEF InRcu, RInv, Types
<1>4. Lists'
  BY Zenon, <1>1 DEF RInv, Lists, Live
<1>5. Pending'
  BY Zenon, <1>1 DEF RInv, Pending
<1>6. Graces'
  BY Zenon, <1>1, <1>3 DEF RInv, Graces
<1>7. \A q \in InRcu', e \in Entry : Kept(q, e)' <=> Kept(q, e)
  BY Zenon, <1>1, <1>3 DEF Kept
<1>8. \A e \in Entry : next[e] \in Entry \cup {NONE}
  BY Zenon DEF RInv, Types, Node
<1>9. Walks'
  BY Zenon, <1>1, <1>3, <1>7, <1>8 DEF RInv, Walks
<1> QED  BY Zenon, <1>2, <1>4, <1>5, <1>6, <1>9 DEF RInv

(* The other steps of rkx_free_async_lookup_rcu. One that enters RCU starts *)
(* at a bucket, which leads to linked entries only; a zombie's grace period *)
(* does not wait for it, and nothing it may reach leads to one.            *)
LEMMA LookupRInv ==
  ASSUME RInv, NEW r \in Reader, Lookup(r) \/ \E k \in Rpc \X Code : LookupBegin(r, k)
  PROVE  RInv'
<1> USE DEF RInv
<1>0. \A e \in Entry : e \in Node /\ next[e] \in Entry \cup {NONE}
  BY Zenon DEF Types, Node
<1> DEFINE Same == UNCHANGED <<next, mem, grace, op>>
<1>1. ASSUME Same  PROVE Lists' /\ Pending'
  BY <1>1 DEF Lists, Live, Pending
<1>2. ASSUME Same, InRcu \subseteq InRcu'  PROVE Graces'
  BY Zenon, <1>2 DEF Graces
<1>3. ASSUME Same, InRcu' \subseteq InRcu,
             \A q \in InRcu' : pos'[q] = pos[q] \/ (pos'[q] = next[pos[q]] /\ pos'[q] \in Entry)
      PROVE  Walks'
  <2>1. ASSUME NEW q \in InRcu'
        PROVE  (pos[q] \in Bucket \/ (pos[q] \in Entry /\ Kept(q, pos[q])))'
    <3>1. CASE pos'[q] = pos[q]
      BY Zenon, <1>3, <2>1, <3>1 DEF Walks, Kept
    <3>2. CASE pos'[q] = next[pos[q]] /\ pos'[q] \in Entry
      <4>1. pos[q] \in Bucket => mem[next[pos[q]]] = "linked"
        BY Zenon, <3>2, DisjointAssumption DEF Lists, Live, Node
      <4> QED  BY <1>3, <2>1, <3>2, <4>1, DisjointAssumption DEF Walks, Kept
    <3> QED  BY Zenon, <1>3, <2>1, <3>1, <3>2
  <2> QED  BY Zenon, <1>3, <2>1 DEF Walks, Kept
<1>4. ASSUME NEW k \in Rpc \X Code, LookupBegin(r, k)  PROVE RInv'
  <2>1. /\ asked' = [asked EXCEPT ![r] = k] /\ at' = [at EXCEPT ![r] = "count"]
        /\ Same /\ pos' = pos
    BY Zenon, <1>4 DEF LookupBegin, tableVars
  <2>2. k \in Keys
    BY Zenon DEF Keys
  <2>3. Types'
    BY Zenon, <2>1, <2>2 DEF Types
  <2>4. r \notin InRcu
    BY Zenon, <1>4, DisjointAssumption DEF LookupBegin, Types, InRcu
  <2>5. InRcu' = InRcu
    BY Zenon, <2>1, <2>4 DEF Types, InRcu
  <2>6. \A q \in InRcu' : pos'[q] = pos[q]
    BY Zenon, <2>1
  <2>7. Graces' /\ Walks'
    BY Zenon, <1>2, <1>3, <2>1, <2>5, <2>6
  <2> QED  BY Zenon, <1>1, <2>1, <2>3, <2>7
<1>5. ASSUME at[r] = "count", at' = [at EXCEPT ![r] = "advance"],
             pos' = [pos EXCEPT ![r] = Hash[asked[r][1]]], Same, asked' = asked
      PROVE  RInv'
  <2>1. asked[r] \in Keys /\ Hash[asked[r][1]] \in Bucket
    BY Zenon, <1>5, HashAssumption DEF Types, Keys
  <2>2. Types'
    BY Zenon, <1>5, <2>1 DEF Types, Node
  <2>3. InRcu' = InRcu \cup {r} /\ r \notin InRcu
    BY <1>5 DEF Types, InRcu
  <2>4. \A q \in Reader, e \in Entry : Kept(q, e)' <=> Kept(q, e)
    BY Zenon, <1>5 DEF Kept
  <2>5. pos'[r] \in Bucket
    BY Zenon, <1>5, <2>1 DEF Types
  <2>6. ASSUME NEW e \in Entry, Kept(r, e), next[e] # NONE  PROVE Kept(r, next[e])
    <3>1. mem[e] \in {"linked", "unlinked"}
      BY Zenon, <2>3, <2>6 DEF Kept, Graces
    <3> QED  BY Zenon, <1>0, <2>6, <3>1 DEF Kept, Lists, Live, Pending
  <2>7. \A q \in InRcu : pos'[q] = pos[q]
    BY Zenon, <1>5, <2>3 DEF Types, InRcu
  <2>8. Walks'
    <3> SUFFICES ASSUME NEW q \in InRcu'
                 PROVE  (/\ pos[q] \in Bucket \/ (pos[q] \in Entry /\ Kept(q, pos[q]))
                         /\ \A e \in Entry : Kept(q, e) /\ next[e] # NONE => Kept(q, next[e]))'
      BY Zenon DEF Walks
    <3>1. q \in Reader /\ next' = next
      BY Zenon, <1>5 DEF InRcu
    <3>2. CASE q = r
      BY Zenon, <1>0, <2>4, <2>5, <2>6, <3>1, <3>2
    <3>3. CASE q # r
      BY Zenon, <1>0, <2>3, <2>4, <2>7, <3>1, <3>3 DEF Walks
    <3> QED  BY Zenon, <3>2, <3>3
  <2> QED  BY Zenon, <1>1, <1>2, <1>5, <2>2, <2>3, <2>8
<1>6. ASSUME at[r] = "visit", at' = [at EXCEPT ![r] = "advance"], Same, UNCHANGED <<asked, pos>>
      PROVE  RInv'
  <2>1. Types' /\ InRcu' = InRcu
    BY Zenon, <1>6 DEF Types, InRcu
  <2>2. \A q \in InRcu' : pos'[q] = pos[q]
    BY Zenon, <1>6
  <2>3. Graces' /\ Walks'
    BY Zenon, <1>2, <1>3, <1>6, <2>1, <2>2
  <2> QED  BY Zenon, <1>1, <1>6, <2>1, <2>3
<1>7. ASSUME at[r] = "advance", next[pos[r]] # NONE, pos' = [pos EXCEPT ![r] = next[pos[r]]],
             at' = [at EXCEPT ![r] = "visit"], Same, asked' = asked
      PROVE  RInv'
  <2>1. r \in InRcu /\ pos[r] \in Node /\ next[pos[r]] \in Entry
    BY Zenon, <1>7 DEF Types, InRcu, Walks, Node
  <2>2. Types'
    BY Zenon, <1>7, <2>1 DEF Types, Node
  <2>3. InRcu' = InRcu
    BY Zenon, <1>7, <2>1 DEF Types, InRcu
  <2>4. \A q \in InRcu' : pos'[q] = pos[q] \/ (pos'[q] = next[pos[q]] /\ pos'[q] \in Entry)
    BY Zenon, <1>7, <2>1 DEF Types, InRcu
  <2> QED  BY Zenon, <1>1, <1>2, <1>3, <1>7, <2>2, <2>3, <2>4
<1>8. CASE LookupCount(r)
  BY Zenon, <1>5, <1>8, ReturnRInv DEF LookupCount, tableVars
<1>9. CASE LookupVisit(r)
  BY Zenon, <1>6, <1>9, ReturnRInv DEF LookupVisit, tableVars
<1>10. CASE LookupAdvance(r)
  BY Zenon, <1>7, <1>10, ReturnRInv DEF LookupAdvance, tableVars
<1> QED  BY Zenon, <1>4, <1>8, <1>9, <1>10 DEF Lookup

(* Every step of commands, readers, grace periods and the destruction      *)
(* keeps the invariant.                                                    *)
LEMMA StepRInv == RInv /\ [Next]_vars => RInv'
<1> SUFFICES ASSUME RInv, [Next]_vars  PROVE RInv'
  BY Zenon
<1>1. ASSUME UNCHANGED <<next, mem, grace, at, asked, pos>>,
             op' = op \/ (op'.kind \notin {"kfree", "barrier", "down"} /\ op.kind # "kfree")
                      \/ (op.kind = "barrier" /\ op'.kind = "down")
      PROVE  RInv'
  <2>1. Types' /\ Lists' /\ Graces' /\ Walks'
    BY <1>1 DEF RInv, Types, Lists, Live, Graces, Walks, Kept, InRcu
  <2>2. Pending'
    BY Zenon, <1>1 DEF RInv, Pending
  <2> QED  BY Zenon, <2>1, <2>2 DEF RInv
<1>2. CASE UNCHANGED vars
  BY Zenon, <1>1, <1>2 DEF vars, tableVars, readerVars
<1>3. ASSUME NEW k \in Keys, NEW s \in Strategies, AddUpdate(k, s)  PROVE RInv'
  BY Zenon, <1>1, <1>3 DEF AddUpdate, readerVars
<1>4. CASE AddCount \/ DelCount \/ DestroyBegin \/ DestroyReturn
  BY <1>1, <1>4 DEF AddCount, DelCount, DestroyBegin, DestroyReturn, Idle, tableVars, readerVars
<1>5. CASE DestroyCount
  <2>1. op.kind = "destroy" /\ op'.kind = "barrier" /\ UNCHANGED <<next, mem, grace, at, asked, pos>>
    BY Zenon, <1>5 DEF DestroyCount, readerVars
  <2>2. Types' /\ Lists' /\ Graces' /\ Walks'
    BY <2>1 DEF RInv, Types, Lists, Live, Graces, Walks, Kept, InRcu
  <2>3. Pending'
    BY Zenon, <1>5, <2>1 DEF RInv, Pending, DestroyCount
  <2> QED  BY Zenon, <2>2, <2>3 DEF RInv
<1>6. CASE rkx_init_free_async
  <2>1. /\ op.kind = "down" /\ op'.kind = "none" /\ UNCHANGED <<mem, grace, at, asked, pos>>
        /\ next' = [p \in DOMAIN next |-> IF p \in Bucket THEN NONE ELSE next[p]]
    BY Zenon, <1>6 DEF rkx_init_free_async, Idle, readerVars
  <2>2. \A q \in Node : next'[q] = IF q \in Bucket THEN NONE ELSE next[q]
    BY Zenon, <2>1 DEF RInv, Types
  <2>3. \A e \in Entry : mem[e] # "linked" /\ mem[e] # "unlinked" /\ next'[e] = next[e]
    BY Zenon, <2>1, <2>2, DisjointAssumption DEF RInv, Pending, Node
  <2>4. Types'
    BY Zenon, <2>1 DEF RInv, Types
  <2>5. Lists' /\ Pending' /\ Graces'
    BY <2>1, <2>2, <2>3 DEF RInv, Lists, Live, Pending, Graces, InRcu, Node
  <2>6. Walks'
    BY <2>1, <2>3 DEF RInv, Walks, Kept, InRcu
  <2> QED  BY Zenon, <2>4, <2>5, <2>6 DEF RInv
<1> QED
  BY Zenon, <1>2, <1>3, <1>4, <1>5, <1>6, LinkRInv, DelRInv, KfreeRInv, DestroyRInv, ReclaimRInv, LookupRInv
  DEF Next, Command, CommandEnd, Destroy

(* A walk of rkx_free_async_lookup_rcu never stands on freed memory, for   *)
(* any number of readers, buckets and entries: kfree_rcu waits for the     *)
(* readers that may still come to the entry by an old pointer.             *)
THEOREM WalksAreSafe == Spec => []NoUseAfterFree
<1>1. Init => RInv
  BY DisjointAssumption DEF Init, RInv, Types, Lists, Live, Pending, Graces, Walks, InRcu, Node, Idle
<1>2. RInv => NoUseAfterFree
  BY Zenon DEF RInv, Walks, Kept, NoUseAfterFree
<1> QED  BY <1>1, <1>2, StepRInv, PTL DEF Spec

-----------------------------------------------------------------------------
(* The lists hold the rules, and a lookup answers with one of them: the    *)
(* invariant on top of RInv that ListsIntact and RefinesTable need.        *)

Answers == Strategies \cup {NONE}

Wildcard(k) == <<k[1], WILD>>

\* The bucket whose list a node belongs to.
Home(p) == IF p \in Bucket THEN p ELSE Hash[rule[p].key[1]]

RuleTypes ==
  /\ rule \in [Entry -> [key : Keys \cup {NONE}, strategy : Answers]]
  /\ wild \in [Reader -> Answers] /\ answer \in [Reader -> Answers]
  /\ seen \in [Reader -> [Keys -> SUBSET Answers]]
  /\ rkx_free_async_count \in Int
  /\ \A r \in Reader : asked[r] = NONE <=> at[r] = "idle"
  /\ \A r \in Reader : at[r] = "visit" => pos[r] \in Entry

\* An entry keeps its rule until its memory is free; no key is linked twice;
\* the list of a bucket stays in the bucket and leads to each of its entries.
Rules ==
  /\ \A e \in Entry : mem[e] # "free" => rule[e].key \in Keys /\ Strategy(e) \in Strategies
  /\ \A e, f \in Entry :
       mem[e] = "linked" /\ mem[f] = "linked" /\ rule[e].key = rule[f].key => e = f
  /\ \A p \in Node : Live(p) /\ next[p] # NONE => Home(next[p]) = Home(p)
  /\ \A e \in Entry : mem[e] = "linked" => e \in Reach(Home(e))

\* Who may hold the mutex, and that lookups come only while the table is up.
Ops ==
  /\ op.kind \in {"none", "inc", "kfree", "dec", "destroy", "barrier", "down"}
  /\ op.kind = "none" => op = Idle
  /\ op.kind = "inc" => op.key \in Keys /\ Linked(op.key) # {}
  /\ up <=> op.kind \notin {"destroy", "barrier", "down"}
  /\ ~up => \A r \in Reader : asked[r] = NONE

\* A running lookup has been shown every value its two rules had.
Shown ==
  \A r \in Reader, k \in Keys :
    IF asked[r] # NONE /\ k \in Consulted(asked[r]) THEN Value(k) \subseteq seen[r][k]
                                                    ELSE seen[r][k] = {}

\* What a walk can still meet was a rule while the lookup ran.
Met ==
  \A r \in InRcu, e \in Entry :
    e \in Reach(pos[r]) /\ rule[e].key \in Consulted(asked[r]) => Strategy(e) \in seen[r][rule[e].key]

Front(r, e) == e \in Reach(pos[r]) /\ (at[r] = "advance" => e # pos[r])

\* A rule that was there all the time is ahead of the walk, or was taken.
Ahead ==
  \A r \in InRcu, e \in Entry : mem[e] = "linked" =>
    /\ rule[e].key = asked[r] /\ NONE \notin seen[r][asked[r]] => Front(r, e)
    /\ rule[e].key = Wildcard(asked[r]) /\ NONE \notin seen[r][Wildcard(asked[r])] =>
         Front(r, e) \/ wild[r] # NONE

Wilds ==
  \A r \in Reader : wild[r] # NONE => r \in InRcu /\ wild[r] \in seen[r][Wildcard(asked[r])]

\* The inductive invariant of the table with its lookups.
TInv == RInv /\ RuleTypes /\ Rules /\ Ops /\ Shown /\ Met /\ Ahead /\ Wilds

-----------------------------------------------------------------------------
(* Reach: how a change of one pointer shows in what the pointers lead to.  *)

(* A node is where it starts, and pointers go on from what is reached.     *)
LEMMA ReachGoesOn ==
  ASSUME Types, NEW p \in Node
  PROVE  /\ p \in Reach(p) /\ Reach(p) \subseteq Node
         /\ \A y \in Reach(p) : next[y] # NONE => next[y] \in Reach(p)
<1>1. p \in Reach(p) /\ Reach(p) \subseteq Node
  BY Zenon DEF Reach
<1>2. ASSUME NEW y \in Reach(p), next[y] # NONE  PROVE next[y] \in Reach(p)
  <2>1. next[y] \in Node
    BY Zenon, <1>2, <1>1 DEF Types, Node
  <2> QED  BY Zenon, <1>2, <2>1 DEF Reach
<1> QED  BY Zenon, <1>1, <1>2

(* What is reached stays in any set that the pointers do not leave.        *)
LEMMA ReachInside ==
  ASSUME NEW K \in SUBSET Node, \A x \in K : next[x] # NONE => next[x] \in K, NEW p \in K
  PROVE  Reach(p) \subseteq K
BY Zenon DEF Reach

(* A walk that follows one pointer still has ahead what was ahead of it.   *)
LEMMA ReachStep ==
  ASSUME Types, NEW p \in Node, NEW e \in Reach(p), e # p
  PROVE  next[p] # NONE /\ e \in Reach(next[p])
<1>1. next[p] # NONE
  <2>1. SUFFICES ASSUME next[p] = NONE  PROVE FALSE
    BY Zenon
  <2>2. {p} \in SUBSET Node /\ p \in {p} /\ \A y \in {p} : next[y] # NONE => next[y] \in {p}
    BY Zenon, <2>1
  <2> QED  BY Zenon, <2>2 DEF Reach
<1>2. ASSUME NEW S \in SUBSET Node, next[p] \in S, \A y \in S : next[y] # NONE => next[y] \in S
      PROVE  e \in S
  <2>1. /\ S \cup {p} \in SUBSET Node /\ p \in S \cup {p}
        /\ \A y \in S \cup {p} : next[y] # NONE => next[y] \in S \cup {p}
    BY Zenon, <1>2
  <2> QED  BY Zenon, <2>1 DEF Reach
<1> QED  BY Zenon, <1>1, <1>2 DEF Reach

(* Pointers that change outside of a set a walk cannot leave change        *)
(* nothing for that walk: RcuReclaim.                                      *)
LEMMA ReachFrame ==
  ASSUME NEW K \in SUBSET Node, \A x \in K : next[x] # NONE => next[x] \in K,
         \A x \in K : next'[x] = next[x], NEW p \in K
  PROVE  Reach(p)' = Reach(p)
<1>1. ASSUME NEW e \in Reach(p), NEW S \in SUBSET Node, p \in S,
             \A y \in S : next'[y] # NONE => next'[y] \in S
      PROVE  e \in S
  <2>1. /\ S \cap K \in SUBSET Node /\ p \in S \cap K
        /\ \A y \in S \cap K : next[y] # NONE => next[y] \in S \cap K
    BY Zenon, <1>1
  <2>2. e \in S \cap K
    BY Zenon, <2>1 DEF Reach
  <2> QED  BY Zenon, <2>2
<1>2. ASSUME NEW e \in Reach(p)', NEW S \in SUBSET Node, p \in S,
             \A y \in S : next[y] # NONE => next[y] \in S
      PROVE  e \in S
  <2>1. /\ S \cap K \in SUBSET Node /\ p \in S \cap K
        /\ \A y \in S \cap K : next'[y] # NONE => next'[y] \in S \cap K
    BY Zenon, <1>2
  <2>2. e \in S \cap K
    BY Zenon, <2>1 DEF Reach
  <2> QED  BY Zenon, <2>2
<1> QED  BY Zenon, <1>1, <1>2 DEF Reach

(* hash_add_rcu puts d behind b: what was reached is reached, and nothing  *)
(* new but d, as long as d's memory could not be reached before.           *)
LEMMA ReachAdd ==
  ASSUME Types, NEW K \in SUBSET Node, \A x \in K : next[x] # NONE => next[x] \in K,
         NEW d \in Entry, d \notin K, NEW b \in Node, b # d, NONE \notin Entry,
         \A q \in Node : next'[q] = IF q = b THEN d ELSE IF q = d THEN next[b] ELSE next[q],
         NEW p \in K
  PROVE  Reach(p) \subseteq Reach(p)' /\ Reach(p)' \subseteq Reach(p) \cup {d}
<1>1. ASSUME NEW e \in Reach(p), NEW S \in SUBSET Node, p \in S,
             \A y \in S : next'[y] # NONE => next'[y] \in S
      PROVE  e \in S
  <2>1. \A y \in S \cap K : next[y] # NONE => next[y] \in S
    BY Zenon, <1>1 DEF Node
  <2>2. /\ S \cap K \in SUBSET Node /\ p \in S \cap K
        /\ \A y \in S \cap K : next[y] # NONE => next[y] \in S \cap K
    BY Zenon, <1>1, <2>1
  <2>3. e \in S \cap K
    BY Zenon, <2>2 DEF Reach
  <2> QED  BY Zenon, <2>3
<1>2. /\ p \in Reach(p) /\ Reach(p) \subseteq Node /\ d \notin Reach(p)
      /\ \A y \in Reach(p) : next[y] # NONE => next[y] \in Reach(p)
  BY Zenon, ReachGoesOn, ReachInside
<1> DEFINE T == IF b \in Reach(p) THEN Reach(p) \cup {d} ELSE Reach(p)
<1>3. T \in SUBSET Node /\ p \in T /\ \A y \in T : next'[y] # NONE => next'[y] \in T
  BY Zenon, <1>2 DEF Node
<1>4. Reach(p)' \subseteq T
  <2> HIDE DEF T
  <2> QED  BY Zenon, <1>3 DEF Reach
<1>5. Reach(p) \subseteq Reach(p)'
  BY Zenon, <1>1 DEF Reach
<1> QED  BY Zenon, <1>4, <1>5

(* hash_del_rcu lets the pointer to d skip it: everything else stays       *)
(* reached, from d as well, and nothing new is.                            *)
LEMMA ReachDel ==
  ASSUME Types, NEW d \in Entry, NEW k \in Node, next[k] = d, NONE \notin Entry,
         \A q \in Node : next'[q] = IF q = k THEN next[d] ELSE next[q], NEW p \in Node
  PROVE  Reach(p) \ {d} \subseteq Reach(p)' /\ Reach(p)' \subseteq Reach(p)
<1>1. ASSUME NEW e \in Reach(p), e # d, NEW S \in SUBSET Node, p \in S,
             \A y \in S : next'[y] # NONE => next'[y] \in S
      PROVE  e \in S
  <2> DEFINE T == IF k \in S THEN S \cup {d} ELSE S
  <2>1. T \in SUBSET Node /\ p \in T
    BY Zenon, <1>1 DEF Node
  <2>2. \A y \in T : next[y] # NONE => next[y] \in T
    BY Zenon, <1>1 DEF Node
  <2>3. e \in T
    <3> HIDE DEF T
    <3> QED  BY Zenon, <2>1, <2>2 DEF Reach
  <2> QED  BY Zenon, <1>1, <2>3
<1>2. Reach(p) \ {d} \subseteq Reach(p)'
  BY Zenon, <1>1 DEF Reach
<1>3. /\ p \in Reach(p) /\ Reach(p) \in SUBSET Node
      /\ \A y \in Reach(p) : next[y] # NONE => next[y] \in Reach(p)
  BY Zenon, ReachGoesOn
<1>4. \A y \in Reach(p) : next'[y] # NONE => next'[y] \in Reach(p)
  BY Zenon, <1>3
<1>5. Reach(p)' \subseteq Reach(p)
  BY Zenon, <1>3, <1>4 DEF Reach
<1> QED  BY Zenon, <1>2, <1>5

-----------------------------------------------------------------------------
(* What follows from the invariant in one state *)

WalkSet(r) == {p \in Node : p \in Bucket \/ Kept(r, p)}
HomeSet(b) == {p \in Node : Live(p) /\ Home(p) = b}

(* A walk stays on what is kept for it.                                    *)
LEMMA WalkClosed ==
  ASSUME RInv, NEW r \in InRcu
  PROVE  /\ WalkSet(r) \in SUBSET Node /\ pos[r] \in WalkSet(r) /\ pos[r] \in Node
         /\ \A x \in WalkSet(r) : next[x] # NONE => next[x] \in WalkSet(r)
         /\ Reach(pos[r]) \subseteq WalkSet(r)
<1>1. WalkSet(r) \in SUBSET Node /\ pos[r] \in WalkSet(r) /\ pos[r] \in Node
  BY Zenon DEF RInv, Walks, WalkSet, Node
<1>2. ASSUME NEW x \in WalkSet(r), next[x] # NONE  PROVE next[x] \in WalkSet(r)
  <2>1. x \in Node /\ next[x] \in Entry /\ next[x] \in Node
    BY Zenon, <1>2 DEF WalkSet, RInv, Types, Node
  <2>2. CASE x \in Bucket
    <3>1. mem[next[x]] = "linked"
      BY Zenon, <1>2, <2>1, <2>2 DEF RInv, Lists, Live
    <3> QED  BY Zenon, <2>1, <3>1 DEF WalkSet, Kept
  <2>3. CASE x \notin Bucket
    <3>1. x \in Entry /\ Kept(r, x)
      BY Zenon, <2>1, <2>3 DEF WalkSet, Node
    <3>2. Kept(r, next[x])
      BY Zenon, <1>2, <3>1 DEF RInv, Walks
    <3> QED  BY Zenon, <2>1, <3>2 DEF WalkSet
  <2> QED  BY Zenon, <2>2, <2>3
<1> QED  BY Zenon, <1>1, <1>2, ReachInside

(* A list stays in its bucket, and an entry's rule names the bucket.       *)
LEMMA HomeClosed ==
  ASSUME RInv, Rules, NEW b \in Bucket
  PROVE  /\ HomeSet(b) \in SUBSET Node /\ b \in HomeSet(b)
         /\ \A x \in HomeSet(b) : next[x] # NONE => next[x] \in HomeSet(b)
         /\ Reach(b) \subseteq HomeSet(b)
<1>1. HomeSet(b) \in SUBSET Node /\ b \in HomeSet(b)
  BY Zenon DEF HomeSet, Live, Home, Node
<1>2. ASSUME NEW x \in HomeSet(b), next[x] # NONE  PROVE next[x] \in HomeSet(b)
  <2>1. x \in Node /\ Live(x) /\ Home(x) = b
    BY Zenon DEF HomeSet
  <2>2. next[x] \in Node
    BY Zenon, <1>2, <2>1 DEF RInv, Types, Node
  <2>3. mem[next[x]] = "linked" /\ Home(next[x]) = b
    BY Zenon, <1>2, <2>1 DEF RInv, Lists, Rules
  <2> QED  BY Zenon, <2>2, <2>3 DEF HomeSet, Live
<1> QED  BY Zenon, <1>1, <1>2, ReachInside

(* A linked entry is in the list of the bucket its rule's name hashes to.  *)
LEMMA HomeBucket ==
  ASSUME RInv, Rules, NEW e \in Entry, mem[e] = "linked"
  PROVE  /\ e \in Node /\ e \notin Bucket /\ rule[e].key \in Keys /\ rule[e].key[1] \in Rpc
         /\ Home(e) = Hash[rule[e].key[1]] /\ Home(e) \in Bucket
         /\ e \in HomeSet(Home(e))
<1>1. e \in Node /\ e \notin Bucket /\ rule[e].key \in Keys
  BY Zenon, DisjointAssumption DEF Rules, Node
<1>2. rule[e].key[1] \in Rpc
  BY Zenon, <1>1 DEF Keys
<1>3. Home(e) = Hash[rule[e].key[1]]
  BY Zenon, <1>1 DEF Home
<1>4. Home(e) \in Bucket
  BY Zenon, <1>2, <1>3, HashAssumption
<1> QED  BY Zenon, <1>1, <1>2, <1>3, <1>4 DEF HomeSet, Live

(* The two keys of a lookup are keys.                                      *)
LEMMA ConsultedKeys ==
  ASSUME NEW k \in Keys
  PROVE  /\ Wildcard(k) \in Keys /\ k[1] \in Rpc /\ Wildcard(k)[1] = k[1]
         /\ Consulted(k) = {k, Wildcard(k)} /\ \A j \in Consulted(k) : j \in Keys /\ j[1] = k[1]
BY DEF Keys, Wildcard, Consulted

(* What a lookup may take a rule to be: nothing if the key is not linked,  *)
(* its strategy if it is, both while AddLink has not counted it.           *)
LEMMA Values ==
  ASSUME Rules, NEW k \in Keys
  PROVE  /\ Value(k) \subseteq Answers
         /\ Linked(k) = {} => Value(k) = {NONE}
         /\ \A e \in Linked(k) : Strategy(e) \in Strategies /\ Strategy(e) \in Value(k)
         /\ \A e \in Linked(k) : ~(op.kind = "inc" /\ op.key = k) => Value(k) = {Strategy(e)}
         /\ \A e \in Linked(k) : op.kind = "inc" /\ op.key = k => Value(k) = {NONE, Strategy(e)}
<1>1. \A e \in Linked(k) : e \in Entry /\ mem[e] = "linked" /\ rule[e].key = k
  BY Zenon DEF Linked
<1>2. \A e \in Linked(k) : Strategy(e) \in Strategies
  <2>1. \A e \in Linked(k) : mem[e] # "free"
    BY Zenon, <1>1
  <2> QED  BY Zenon, <1>1, <2>1 DEF Rules
<1>3. \A e, f \in Linked(k) : e = f
  BY Zenon, <1>1 DEF Rules
<1>4. \A v : v \in Value(k) <=>
        \/ \E e \in Linked(k) : v = Strategy(e)
        \/ (v = NONE /\ (Linked(k) = {} \/ (op.kind = "inc" /\ op.key = k)))
  BY Zenon DEF Value
<1>5. Value(k) \subseteq Answers
  BY Zenon, <1>2, <1>4 DEF Answers
<1>6. Linked(k) = {} => Value(k) = {NONE}
  BY Zenon, <1>4
<1>7. ASSUME NEW e \in Linked(k)
      PROVE  /\ Strategy(e) \in Value(k)
             /\ ~(op.kind = "inc" /\ op.key = k) => Value(k) = {Strategy(e)}
             /\ op.kind = "inc" /\ op.key = k => Value(k) = {NONE, Strategy(e)}
  <2>1. \A v : v \in Value(k) <=> v = Strategy(e) \/ (v = NONE /\ op.kind = "inc" /\ op.key = k)
    BY Zenon, <1>3, <1>4
  <2> QED  BY Zenon, <2>1
<1> QED  BY Zenon, <1>2, <1>5, <1>6, <1>7

(* A key is what it was when its entry, the strategy and the command are.  *)
LEMMA ValueSame ==
  ASSUME NEW k \in Keys, Linked(k)' = Linked(k), \A e \in Linked(k) : Strategy(e)' = Strategy(e),
         (op'.kind = "inc" /\ op'.key = k) <=> (op.kind = "inc" /\ op.key = k)
  PROVE  Value(k)' = Value(k)
<1>1. \A v : v \in Value(k)' <=>
        \/ \E e \in Linked(k) : v = Strategy(e)
        \/ (v = NONE /\ (Linked(k) = {} \/ (op.kind = "inc" /\ op.key = k)))
  BY Zenon DEF Value
<1>2. \A v : v \in Value(k) <=>
        \/ \E e \in Linked(k) : v = Strategy(e)
        \/ (v = NONE /\ (Linked(k) = {} \/ (op.kind = "inc" /\ op.key = k)))
  BY Zenon DEF Value
<1> QED  BY Zenon, <1>1, <1>2

(* Every change of a rule is shown to the lookups that may read it.        *)
LEMMA Witnessed ==
  ASSUME TInv, Witness, UNCHANGED asked, \A k \in Keys : Value(k)' \subseteq Answers
  PROVE  /\ seen' \in [Reader -> [Keys -> SUBSET Answers]] /\ Shown'
         /\ \A r \in Reader, k \in Keys : seen[r][k] \subseteq seen'[r][k]
         /\ \A r \in Reader, k \in Keys :
              asked[r] # NONE /\ k \in Consulted(asked[r]) => Value(k)' \subseteq seen'[r][k]
<1>1. \A r \in Reader, k \in Keys : seen'[r][k] =
        IF asked[r] # NONE /\ k \in Consulted(asked[r]) THEN seen[r][k] \cup Value(k)' ELSE {}
  BY Zenon DEF Witness
<1>2. \A r \in Reader, k \in Keys : seen[r][k] \subseteq Answers
  BY Zenon DEF TInv, RuleTypes
<1>3. ASSUME NEW r \in Reader, NEW k \in Keys  PROVE seen'[r][k] \in SUBSET Answers
  <2>1. CASE asked[r] # NONE /\ k \in Consulted(asked[r])
    <3>1. seen'[r][k] = seen[r][k] \cup Value(k)'
      BY Zenon, <1>1, <2>1
    <3> QED  BY Zenon, <1>2, <3>1
  <2>2. CASE ~(asked[r] # NONE /\ k \in Consulted(asked[r]))
    <3>1. seen'[r][k] = {}
      BY Zenon, <1>1, <2>2
    <3> QED  BY Zenon, <3>1
  <2> QED  BY Zenon, <2>1, <2>2
<1>4. seen' \in [Reader -> [Keys -> SUBSET Answers]]
  <2>1. seen' = [r \in Reader |-> [k \in Keys |-> seen'[r][k]]]
    BY Zenon DEF Witness
  <2> QED  BY Zenon, <1>3, <2>1
<1>5. ASSUME NEW r \in Reader, NEW k \in Keys
      PROVE  /\ seen[r][k] \subseteq seen'[r][k]
             /\ IF asked[r] # NONE /\ k \in Consulted(asked[r]) THEN Value(k)' \subseteq seen'[r][k]
                                                             ELSE seen'[r][k] = {}
  <2>1. CASE asked[r] # NONE /\ k \in Consulted(asked[r])
    <3>1. seen'[r][k] = seen[r][k] \cup Value(k)'
      BY Zenon, <1>1, <2>1
    <3> QED  BY Zenon, <2>1, <3>1
  <2>2. CASE ~(asked[r] # NONE /\ k \in Consulted(asked[r]))
    BY Zenon, <1>1, <2>2 DEF TInv, Shown
  <2> QED  BY Zenon, <2>1, <2>2
<1>6. Shown'
  BY Zenon, <1>5 DEF Shown, Consulted
<1> QED  BY Zenon, <1>4, <1>5, <1>6

(* Values once more, for the state after a step.                           *)
LEMMA ValuesNext ==
  ASSUME Rules'
  PROVE  /\ \A k \in Keys : Value(k)' \subseteq Answers
         /\ \A e \in Entry : mem'[e] = "linked" => Strategy(e)' \in Value(rule[e].key)'
<1>1. ASSUME NEW k \in Keys, NEW v \in Value(k)'  PROVE v \in Answers
  <2>1. v = NONE \/ \E e \in Linked(k)' : v = Strategy(e)'
    BY Zenon DEF Value
  <2>2. ASSUME NEW e \in Linked(k)', v = Strategy(e)'  PROVE v \in Strategies
    <3>1. e \in Entry /\ mem'[e] = "linked"
      BY Zenon DEF Linked
    <3>2. mem'[e] # "free"
      BY Zenon, <3>1
    <3> QED  BY Zenon, <2>2, <3>1, <3>2 DEF Rules
  <2> QED  BY Zenon, <2>1, <2>2 DEF Answers
<1>2. ASSUME NEW e \in Entry, mem'[e] = "linked"  PROVE Strategy(e)' \in Value(rule[e].key)'
  <2>1. e \in Linked(rule[e].key)'
    BY Zenon, <1>2 DEF Linked
  <2> QED  BY Zenon, <2>1 DEF Value
<1> QED  BY Zenon, <1>1, <1>2

(* A command's step under the mutex, seen from the lookups: what a walk    *)
(* can meet afterwards it could meet before, or it is linked now; what is  *)
(* linked afterwards was linked and is as reachable as before, or is the   *)
(* first of its key.                                                       *)
LEMMA TableChange ==
  ASSUME TInv, RInv', Rules', Ops', Witness, UNCHANGED readerVars,
         rule' \in [Entry -> [key : Keys \cup {NONE}, strategy : Answers]],
         rkx_free_async_count' \in Int,
         \A r \in InRcu, e \in Entry :
            e \in Reach(pos[r])' => mem'[e] = "linked" \/ (e \in Reach(pos[r]) /\ rule'[e] = rule[e]),
         \A e \in Entry : mem'[e] = "linked" =>
            \/ Linked(rule'[e].key) = {}
            \/ /\ mem[e] = "linked" /\ rule'[e].key = rule[e].key
               /\ \A r \in InRcu : e \in Reach(pos[r]) => e \in Reach(pos[r])'
  PROVE  TInv'
<1>1. UNCHANGED <<at, asked, pos, wild, answer>> /\ InRcu' = InRcu /\ InRcu \subseteq Reader
  BY Zenon DEF readerVars, InRcu
<1>2. /\ \A k \in Keys : Value(k)' \subseteq Answers
      /\ \A e \in Entry : mem'[e] = "linked" => Strategy(e)' \in Value(rule[e].key)'
  BY Zenon, ValuesNext
<1>3. /\ seen' \in [Reader -> [Keys -> SUBSET Answers]] /\ Shown'
      /\ \A r \in Reader, k \in Keys : seen[r][k] \subseteq seen'[r][k]
      /\ \A r \in Reader, k \in Keys :
           asked[r] # NONE /\ k \in Consulted(asked[r]) => Value(k)' \subseteq seen'[r][k]
  BY Zenon, <1>1, <1>2, Witnessed
<1>4. RuleTypes'
  BY Zenon, <1>1, <1>3 DEF TInv, RuleTypes
<1>5. ASSUME NEW r \in InRcu
      PROVE  /\ r \in Reader /\ asked[r] \in Keys /\ asked[r] # NONE /\ Wildcard(asked[r]) \in Keys
             /\ Consulted(asked[r]) = {asked[r], Wildcard(asked[r])}
             /\ \A j \in Consulted(asked[r]) : j \in Keys
  <2>1. r \in Reader /\ at[r] # "idle"
    BY Zenon DEF InRcu
  <2>2. asked[r] \in Keys /\ asked[r] # NONE
    BY Zenon, <2>1, DisjointAssumption DEF TInv, RInv, Types, RuleTypes
  <2> QED  BY Zenon, <2>1, <2>2, ConsultedKeys
<1>6. Met'
  <2> SUFFICES ASSUME NEW r \in InRcu, NEW e \in Entry, e \in Reach(pos[r])',
                      rule'[e].key \in Consulted(asked[r])
               PROVE  Strategy(e)' \in seen'[r][rule'[e].key]
    BY Zenon, <1>1 DEF Met, Consulted
  <2>1. CASE mem'[e] = "linked"
    BY Zenon, <1>2, <1>3, <1>5, <2>1
  <2>2. CASE e \in Reach(pos[r]) /\ rule'[e] = rule[e]
    <3>1. Strategy(e) \in seen[r][rule[e].key] /\ Strategy(e)' = Strategy(e)
      BY Zenon, <2>2 DEF TInv, Met, Strategy
    <3>2. rule'[e].key = rule[e].key /\ rule[e].key \in Keys
      BY Zenon, <1>5, <2>2
    <3>3. seen[r][rule[e].key] \subseteq seen'[r][rule[e].key]
      BY Zenon, <1>3, <1>5, <3>2
    <3> QED  BY Zenon, <3>1, <3>2, <3>3
  <2> QED  BY Zenon, <2>1, <2>2
<1>7. ASSUME NEW r \in InRcu, NEW e \in Entry, mem'[e] = "linked",
             rule'[e].key \in Consulted(asked[r]), NONE \notin seen'[r][rule'[e].key]
      PROVE  /\ mem[e] = "linked" /\ rule'[e].key = rule[e].key /\ NONE \notin seen[r][rule[e].key]
             /\ Front(r, e) => Front(r, e)'
  <2>1. r \in Reader /\ asked[r] # NONE /\ rule'[e].key \in Keys
    BY Zenon, <1>5, <1>7
  <2>2. NONE \notin seen[r][rule'[e].key]
    BY Zenon, <1>3, <1>7, <2>1
  <2>3. Value(rule'[e].key) \subseteq seen[r][rule'[e].key]
    BY Zenon, <1>7, <2>1 DEF TInv, Shown
  <2>4. Linked(rule'[e].key) # {}
    BY Zenon, <2>1, <2>2, <2>3, Values DEF TInv
  <2> QED  BY Zenon, <1>1, <1>7, <2>2, <2>4 DEF Front
<1>8. Ahead'
  <2> SUFFICES ASSUME NEW r \in InRcu, NEW e \in Entry, mem'[e] = "linked"
               PROVE  (/\ rule[e].key = asked[r] /\ NONE \notin seen[r][asked[r]] => Front(r, e)
                       /\ rule[e].key = Wildcard(asked[r]) /\ NONE \notin seen[r][Wildcard(asked[r])] =>
                            Front(r, e) \/ wild[r] # NONE)'
    BY Zenon, <1>1 DEF Ahead
  <2>1. asked[r] \in Consulted(asked[r]) /\ Wildcard(asked[r]) \in Consulted(asked[r])
    BY Zenon, <1>5
  <2>2. Wildcard(asked[r])' = Wildcard(asked[r])
    BY Zenon, <1>1 DEF Wildcard
  <2>3. ASSUME rule'[e].key = asked[r], NONE \notin seen'[r][asked[r]]  PROVE Front(r, e)'
    <3>1. rule'[e].key \in Consulted(asked[r]) /\ NONE \notin seen'[r][rule'[e].key]
      BY Zenon, <2>1, <2>3
    <3>2. /\ mem[e] = "linked" /\ rule[e].key = asked[r] /\ NONE \notin seen[r][asked[r]]
          /\ Front(r, e) => Front(r, e)'
      BY Zenon, <1>7, <2>3, <3>1
    <3> QED  BY Zenon, <3>2 DEF TInv, Ahead
  <2>4. ASSUME rule'[e].key = Wildcard(asked[r]), NONE \notin seen'[r][Wildcard(asked[r])]
        PROVE  Front(r, e)' \/ wild[r] # NONE
    <3>1. rule'[e].key \in Consulted(asked[r]) /\ NONE \notin seen'[r][rule'[e].key]
      BY Zenon, <2>1, <2>4
    <3>2. /\ mem[e] = "linked" /\ rule[e].key = Wildcard(asked[r])
          /\ NONE \notin seen[r][Wildcard(asked[r])] /\ (Front(r, e) => Front(r, e)')
      BY Zenon, <1>7, <2>4, <3>1
    <3> QED  BY Zenon, <3>2 DEF TInv, Ahead
  <2> QED  BY Zenon, <1>1, <2>2, <2>3, <2>4
<1>9. Wilds'
  BY Zenon, <1>1, <1>3, <1>5 DEF TInv, Wilds, Wildcard
<1> QED  BY Zenon, <1>3, <1>4, <1>6, <1>8, <1>9 DEF TInv

(* A step that moves no pointer and leaves every rule linked, or not, as   *)
(* it was leaves the lists as they were.                                   *)
LEMMA RulesStay ==
  ASSUME RInv, Rules, UNCHANGED next,
         \A e \in Entry : /\ mem'[e] = "linked" <=> mem[e] = "linked"
                          /\ mem'[e] # "free" => mem[e] # "free"
                          /\ rule'[e].key = rule[e].key
                          /\ mem[e] # "free" => Strategy(e)' \in Strategies
  PROVE  Rules' /\ (\A p : Reach(p)' = Reach(p)) /\ (\A k : Linked(k)' = Linked(k))
<1>1. \A p : Reach(p)' = Reach(p)
  BY Zenon DEF Reach
<1>2. \A k : Linked(k)' = Linked(k)
  BY Zenon DEF Linked
<1>3. \A p \in Node : Home(p)' = Home(p) /\ (Live(p)' <=> Live(p))
  BY Zenon DEF Home, Live, Node
<1>4. \A p \in Node : next[p] # NONE => next[p] \in Node
  BY Zenon DEF RInv, Types, Node
<1>5. \A e \in Entry : e \in Node
  BY Zenon DEF Node
<1>6. \A p \in Node : Live(p)' /\ next'[p] # NONE => Home(next[p])' = Home(p)'
  BY Zenon, <1>3, <1>4 DEF Rules
<1>7. \A e \in Entry : mem'[e] = "linked" => e \in Reach(Home(e))'
  BY Zenon, <1>1, <1>3, <1>5 DEF Rules
<1>8. Rules'
  BY Zenon, <1>6, <1>7 DEF Rules
<1> QED  BY Zenon, <1>1, <1>2, <1>8

(* AddUpdate changes the strategy of a linked rule.                        *)
LEMMA UpdateTInv ==
  ASSUME TInv, RInv', NEW k \in Keys, NEW s \in Strategies, AddUpdate(k, s)
  PROVE  TInv'
<1>1. PICK e \in Linked(k) : rule' = [rule EXCEPT ![e].strategy = s]
  BY Zenon DEF AddUpdate
<1>2. UNCHANGED <<next, mem, rkx_free_async_count, op, up, readerVars>> /\ Witness
  BY Zenon DEF AddUpdate
<1>3. e \in Entry /\ mem[e] = "linked"
  BY Zenon DEF Linked
<1>4. \A x \in Entry : rule'[x].key = rule[x].key /\ (x # e => rule'[x] = rule[x])
  BY Zenon, <1>1, <1>3 DEF TInv, RuleTypes
<1>5. Strategy(e)' = s
  BY Zenon, <1>1, <1>3 DEF TInv, RuleTypes, Strategy
<1>6. rule' \in [Entry -> [key : Keys \cup {NONE}, strategy : Answers]]
  BY Zenon, <1>1, <1>3 DEF TInv, RuleTypes, Answers
<1>7. \A x \in Entry : mem[x] # "free" => Strategy(x)' \in Strategies
  BY Zenon, <1>4, <1>5 DEF TInv, Rules, Strategy
<1>8. Rules' /\ (\A p : Reach(p)' = Reach(p)) /\ (\A j : Linked(j)' = Linked(j))
  BY Zenon, <1>2, <1>4, <1>7, RulesStay DEF TInv
<1>9. Ops'
  BY Zenon, <1>2, <1>8 DEF TInv, Ops, readerVars
<1>10. \A r \in InRcu, x \in Entry :
         x \in Reach(pos[r])' => mem'[x] = "linked" \/ (x \in Reach(pos[r]) /\ rule'[x] = rule[x])
  BY Zenon, <1>2, <1>3, <1>4, <1>8 DEF readerVars
<1>11. \A x \in Entry : mem'[x] = "linked" =>
         /\ mem[x] = "linked" /\ rule'[x].key = rule[x].key
         /\ \A r \in InRcu : x \in Reach(pos[r]) => x \in Reach(pos[r])'
  BY Zenon, <1>2, <1>4, <1>8 DEF readerVars
<1>12. rkx_free_async_count' \in Int
  BY Zenon, <1>2 DEF TInv, RuleTypes
<1> QED  BY Zenon, <1>2, <1>6, <1>8, <1>9, <1>10, <1>11, <1>12, TableChange

(* AddCount: from here on the rule is there for every lookup.              *)
LEMMA CountTInv ==
  ASSUME TInv, RInv', AddCount
  PROVE  TInv'
<1>1. /\ UNCHANGED <<next, mem, rule, up, readerVars>> /\ Witness
      /\ op.kind = "inc" /\ op' = Idle /\ rkx_free_async_count' = rkx_free_async_count + 1
  BY Zenon DEF AddCount
<1>2. Rules' /\ (\A p : Reach(p)' = Reach(p)) /\ (\A j : Linked(j)' = Linked(j))
  BY Zenon, <1>1, RulesStay DEF TInv, Rules, Strategy
<1>3. Ops'
  BY Zenon, <1>1 DEF TInv, Ops, readerVars, Idle
<1>4. rkx_free_async_count' \in Int
  BY <1>1 DEF TInv, RuleTypes
<1>5. rule' \in [Entry -> [key : Keys \cup {NONE}, strategy : Answers]]
  BY Zenon, <1>1 DEF TInv, RuleTypes
<1>6. \A r \in InRcu, x \in Entry :
        x \in Reach(pos[r])' => mem'[x] = "linked" \/ (x \in Reach(pos[r]) /\ rule'[x] = rule[x])
  BY Zenon, <1>1, <1>2 DEF readerVars
<1>7. \A x \in Entry : mem'[x] = "linked" =>
        /\ mem[x] = "linked" /\ rule'[x].key = rule[x].key
        /\ \A r \in InRcu : x \in Reach(pos[r]) => x \in Reach(pos[r])'
  BY Zenon, <1>1, <1>2 DEF readerVars
<1> QED  BY Zenon, <1>1, <1>2, <1>3, <1>4, <1>5, <1>6, <1>7, TableChange

(* AddLink puts a new rule at the head of its bucket's list.               *)
LEMMA LinkTInv ==
  ASSUME TInv, RInv', NEW k \in Keys, NEW s \in Strategies, AddLink(k, s)
  PROVE  TInv'
<1> DEFINE b == Hash[k[1]]
<1>1. b \in Bucket
  BY Zenon, HashAssumption DEF Keys
<1>2. PICK d \in Entry : /\ mem[d] = "free"
                        /\ mem' = [mem EXCEPT ![d] = "linked"]
                        /\ rule' = [rule EXCEPT ![d] = [key |-> k, strategy |-> s]]
                        /\ next' = [next EXCEPT ![d] = next[b], ![b] = d]
  BY Zenon DEF AddLink
<1>3. /\ op = Idle /\ up /\ Linked(k) = {} /\ op' = [kind |-> "inc", key |-> k]
      /\ UNCHANGED <<rkx_free_async_count, up, readerVars>> /\ Witness
  BY Zenon DEF AddLink
<1> HIDE DEF b
<1>4. /\ d \in Node /\ b \in Node /\ b # d /\ d \notin Bucket
      /\ NONE \notin Entry /\ \A x \in Entry : x \in Node /\ x \notin Bucket
  BY Zenon, <1>1, DisjointAssumption DEF Node
<1>5. \A q \in Node : next'[q] = IF q = b THEN d ELSE IF q = d THEN next[b] ELSE next[q]
  BY Zenon, <1>2, <1>4 DEF TInv, RInv, Types
<1>6. \A x \in Entry : mem'[x] = IF x = d THEN "linked" ELSE mem[x]
  BY Zenon, <1>2 DEF TInv, RInv, Types
<1>7. \A x \in Entry : rule'[x] = IF x = d THEN [key |-> k, strategy |-> s] ELSE rule[x]
  BY Zenon, <1>2 DEF TInv, RuleTypes
<1>8. rule'[d].key = k /\ Strategy(d)' = s /\ \A x \in Entry : x # d => rule'[x] = rule[x]
  BY <1>7 DEF Strategy
<1>9. mem[d] # "linked" /\ ~Live(d) /\ \A r : ~Kept(r, d)
  BY Zenon, <1>2, <1>4 DEF Live, Kept
<1>10. \A r \in InRcu : Reach(pos[r]) \subseteq Reach(pos[r])' /\
                        Reach(pos[r])' \subseteq Reach(pos[r]) \cup {d}
  <2> SUFFICES ASSUME NEW r \in InRcu
               PROVE  /\ Reach(pos[r]) \subseteq Reach(pos[r])'
                      /\ Reach(pos[r])' \subseteq Reach(pos[r]) \cup {d}
    BY Zenon
  <2>1. /\ WalkSet(r) \in SUBSET Node /\ pos[r] \in WalkSet(r) /\ pos' = pos
        /\ \A x \in WalkSet(r) : next[x] # NONE => next[x] \in WalkSet(r)
    BY Zenon, <1>3, WalkClosed DEF TInv, readerVars
  <2>2. d \notin WalkSet(r)
    BY Zenon, <1>4, <1>9 DEF WalkSet
  <2>3. Types
    BY Zenon DEF TInv, RInv
  <2>4. \A p : p = pos[r] => Reach(p) \subseteq Reach(p)' /\ Reach(p)' \subseteq Reach(p) \cup {d}
    BY <1>4, <1>5, <2>1, <2>2, <2>3, ReachAdd
  <2> QED  BY Zenon, <2>1, <2>4
<1>11. \A c \in Bucket : Reach(c) \subseteq Reach(c)'
  <2> SUFFICES ASSUME NEW c \in Bucket  PROVE Reach(c) \subseteq Reach(c)'
    BY Zenon
  <2>1. /\ HomeSet(c) \in SUBSET Node /\ c \in HomeSet(c)
        /\ \A x \in HomeSet(c) : next[x] # NONE => next[x] \in HomeSet(c)
    BY Zenon, HomeClosed DEF TInv
  <2>2. d \notin HomeSet(c)
    BY Zenon, <1>9 DEF HomeSet
  <2>3. Types
    BY Zenon DEF TInv, RInv
  <2> QED  BY <1>4, <1>5, <2>1, <2>2, <2>3, ReachAdd
<1>12. Home(d)' = b /\ Home(b)' = b /\ \A p \in Node : p # d => Home(p)' = Home(p)
  <2>1. Home(d)' = b
    BY Zenon, <1>4, <1>8 DEF Home, b
  <2> QED  BY Zenon, <1>1, <1>4, <1>8, <2>1 DEF Home, Node
<1>13. Rules'
  <2>1. ASSUME NEW e \in Entry, mem'[e] # "free"
        PROVE  rule'[e].key \in Keys /\ Strategy(e)' \in Strategies
    BY Zenon, <1>6, <1>8, <2>1 DEF TInv, Rules, Strategy
  <2>2. ASSUME NEW e \in Entry, NEW f \in Entry, mem'[e] = "linked", mem'[f] = "linked",
               rule'[e].key = rule'[f].key
        PROVE  e = f
    <3>1. \A x \in Entry : mem'[x] = "linked" /\ rule'[x].key = k => x = d
      BY Zenon, <1>3, <1>6, <1>8 DEF Linked
    <3> QED  BY Zenon, <1>6, <1>8, <2>2, <3>1 DEF TInv, Rules
  <2>3. ASSUME NEW p \in Node, Live(p)', next'[p] # NONE  PROVE Home(next[p])' = Home(p)'
    <3>1. \A q \in Node : Live(q) /\ next[q] # NONE =>
            next[q] \in Node /\ next[q] # d /\ Home(next[q])  = Home(q)
      BY <1>9 DEF TInv, RInv, Types, Lists, Rules, Node
    <3>2. CASE p = b
      BY Zenon, <1>5, <1>12, <2>3, <3>2
    <3>3. CASE p = d
      <4>1. next'[p] = next[b] /\ Live(b) /\ Home(b) = b
        BY Zenon, <1>1, <1>4, <1>5, <3>3 DEF Live, Home
      <4> QED  BY Zenon, <1>4, <1>12, <2>3, <3>1, <3>3, <4>1
    <3>4. CASE p # b /\ p # d
      <4>1. next'[p] = next[p] /\ Live(p)
        BY Zenon, <1>5, <1>6, <2>3, <3>4 DEF Live, Node
      <4> QED  BY Zenon, <1>12, <2>3, <3>1, <3>4, <4>1
    <3> QED  BY Zenon, <3>2, <3>3, <3>4
  <2>4. ASSUME NEW e \in Entry, mem'[e] = "linked"  PROVE e \in Reach(Home(e))'
    <3>1. CASE e = d
      <4>1. ASSUME NEW S \in SUBSET Node, b \in S, \A y \in S : next'[y] # NONE => next'[y] \in S
            PROVE  d \in S
        <5>1. next'[b] = d /\ d # NONE
          BY Zenon, <1>4, <1>5
        <5> QED  BY Zenon, <4>1, <5>1
      <4>2. \A c : c = b => d \in Reach(c)'
        BY Zenon, <1>4, <4>1 DEF Reach
      <4> QED  BY Zenon, <1>12, <3>1, <4>2
    <3>2. CASE e # d
      <4>1. mem[e] = "linked" /\ Home(e)' = Home(e) /\ Home(e) \in Bucket /\ e \in Reach(Home(e))
        BY Zenon, <1>4, <1>6, <1>12, <2>4, <3>2, HomeBucket DEF TInv, Rules
      <4>2. \A c \in Bucket : c = Home(e) => e \in Reach(c)'
        BY Zenon, <1>11, <4>1
      <4> QED  BY Zenon, <4>1, <4>2
    <3> QED  BY Zenon, <3>1, <3>2
  <2> QED  BY Zenon, <2>1, <2>2, <2>3, <2>4 DEF Rules
<1>14. Ops'
  <2>1. d \in Linked(k)'
    BY Zenon, <1>6, <1>8 DEF Linked
  <2>2. op'.kind = "inc" /\ op'.key = k
    BY Zenon, <1>3
  <2>3. Linked(op.key)' # {}
    BY Zenon, <2>1, <2>2
  <2> QED  BY Zenon, <1>3, <2>2, <2>3 DEF Ops
<1>15. rule' \in [Entry -> [key : Keys \cup {NONE}, strategy : Answers]]
  BY Zenon, <1>2 DEF TInv, RuleTypes, Answers
<1>16. rkx_free_async_count' \in Int
  BY Zenon, <1>3 DEF TInv, RuleTypes
<1>17. \A r \in InRcu, x \in Entry :
         x \in Reach(pos[r])' => mem'[x] = "linked" \/ (x \in Reach(pos[r]) /\ rule'[x] = rule[x])
  BY Zenon, <1>6, <1>8, <1>10
<1>18. \A x \in Entry : mem'[x] = "linked" =>
         \/ Linked(rule'[x].key) = {}
         \/ /\ mem[x] = "linked" /\ rule'[x].key = rule[x].key
            /\ \A r \in InRcu : x \in Reach(pos[r]) => x \in Reach(pos[r])'
  BY Zenon, <1>3, <1>6, <1>8, <1>10
<1> QED  BY Zenon, <1>3, <1>13, <1>14, <1>15, <1>16, <1>17, <1>18, TableChange

(* hash_del_rcu takes a rule out: DelUnlink and DestroyEntry.              *)
LEMMA UnlinkTInv ==
  ASSUME TInv, RInv', NEW d \in Entry, mem[d] = "linked", hash_del_rcu(d),
         NEW m \in {"unlinked", "zombie"}, mem' = [mem EXCEPT ![d] = m],
         UNCHANGED <<rule, rkx_free_async_count, readerVars>>, Ops', Witness
  PROVE  TInv'
<1> DEFINE c == Pred(d)
<1>1. c \in Node /\ next[c] = d /\ Live(c)
  <2>1. \E q \in Node : next[q] = d /\ (q \in Bucket \/ mem[q] = "linked")
    BY Zenon DEF TInv, RInv, Lists, Live
  <2> QED  BY Zenon, <2>1 DEF Pred, Live
<1>2. \A q \in Node : next'[q] = IF q = c THEN next[d] ELSE next[q]
  <2>1. next' = [next EXCEPT ![c] = next[d]]
    BY Zenon DEF hash_del_rcu
  <2> HIDE DEF c
  <2> QED  BY Zenon, <1>1, <2>1 DEF TInv, RInv, Types
<1> HIDE DEF c
<1>3. \A x \in Entry : (mem'[x] = "linked" <=> mem[x] = "linked" /\ x # d) /\
                       (mem'[x] # "free" => mem[x] # "free")
  BY Zenon DEF TInv, RInv, Types
<1>4. d \in Node /\ NONE \notin Entry /\ d # NONE /\ Types /\ \A x \in Entry : x \in Node
  BY Zenon, DisjointAssumption DEF Node, TInv, RInv
<1>5. \A p \in Node : Reach(p) \ {d} \subseteq Reach(p)' /\ Reach(p)' \subseteq Reach(p)
  BY Zenon, <1>1, <1>2, <1>4, ReachDel
<1>6. UNCHANGED <<rule, pos>> /\ \A p : Home(p)' = Home(p)
  BY Zenon DEF Home, readerVars
<1>7. Rules'
  <2>1. ASSUME NEW e \in Entry, mem'[e] # "free"
        PROVE  rule'[e].key \in Keys /\ Strategy(e)' \in Strategies
    BY Zenon, <1>3, <1>6, <2>1 DEF TInv, Rules, Strategy
  <2>2. ASSUME NEW e \in Entry, NEW f \in Entry, mem'[e] = "linked", mem'[f] = "linked",
               rule'[e].key = rule'[f].key
        PROVE  e = f
    BY Zenon, <1>3, <1>6, <2>2 DEF TInv, Rules
  <2>3. ASSUME NEW p \in Node, Live(p)', next'[p] # NONE  PROVE Home(next[p])' = Home(p)'
    <3>1. Live(p) /\ Live(d)
      BY Zenon, <1>3, <2>3 DEF Live, Node
    <3>2. CASE p = c
      <4>1. next'[p] = next[d] /\ Home(d) = Home(p) /\ Home(next[d]) = Home(d)
        BY Zenon, <1>1, <1>2, <1>4, <2>3, <3>1, <3>2 DEF TInv, Rules
      <4> QED  BY Zenon, <1>6, <4>1
    <3>3. CASE p # c
      <4>1. next'[p] = next[p] /\ Home(next[p]) = Home(p)
        BY Zenon, <1>2, <2>3, <3>1, <3>3 DEF TInv, Rules
      <4> QED  BY Zenon, <1>6, <4>1
    <3> QED  BY Zenon, <3>2, <3>3
  <2>4. ASSUME NEW e \in Entry, mem'[e] = "linked"  PROVE e \in Reach(Home(e))'
    <3>1. mem[e] = "linked" /\ e # d /\ e \in Reach(Home(e)) /\ Home(e) \in Bucket
      BY Zenon, <1>3, <2>4, HomeBucket DEF TInv, Rules
    <3>2. \A b \in Bucket : b = Home(e) => e \in Reach(b)'
      BY Zenon, <1>5, <3>1 DEF Node
    <3> QED  BY Zenon, <1>6, <3>1, <3>2
  <2> QED  BY Zenon, <2>1, <2>2, <2>3, <2>4 DEF Rules
<1>8. \A r \in InRcu : /\ \A x : x \in Reach(pos[r])' => x \in Reach(pos[r])
                       /\ \A x : x \in Reach(pos[r]) /\ x # d => x \in Reach(pos[r])'
  <2> SUFFICES ASSUME NEW r \in InRcu
               PROVE  /\ \A x : x \in Reach(pos[r])' => x \in Reach(pos[r])
                      /\ \A x : x \in Reach(pos[r]) /\ x # d => x \in Reach(pos[r])'
    BY Zenon
  <2>1. pos[r] \in Node
    BY Zenon, WalkClosed DEF TInv
  <2>2. \A p \in Node : p = pos[r] => /\ \A x : x \in Reach(p)' => x \in Reach(p)
                                      /\ \A x : x \in Reach(p) /\ x # d => x \in Reach(p)'
    BY Zenon, <1>5
  <2> QED  BY Zenon, <1>6, <2>1, <2>2
<1>9. /\ rule' \in [Entry -> [key : Keys \cup {NONE}, strategy : Answers]]
      /\ rkx_free_async_count' \in Int
  BY Zenon DEF TInv, RuleTypes
<1>10. \A r \in InRcu, x \in Entry :
         x \in Reach(pos[r])' => mem'[x] = "linked" \/ (x \in Reach(pos[r]) /\ rule'[x] = rule[x])
  BY Zenon, <1>6, <1>8
<1>11. \A x \in Entry : mem'[x] = "linked" =>
         /\ mem[x] = "linked" /\ rule'[x].key = rule[x].key
         /\ \A r \in InRcu : x \in Reach(pos[r]) => x \in Reach(pos[r])'
  BY Zenon, <1>3, <1>6, <1>8
<1> QED  BY Zenon, <1>7, <1>9, <1>10, <1>11, TableChange

(* hash_del_rcu of rkx_del_free_async keeps the invariant.                 *)
LEMMA DelTInv ==
  ASSUME TInv, RInv', NEW k \in Keys, DelUnlink(k)
  PROVE  TInv'
<1>1. PICK e \in Linked(k) : /\ hash_del_rcu(e)
                            /\ mem' = [mem EXCEPT ![e] = "unlinked"]
                            /\ op' = [kind |-> "kfree", entry |-> e]
  BY Zenon DEF DelUnlink
<1>2. /\ up /\ op = Idle /\ UNCHANGED <<rule, rkx_free_async_count, up, readerVars>> /\ Witness
      /\ e \in Entry /\ mem[e] = "linked" /\ "unlinked" \in {"unlinked", "zombie"}
  BY Zenon DEF DelUnlink, Linked
<1>3. Ops'
  BY Zenon, <1>1, <1>2 DEF Ops
<1> QED  BY Zenon, <1>1, <1>2, <1>3, UnlinkTInv

(* So does each hash_del_rcu of rkx_destroy_free_async.                    *)
LEMMA DestroyTInv ==
  ASSUME TInv, RInv', NEW e \in Entry, DestroyEntry(e)
  PROVE  TInv'
<1>1. /\ op.kind = "destroy" /\ mem[e] = "linked" /\ hash_del_rcu(e)
      /\ mem' = [mem EXCEPT ![e] = "zombie"] /\ "zombie" \in {"unlinked", "zombie"}
      /\ UNCHANGED <<rule, rkx_free_async_count, op, up, readerVars>> /\ Witness
  BY Zenon DEF DestroyEntry, kfree_rcu
<1>2. Ops'
  BY Zenon, <1>1 DEF TInv, Ops, readerVars
<1> QED  BY Zenon, <1>1, <1>2, UnlinkTInv

(* A step that no lookup can tell from none.                               *)
LEMMA QuietTInv ==
  ASSUME TInv, RInv', Rules', Ops', UNCHANGED <<readerVars, seen>>,
         rule' \in [Entry -> [key : Keys \cup {NONE}, strategy : Answers]],
         rkx_free_async_count' \in Int,
         \A k \in Keys : Value(k)' = Value(k),
         \A r \in InRcu : /\ Reach(pos[r])' = Reach(pos[r])
                          /\ \A e \in Entry : e \in Reach(pos[r]) => rule'[e] = rule[e],
         \A e \in Entry : mem'[e] = "linked" => mem[e] = "linked" /\ rule'[e] = rule[e]
  PROVE  TInv'
<1>1. UNCHANGED <<at, asked, pos, wild, answer, seen>> /\ InRcu' = InRcu
  BY Zenon DEF readerVars, InRcu
<1>2. RuleTypes'
  BY Zenon, <1>1 DEF TInv, RuleTypes
<1>3. Shown'
  <2> SUFFICES ASSUME NEW r \in Reader, NEW k \in Keys
               PROVE  (IF asked[r] # NONE /\ k \in Consulted(asked[r])
                       THEN Value(k) \subseteq seen[r][k] ELSE seen[r][k] = {})'
    BY Zenon DEF Shown
  <2>1. Consulted(asked[r])' = Consulted(asked[r]) /\ Value(k)' = Value(k)
    BY Zenon, <1>1 DEF Consulted
  <2>2. IF asked[r] # NONE /\ k \in Consulted(asked[r])
        THEN Value(k) \subseteq seen[r][k] ELSE seen[r][k] = {}
    BY Zenon DEF TInv, Shown
  <2> QED  BY Zenon, <1>1, <2>1, <2>2
<1>4. Met'
  <2> SUFFICES ASSUME NEW r \in InRcu, NEW e \in Entry, e \in Reach(pos[r])',
                      rule'[e].key \in Consulted(asked[r])
               PROVE  Strategy(e)' \in seen'[r][rule'[e].key]
    BY Zenon, <1>1 DEF Met, Consulted
  <2>1. e \in Reach(pos[r]) /\ rule'[e] = rule[e]
    BY Zenon
  <2>2. Strategy(e) \in seen[r][rule[e].key]
    BY Zenon, <2>1 DEF TInv, Met
  <2> QED  BY Zenon, <1>1, <2>1, <2>2 DEF Strategy
<1>5. Ahead'
  <2> SUFFICES ASSUME NEW r \in InRcu, NEW e \in Entry, mem'[e] = "linked"
               PROVE  (/\ rule[e].key = asked[r] /\ NONE \notin seen[r][asked[r]] => Front(r, e)
                       /\ rule[e].key = Wildcard(asked[r]) /\ NONE \notin seen[r][Wildcard(asked[r])] =>
                            Front(r, e) \/ wild[r] # NONE)'
    BY Zenon, <1>1 DEF Ahead
  <2>1. mem[e] = "linked" /\ rule'[e] = rule[e]
    BY Zenon
  <2>2. Front(r, e)' <=> Front(r, e)
    BY Zenon, <1>1 DEF Front
  <2>3. Wildcard(asked[r])' = Wildcard(asked[r])
    BY Zenon, <1>1 DEF Wildcard
  <2>4. /\ rule[e].key = asked[r] /\ NONE \notin seen[r][asked[r]] => Front(r, e)
        /\ rule[e].key = Wildcard(asked[r]) /\ NONE \notin seen[r][Wildcard(asked[r])] =>
             Front(r, e) \/ wild[r] # NONE
    BY Zenon, <2>1 DEF TInv, Ahead
  <2> QED  BY Zenon, <1>1, <2>1, <2>2, <2>3, <2>4
<1>6. Wilds'
  BY Zenon, <1>1 DEF TInv, Wilds, Wildcard
<1> QED  BY Zenon, <1>2, <1>3, <1>4, <1>5, <1>6 DEF TInv

(* Commands and the destruction have such steps between the others.        *)
LEMMA BetweenTInv ==
  ASSUME TInv, RInv',
         DelKfreeRcu \/ DelCount \/ DestroyBegin \/ DestroyCount \/ DestroyReturn
  PROVE  TInv' /\ \A k \in Keys : Value(k)' = Value(k)
<1>1. UNCHANGED <<next, rule, readerVars, seen>> /\ op.kind # "inc" /\ op'.kind # "inc"
  BY DEF DelKfreeRcu, DelCount, DestroyBegin, DestroyCount, DestroyReturn, Idle, tableVars
<1>2. \A e \in Entry : /\ mem'[e] = "linked" <=> mem[e] = "linked"
                       /\ mem'[e] # "free" => mem[e] # "free"
  <2>1. CASE DelKfreeRcu
    <3>1. op.entry \in Entry /\ mem[op.entry] = "unlinked" /\ mem' = [mem EXCEPT ![op.entry] = "zombie"]
      BY Zenon, <2>1 DEF DelKfreeRcu, kfree_rcu, TInv, RInv, Pending
    <3> QED  BY Zenon, <3>1 DEF TInv, RInv, Types
  <2>2. CASE DelCount \/ DestroyBegin \/ DestroyCount \/ DestroyReturn
    <3>1. mem' = mem
      BY Zenon, <2>2 DEF DelCount, DestroyBegin, DestroyCount, DestroyReturn, tableVars
    <3> QED  BY Zenon, <3>1
  <2> QED  BY Zenon, <2>1, <2>2
<1>3. \A e \in Entry : mem[e] # "free" => Strategy(e)' \in Strategies
  BY Zenon, <1>1 DEF TInv, Rules, Strategy
<1>4. Rules' /\ (\A p : Reach(p)' = Reach(p)) /\ (\A k : Linked(k)' = Linked(k))
  BY Zenon, <1>1, <1>2, <1>3, RulesStay DEF TInv
<1>5. \A k \in Keys : Value(k)' = Value(k)
  BY Zenon, <1>1, <1>4, ValueSame DEF Strategy
<1>6. Ops'
  <2>1. CASE DelKfreeRcu
    BY Zenon, <2>1 DEF DelKfreeRcu, TInv, Ops, readerVars
  <2>2. CASE DelCount
    BY Zenon, <2>2 DEF DelCount, TInv, Ops, readerVars, Idle
  <2>3. CASE DestroyBegin
    BY Zenon, <2>3 DEF DestroyBegin, TInv, Ops, readerVars
  <2>4. CASE DestroyCount
    BY Zenon, <2>4 DEF DestroyCount, TInv, Ops, readerVars
  <2>5. CASE DestroyReturn
    BY Zenon, <2>5 DEF DestroyReturn, TInv, Ops, readerVars
  <2> QED  BY Zenon, <2>1, <2>2, <2>3, <2>4, <2>5
<1>7. rkx_free_async_count' \in Int
  BY DEF DelKfreeRcu, DelCount, DestroyBegin, DestroyCount, DestroyReturn, tableVars, atomic_dec,
     TInv, RuleTypes
<1>8. rule' \in [Entry -> [key : Keys \cup {NONE}, strategy : Answers]]
  BY Zenon, <1>1 DEF TInv, RuleTypes
<1>9. \A r \in InRcu : Reach(pos[r])' = Reach(pos[r])
  BY Zenon, <1>1, <1>4 DEF readerVars
<1> QED  BY Zenon, <1>1, <1>2, <1>4, <1>5, <1>6, <1>7, <1>8, <1>9, QuietTInv

(* RcuReclaim frees memory that no walk and no list leads to.              *)
LEMMA ReclaimTInv ==
  ASSUME TInv, RInv', NEW d \in Entry, RcuReclaim(d)
  PROVE  TInv' /\ \A k \in Keys : Value(k)' = Value(k)
<1>1. /\ mem[d] = "zombie" /\ grace[d] = {} /\ mem' = [mem EXCEPT ![d] = "free"]
      /\ rule' = [rule EXCEPT ![d] = Blank] /\ next' = [next EXCEPT ![d] = NONE]
      /\ UNCHANGED <<rkx_free_async_count, op, up, readerVars, seen>>
  BY Zenon DEF RcuReclaim
<1>2. d \in Node /\ d \notin Bucket /\ \A x \in Entry : x \in Node
  BY Zenon, DisjointAssumption DEF Node
<1>3. \A q \in Node : q # d => next'[q] = next[q]
  BY Zenon, <1>1 DEF TInv, RInv, Types
<1>4. \A x \in Entry : x # d => mem'[x] = mem[x] /\ rule'[x] = rule[x]
  BY <1>1 DEF TInv, RInv, Types, RuleTypes
<1>5. mem[d] # "linked" /\ mem'[d] = "free" /\ mem'[d] # "linked" /\ ~Live(d) /\ ~Live(d)'
  BY Zenon, <1>1, <1>2 DEF TInv, RInv, Types, Live
<1>6. rule' \in [Entry -> [key : Keys \cup {NONE}, strategy : Answers]]
  BY Zenon, <1>1 DEF TInv, RuleTypes, Blank, Answers
<1>7. ASSUME NEW r \in InRcu
      PROVE  /\ Reach(pos[r])' = Reach(pos[r])
             /\ \A e \in Entry : e \in Reach(pos[r]) => rule'[e] = rule[e]
  <2>1. /\ WalkSet(r) \in SUBSET Node /\ pos[r] \in WalkSet(r) /\ Reach(pos[r]) \subseteq WalkSet(r)
        /\ \A x \in WalkSet(r) : next[x] # NONE => next[x] \in WalkSet(r)
    BY Zenon, WalkClosed DEF TInv
  <2>2. d \notin WalkSet(r)
    BY Zenon, <1>1, <1>2 DEF WalkSet, Kept
  <2>3. \A x \in WalkSet(r) : next'[x] = next[x]
    BY Zenon, <1>3, <2>1, <2>2
  <2>4. pos' = pos
    BY Zenon, <1>1 DEF readerVars
  <2>5. \A p : p = pos[r] => Reach(p)' = Reach(p)
    BY Zenon, <2>1, <2>3, ReachFrame
  <2> QED  BY Zenon, <1>4, <2>1, <2>2, <2>4, <2>5
<1>8. ASSUME NEW b \in Bucket  PROVE Reach(b)' = Reach(b)
  <2>1. /\ HomeSet(b) \in SUBSET Node /\ b \in HomeSet(b)
        /\ \A x \in HomeSet(b) : next[x] # NONE => next[x] \in HomeSet(b)
    BY Zenon, HomeClosed DEF TInv
  <2>2. \A x \in HomeSet(b) : next'[x] = next[x]
    BY Zenon, <1>3, <1>5 DEF HomeSet
  <2> QED  BY Zenon, <2>1, <2>2, ReachFrame
<1>9. Rules'
  <2>1. ASSUME NEW e \in Entry, mem'[e] # "free"
        PROVE  rule'[e].key \in Keys /\ Strategy(e)' \in Strategies
    BY Zenon, <1>4, <1>5, <2>1 DEF TInv, Rules, Strategy
  <2>2. ASSUME NEW e \in Entry, NEW f \in Entry, mem'[e] = "linked", mem'[f] = "linked",
               rule'[e].key = rule'[f].key
        PROVE  e = f
    BY Zenon, <1>4, <1>5, <2>2 DEF TInv, Rules
  <2>3. \A p \in Node : p # d => Home(p)' = Home(p)
    BY Zenon, <1>4 DEF Home, Node
  <2>4. ASSUME NEW p \in Node, Live(p)', next'[p] # NONE  PROVE Home(next[p])' = Home(p)'
    <3>1. p # d /\ Live(p) /\ next'[p] = next[p]
      BY Zenon, <1>3, <1>4, <1>5, <2>4 DEF Live, Node
    <3>2. next[p] \in Node /\ next[p] # d /\ Home(next[p]) = Home(p)
      BY <1>5, <2>4, <3>1 DEF TInv, RInv, Types, Lists, Rules, Node
    <3> QED  BY Zenon, <2>3, <3>1, <3>2
  <2>5. ASSUME NEW e \in Entry, mem'[e] = "linked"  PROVE e \in Reach(Home(e))'
    <3>1. /\ mem[e] = "linked" /\ e # d /\ e \in Reach(Home(e)) /\ Home(e) \in Bucket
          /\ Home(e)' = Home(e)
      BY Zenon, <1>2, <1>4, <1>5, <2>3, <2>5, HomeBucket DEF TInv, Rules
    <3>2. \A b \in Bucket : b = Home(e) => e \in Reach(b)'
      BY Zenon, <1>8, <3>1
    <3> QED  BY Zenon, <3>1, <3>2
  <2> QED  BY Zenon, <2>1, <2>2, <2>4, <2>5 DEF Rules
<1>10. \A k : Linked(k)' = Linked(k)
  BY Zenon, <1>4, <1>5 DEF Linked
<1>11. Ops'
  BY Zenon, <1>1, <1>10 DEF TInv, Ops, readerVars
<1>12. \A k : \A e \in Linked(k) : Strategy(e)' = Strategy(e)
  BY Zenon, <1>4, <1>5 DEF Linked, Strategy
<1>13. \A k \in Keys : Value(k)' = Value(k)
  BY Zenon, <1>1, <1>10, <1>12, ValueSame
<1>14. \A e \in Entry : mem'[e] = "linked" => mem[e] = "linked" /\ rule'[e] = rule[e]
  BY Zenon, <1>4, <1>5
<1>15. rkx_free_async_count' \in Int
  BY Zenon, <1>1 DEF TInv, RuleTypes
<1> QED  BY Zenon, <1>1, <1>6, <1>7, <1>9, <1>11, <1>13, <1>14, <1>15, QuietTInv

(* rkx_init_free_async empties buckets that are empty, with no lookup yet. *)
LEMMA InitTableTInv ==
  ASSUME TInv, RInv', rkx_init_free_async
  PROVE  TInv' /\ \A k \in Keys : Value(k)' = Value(k)
<1>1. /\ op.kind = "down" /\ op' = Idle /\ up' = TRUE /\ rkx_free_async_count' = 0
      /\ next' = [p \in DOMAIN next |-> IF p \in Bucket THEN NONE ELSE next[p]]
      /\ UNCHANGED <<mem, rule, readerVars, seen>>
  BY Zenon DEF rkx_init_free_async
<1>2. op.kind # "inc" /\ op'.kind = "none" /\ op'.kind # "inc"
  BY Zenon, <1>1 DEF Idle
<1>3. \A e \in Entry : mem[e] # "linked"
  BY Zenon, <1>1 DEF TInv, RInv, Pending
<1>4. InRcu = {}
  <2>1. ~up
    BY Zenon, <1>1 DEF TInv, Ops
  <2>2. \A r \in Reader : at[r] = "idle"
    BY Zenon, <2>1 DEF TInv, Ops, RuleTypes
  <2> QED  BY Zenon, <2>2 DEF InRcu
<1>5. \A b \in Bucket : next'[b] = NONE
  BY Zenon, <1>1 DEF TInv, RInv, Types, Node
<1>6. \A k : Linked(k) = {} /\ Linked(k)' = {}
  BY Zenon, <1>1, <1>3 DEF Linked
<1>7. Rules'
  BY Zenon, <1>1, <1>3, <1>5 DEF TInv, Rules, Live, Strategy, Node
<1>8. Ops'
  BY Zenon, <1>1 DEF Ops, Idle
<1>9. \A k \in Keys : Value(k)' = Value(k)
  BY Zenon, <1>2, <1>6, ValueSame
<1>10. rkx_free_async_count' \in Int
  BY <1>1
<1>11. rule' \in [Entry -> [key : Keys \cup {NONE}, strategy : Answers]]
  BY Zenon, <1>1 DEF TInv, RuleTypes
<1> QED  BY Zenon, <1>1, <1>3, <1>4, <1>7, <1>8, <1>9, <1>10, <1>11, QuietTInv

\* What the invariant says of one reader.
Informed(r) ==
  \A k \in Keys : IF asked[r] # NONE /\ k \in Consulted(asked[r]) THEN Value(k) \subseteq seen[r][k]
                                                               ELSE seen[r][k] = {}
Walking(r) ==
  r \in InRcu => \A e \in Entry :
    /\ e \in Reach(pos[r]) /\ rule[e].key \in Consulted(asked[r]) => Strategy(e) \in seen[r][rule[e].key]
    /\ mem[e] = "linked" /\ rule[e].key = asked[r] /\ NONE \notin seen[r][asked[r]] => Front(r, e)
    /\ mem[e] = "linked" /\ rule[e].key = Wildcard(asked[r]) /\ NONE \notin seen[r][Wildcard(asked[r])] =>
         Front(r, e) \/ wild[r] # NONE
Remembers(r) == wild[r] # NONE => r \in InRcu /\ wild[r] \in seen[r][Wildcard(asked[r])]
Placed(r) == /\ asked[r] = NONE <=> at[r] = "idle"
             /\ at[r] = "visit" => pos[r] \in Entry
             /\ ~up => asked[r] = NONE

(* A step of one lookup leaves the table and the other lookups alone.      *)
LEMMA ReaderTInv ==
  ASSUME TInv, RInv', UNCHANGED <<next, mem, rule, rkx_free_async_count, op, up>>,
         NEW r \in Reader,
         wild' \in [Reader -> Answers], answer' \in [Reader -> Answers],
         seen' \in [Reader -> [Keys -> SUBSET Answers]],
         \A q \in Reader : q # r => /\ at'[q] = at[q] /\ asked'[q] = asked[q] /\ pos'[q] = pos[q]
                                    /\ wild'[q] = wild[q] /\ seen'[q] = seen[q],
         Informed(r)', Walking(r)', Remembers(r)', Placed(r)'
  PROVE  TInv'
<1>1. (\A p : Reach(p)' = Reach(p)) /\ (\A k : Linked(k)' = Linked(k)) /\ (\A k : Value(k)' = Value(k))
      /\ \A e : Strategy(e)' = Strategy(e)
  BY Zenon DEF Reach, Linked, Value, Strategy
<1>2. ASSUME NEW q \in Reader, q # r
      PROVE  /\ Informed(q)' /\ Walking(q)' /\ Remembers(q)' /\ Placed(q)'
  <2>1. /\ at'[q] = at[q] /\ asked'[q] = asked[q] /\ pos'[q] = pos[q]
        /\ wild'[q] = wild[q] /\ seen'[q] = seen[q] /\ up' = up
    BY Zenon, <1>2
  <2>2. /\ Consulted(asked[q])' = Consulted(asked[q]) /\ Wildcard(asked[q])' = Wildcard(asked[q])
        /\ (q \in InRcu' <=> q \in InRcu) /\ \A e : Front(q, e)' <=> Front(q, e)
    BY Zenon, <1>1, <2>1 DEF Consulted, Wildcard, InRcu, Front
  <2>3. Informed(q) /\ Informed(q)'
    <3>1. Informed(q)
      BY Zenon DEF TInv, Shown, Informed
    <3> QED  BY Zenon, <1>1, <2>1, <2>2, <3>1 DEF Informed
  <2>4. Walking(q)'
    <3>1. Walking(q)
      BY Zenon DEF TInv, Met, Ahead, Walking
    <3>2. Reach(pos[q])' = Reach(pos[q])
      BY Zenon, <1>1, <2>1
    <3> QED  BY Zenon, <1>1, <2>1, <2>2, <3>1, <3>2 DEF Walking
  <2>5. Remembers(q)'
    BY Zenon, <2>1, <2>2 DEF TInv, Wilds, Remembers
  <2>6. Placed(q)'
    <3>1. Placed(q)
      BY Zenon DEF TInv, RuleTypes, Ops, Placed
    <3>2. ~up' => ~up
      BY <2>1
    <3> QED  BY Zenon, <2>1, <3>1, <3>2 DEF Placed
  <2> QED  BY Zenon, <2>3, <2>4, <2>5, <2>6
<1>3. \A q \in Reader : Informed(q)' /\ Walking(q)' /\ Remembers(q)' /\ Placed(q)'
  BY Zenon, <1>2
<1>4. RuleTypes'
  BY Zenon, <1>3 DEF TInv, RuleTypes, Placed
<1>5. Rules'
  BY Zenon, RulesStay DEF TInv, Rules, Strategy
<1>6. Ops'
  BY Zenon, <1>1, <1>3 DEF TInv, Ops, Placed
<1>7. Shown'
  BY Zenon, <1>3 DEF Shown, Informed
<1>8. \A q \in InRcu' : q \in Reader
  BY Zenon DEF InRcu
<1>9. Met'
  BY Zenon, <1>3, <1>8 DEF Met, Walking
<1>10. Ahead'
  BY Zenon, <1>3, <1>8 DEF Ahead, Walking
<1>11. Wilds'
  BY Zenon, <1>3 DEF Wilds, Remembers
<1> QED  BY Zenon, <1>4, <1>5, <1>6, <1>7, <1>9, <1>10, <1>11 DEF TInv

(* The end of a lookup: Return.                                            *)
LEMMA ReturnTInv ==
  ASSUME TInv, RInv', NEW r \in Reader, NEW a \in Answers, Return(r, a)
  PROVE  TInv'
<1>1. /\ UNCHANGED <<next, mem, rule, rkx_free_async_count, op, up>>
      /\ asked' = [asked EXCEPT ![r] = NONE] /\ answer' = [answer EXCEPT ![r] = a]
      /\ at' = [at EXCEPT ![r] = "idle"] /\ pos' = [pos EXCEPT ![r] = NONE]
      /\ wild' = [wild EXCEPT ![r] = NONE] /\ seen' = [seen EXCEPT ![r] = [k \in Keys |-> {}]]
  BY Zenon DEF Return
<1>2. /\ asked'[r] = NONE /\ at'[r] = "idle" /\ wild'[r] = NONE
      /\ \A q \in Reader : q # r => at'[q] = at[q] /\ asked'[q] = asked[q] /\ pos'[q] = pos[q]
  BY <1>1 DEF TInv, RInv, Types, RuleTypes
<1>3. /\ wild' \in [Reader -> Answers] /\ answer' \in [Reader -> Answers]
      /\ \A q \in Reader : q # r => wild'[q] = wild[q]
  BY Zenon, <1>1 DEF TInv, RuleTypes, Answers
<1>4. /\ seen' \in [Reader -> [Keys -> SUBSET Answers]] /\ \A k \in Keys : seen'[r][k] = {}
      /\ \A q \in Reader : q # r => seen'[q] = seen[q]
  BY Zenon, <1>1 DEF TInv, RuleTypes
<1>5. Informed(r)'
  BY Zenon, <1>2, <1>4 DEF Informed
<1>6. Walking(r)' /\ Remembers(r)' /\ Placed(r)'
  BY Zenon, <1>2 DEF Walking, Remembers, Placed, InRcu
<1> QED  BY Zenon, <1>1, <1>2, <1>3, <1>4, <1>5, <1>6, ReaderTInv

(* The start of a lookup: it is shown the rules as they are.               *)
LEMMA BeginTInv ==
  ASSUME TInv, RInv', NEW r \in Reader, NEW k \in Keys, LookupBegin(r, k)
  PROVE  TInv'
<1>1. /\ up /\ asked[r] = NONE /\ asked' = [asked EXCEPT ![r] = k]
      /\ at' = [at EXCEPT ![r] = "count"] /\ answer' = [answer EXCEPT ![r] = NONE]
      /\ seen' = [seen EXCEPT ![r] = [x \in Keys |-> IF x \in Consulted(k) THEN Value(x) ELSE {}]]
      /\ UNCHANGED <<next, mem, rule, rkx_free_async_count, op, up, pos, wild>>
  BY Zenon DEF LookupBegin, tableVars
<1>2. /\ asked'[r] = k /\ at'[r] = "count" /\ k # NONE
      /\ \A q \in Reader : q # r => at'[q] = at[q] /\ asked'[q] = asked[q]
  BY <1>1, DisjointAssumption DEF TInv, RInv, Types
<1>3. answer' \in [Reader -> Answers]
  BY Zenon, <1>1 DEF TInv, RuleTypes, Answers
<1>4. \A x \in Keys : Value(x) \subseteq Answers /\ Value(x)' = Value(x)
  <2>1. \A x \in Keys : Value(x) \subseteq Answers
    BY Zenon, Values DEF TInv
  <2>2. \A x : Value(x)' = Value(x)
    BY Zenon, <1>1 DEF Value, Linked, Strategy
  <2> QED  BY Zenon, <2>1, <2>2
<1>5. /\ seen' \in [Reader -> [Keys -> SUBSET Answers]]
      /\ \A x \in Keys : seen'[r][x] = IF x \in Consulted(k) THEN Value(x) ELSE {}
      /\ \A q \in Reader : q # r => seen'[q] = seen[q]
  BY Zenon, <1>1, <1>4 DEF TInv, RuleTypes
<1>6. wild[r] = NONE
  <2>1. at[r] = "idle"
    BY Zenon, <1>1 DEF TInv, RuleTypes
  <2>2. r \notin InRcu
    BY Zenon, <2>1 DEF InRcu
  <2> QED  BY Zenon, <2>2 DEF TInv, Wilds
<1>7. Informed(r)'
  <2> SUFFICES ASSUME NEW x \in Keys
               PROVE  (IF asked[r] # NONE /\ x \in Consulted(asked[r])
                       THEN Value(x) \subseteq seen[r][x] ELSE seen[r][x] = {})'
    BY Zenon DEF Informed
  <2>1. Consulted(asked[r])' = Consulted(k)
    BY Zenon, <1>2 DEF Consulted
  <2> QED  BY Zenon, <1>2, <1>4, <1>5, <2>1
<1>8. Walking(r)' /\ Remembers(r)' /\ Placed(r)'
  BY Zenon, <1>1, <1>2, <1>6 DEF Walking, Remembers, Placed, InRcu
<1> QED  BY Zenon, <1>1, <1>2, <1>3, <1>5, <1>7, <1>8, ReaderTInv DEF TInv, RuleTypes

(* A step inside of a lookup moves along the list.                         *)
LEMMA MoveTInv ==
  ASSUME TInv, RInv', NEW r \in Reader, at[r] # "idle", at'[r] \in {"visit", "advance"},
         UNCHANGED <<tableVars, op, up, asked, answer, seen>>,
         \A q \in Reader : q # r => at'[q] = at[q] /\ pos'[q] = pos[q] /\ wild'[q] = wild[q],
         wild' \in [Reader -> Answers],
         at'[r] = "visit" => pos'[r] \in Entry, Walking(r)', Remembers(r)'
  PROVE  TInv'
<1>1. UNCHANGED <<next, mem, rule, rkx_free_async_count, op, up, asked, answer, seen>>
  BY Zenon DEF tableVars
<1>2. asked[r] # NONE /\ up
  BY Zenon DEF TInv, RuleTypes, Ops
<1>3. Informed(r)'
  <2> SUFFICES ASSUME NEW x \in Keys
               PROVE  (IF asked[r] # NONE /\ x \in Consulted(asked[r])
                       THEN Value(x) \subseteq seen[r][x] ELSE seen[r][x] = {})'
    BY Zenon DEF Informed
  <2>1. Consulted(asked[r])' = Consulted(asked[r]) /\ Value(x)' = Value(x)
    BY Zenon, <1>1 DEF Consulted, Value, Linked, Strategy
  <2>2. IF asked[r] # NONE /\ x \in Consulted(asked[r])
        THEN Value(x) \subseteq seen[r][x] ELSE seen[r][x] = {}
    BY Zenon DEF TInv, Shown
  <2> QED  BY Zenon, <1>1, <2>1, <2>2
<1>4. Placed(r)'
  BY <1>1, <1>2 DEF Placed
<1>5. seen' \in [Reader -> [Keys -> SUBSET Answers]] /\ answer' \in [Reader -> Answers]
  BY Zenon, <1>1 DEF TInv, RuleTypes
<1> QED  BY Zenon, <1>1, <1>3, <1>4, <1>5, ReaderTInv

(* Into RCU, at the head of the bucket: everything linked is ahead.        *)
LEMMA EnterTInv ==
  ASSUME TInv, RInv', NEW r \in Reader, at[r] = "count",
         at' = [at EXCEPT ![r] = "advance"], pos' = [pos EXCEPT ![r] = Hash[asked[r][1]]],
         UNCHANGED <<tableVars, op, up, asked, wild, answer, seen>>
  PROVE  TInv'
<1> DEFINE k == asked[r]
           b == Hash[k[1]]
<1>1. /\ k \in Keys /\ k # NONE /\ k[1] \in Rpc /\ Wildcard(k) \in Keys
      /\ \A j \in Consulted(k) : j \in Keys /\ j[1] = k[1]
      /\ k \in Consulted(k) /\ Wildcard(k) \in Consulted(k)
  <2>1. k \in Keys /\ k # NONE
    BY DisjointAssumption DEF TInv, RInv, Types
  <2> QED  BY Zenon, <2>1, ConsultedKeys DEF Consulted, Wildcard
<1>2. b \in Bucket
  BY Zenon, <1>1, HashAssumption
<1>3. at'[r] = "advance" /\ pos'[r] = b /\
      \A q \in Reader : q # r => at'[q] = at[q] /\ pos'[q] = pos[q]
  BY DEF TInv, RInv, Types
<1> HIDE DEF b
<1>4. UNCHANGED <<next, mem, rule, asked, wild, seen>>
  BY Zenon DEF tableVars
<1>5. \A e \in Entry : e \in Reach(b) => mem[e] = "linked"
  <2>1. Reach(b) \subseteq HomeSet(b)
    BY Zenon, <1>2, HomeClosed DEF TInv
  <2> QED  BY Zenon, <2>1, DisjointAssumption DEF HomeSet, Live
<1>6. ASSUME NEW e \in Entry, mem[e] = "linked"
      PROVE  /\ rule[e].key \in Consulted(k) => Strategy(e) \in seen[r][rule[e].key]
             /\ rule[e].key \in Consulted(k) => e \in Reach(b) /\ e # b
  <2>1. /\ rule[e].key \in Keys /\ Home(e) = Hash[rule[e].key[1]] /\ e \notin Bucket
        /\ e \in Linked(rule[e].key) /\ e \in Reach(Home(e))
    BY Zenon, <1>6, HomeBucket DEF TInv, Rules, Linked
  <2>2. Strategy(e) \in Value(rule[e].key)
    BY Zenon, <2>1, Values DEF TInv
  <2>3. rule[e].key \in Consulted(k) => Strategy(e) \in seen[r][rule[e].key]
    BY Zenon, <1>1, <2>1, <2>2 DEF TInv, Shown
  <2>4. rule[e].key \in Consulted(k) => Home(e) = b
    BY Zenon, <1>1, <2>1 DEF b
  <2> QED  BY Zenon, <1>2, <2>1, <2>3, <2>4
<1>7. Consulted(asked[r])' = Consulted(k) /\ Wildcard(asked[r])' = Wildcard(k)
  BY Zenon, <1>4 DEF Consulted, Wildcard
<1>8. Reach(pos[r])' = Reach(b)
  BY Zenon, <1>3, <1>4 DEF Reach
<1>9. Walking(r)'
  <2> SUFFICES ASSUME NEW e \in Entry
      PROVE
        (/\ e \in Reach(pos[r]) /\ rule[e].key \in Consulted(asked[r]) => Strategy(e) \in seen[r][rule[e].key]
         /\ mem[e] = "linked" /\ rule[e].key = asked[r] /\ NONE \notin seen[r][asked[r]] => Front(r, e)
         /\ mem[e] = "linked" /\ rule[e].key = Wildcard(asked[r]) /\ NONE \notin seen[r][Wildcard(asked[r])] =>
              Front(r, e) \/ wild[r] # NONE)'
    BY Zenon DEF Walking
  <2>1. Strategy(e)' = Strategy(e)
    BY Zenon, <1>4 DEF Strategy
  <2>2. (e \in Reach(pos[r]) /\ rule[e].key \in Consulted(asked[r]) => Strategy(e) \in seen[r][rule[e].key])'
    BY Zenon, <1>4, <1>5, <1>6, <1>7, <1>8, <2>1
  <2>3. mem[e] = "linked" /\ rule[e].key \in Consulted(k) => Front(r, e)'
    BY Zenon, <1>3, <1>6, <1>8 DEF Front
  <2> QED  BY Zenon, <1>1, <1>4, <1>7, <2>2, <2>3
<1>10. Remembers(r)'
  <2>1. wild[r] = NONE
    BY Zenon DEF TInv, Wilds, InRcu
  <2> QED  BY Zenon, <1>4, <2>1 DEF Remembers
<1>11. at'[r] \in {"visit", "advance"} /\ at'[r] # "visit" /\ at[r] # "idle"
  BY Zenon, <1>3
<1>12. wild' \in [Reader -> Answers]
  BY Zenon, <1>4 DEF TInv, RuleTypes
<1> QED  BY Zenon, <1>3, <1>4, <1>9, <1>10, <1>11, <1>12, MoveTInv

(* LookupVisit without an exact rule: what it passes is not the exact      *)
(* rule, and a wildcard rule is remembered.                                *)
LEMMA PassTInv ==
  ASSUME TInv, RInv', NEW r \in Reader, at[r] = "visit", ~Exact(pos[r], asked[r]),
         wild' = [wild EXCEPT ![r] = IF Exact(pos[r], <<asked[r][1], WILD>>)
                                     THEN Strategy(pos[r]) ELSE @],
         at' = [at EXCEPT ![r] = "advance"],
         UNCHANGED <<tableVars, op, up, asked, pos, answer, seen>>
  PROVE  TInv'
<1> DEFINE k == asked[r]
           e0 == pos[r]
<1>1. r \in InRcu /\ e0 \in Entry /\ k \in Keys /\ Wildcard(k) \in Consulted(k)
  <2>1. r \in InRcu /\ k \in Keys
    BY Zenon DEF TInv, RInv, Types, InRcu
  <2> QED  BY Zenon, <2>1, ConsultedKeys DEF TInv, RuleTypes, Consulted, Wildcard
<1>2. UNCHANGED <<next, mem, rule, asked, pos, seen>>
  BY Zenon DEF tableVars
<1>3. at'[r] = "advance" /\ \A q \in Reader : q # r => at'[q] = at[q]
  BY Zenon DEF TInv, RInv, Types
<1>4. Types /\ e0 \in Node /\ e0 \in Reach(e0) /\ Strategy(e0) \in Strategies
  <2>1. mem[e0] # "free"
    BY Zenon, <1>1, DisjointAssumption DEF TInv, RInv, Walks, Kept
  <2> QED  BY Zenon, <1>1, <2>1, ReachGoesOn DEF TInv, RInv, Rules, Node
<1>5. /\ rule[e0].key # k
      /\ wild'[r] = IF rule[e0].key = Wildcard(k) THEN Strategy(e0) ELSE wild[r]
      /\ \A q \in Reader : q # r => wild'[q] = wild[q]
  BY Zenon DEF Exact, Wildcard, TInv, RuleTypes
<1>6. wild' \in [Reader -> Answers]
  BY Zenon, <1>4 DEF TInv, RuleTypes, Answers
<1> HIDE DEF e0
<1>7. Strategy(e0) # NONE
  BY Zenon, <1>4, DisjointAssumption
<1>8. rule[e0].key = Wildcard(k) => Strategy(e0) \in seen[r][Wildcard(k)]
  BY Zenon, <1>1, <1>4 DEF TInv, Met, e0
<1>9. /\ Consulted(asked[r])' = Consulted(k) /\ Wildcard(asked[r])' = Wildcard(k)
      /\ Reach(pos[r])' = Reach(e0) /\ Reach(pos[r]) = Reach(e0) /\ InRcu' = InRcu
  <2>1. InRcu' = InRcu
    BY Zenon, <1>1, <1>3 DEF InRcu
  <2> QED  BY Zenon, <1>2, <2>1 DEF Consulted, Wildcard, Reach, e0
<1>10. \A e : Front(r, e)' <=> Front(r, e) /\ e # e0
  <2>1. at[r] # "advance" /\ pos'[r] = e0
    BY Zenon, <1>2 DEF e0
  <2> QED  BY Zenon, <1>3, <1>9, <2>1 DEF Front
<1>11. Walking(r)'
  <2> SUFFICES ASSUME NEW e \in Entry
      PROVE
        (/\ e \in Reach(pos[r]) /\ rule[e].key \in Consulted(asked[r]) => Strategy(e) \in seen[r][rule[e].key]
         /\ mem[e] = "linked" /\ rule[e].key = asked[r] /\ NONE \notin seen[r][asked[r]] => Front(r, e)
         /\ mem[e] = "linked" /\ rule[e].key = Wildcard(asked[r]) /\ NONE \notin seen[r][Wildcard(asked[r])] =>
              Front(r, e) \/ wild[r] # NONE)'
    BY Zenon DEF Walking
  <2>1. Strategy(e)' = Strategy(e)
    BY Zenon, <1>2 DEF Strategy
  <2>2. e \in Reach(e0) /\ rule[e].key \in Consulted(k) => Strategy(e) \in seen[r][rule[e].key]
    BY Zenon, <1>1, <1>9 DEF TInv, Met
  <2>3. mem[e] = "linked" /\ rule[e].key = k /\ NONE \notin seen[r][k] => Front(r, e)'
    BY Zenon, <1>1, <1>5, <1>10 DEF TInv, Ahead
  <2>4. mem[e] = "linked" /\ rule[e].key = Wildcard(k) /\ NONE \notin seen[r][Wildcard(k)] =>
          Front(r, e)' \/ wild'[r] # NONE
    <3>1. CASE e = e0
      BY Zenon, <1>5, <1>7, <3>1
    <3>2. CASE e # e0
      <4>1. mem[e] = "linked" /\ rule[e].key = Wildcard(k) /\ NONE \notin seen[r][Wildcard(k)] =>
              Front(r, e)' \/ wild[r] # NONE
        BY Zenon, <1>1, <1>10, <3>2 DEF TInv, Ahead
      <4>2. wild[r] # NONE => wild'[r] # NONE
        BY Zenon, <1>5, <1>7
      <4> QED  BY Zenon, <4>1, <4>2
    <3> QED  BY Zenon, <3>1, <3>2
  <2> QED  BY Zenon, <1>2, <1>9, <2>1, <2>2, <2>3, <2>4
<1>12. Remembers(r)'
  BY Zenon, <1>1, <1>2, <1>5, <1>8, <1>9 DEF TInv, Wilds, Remembers
<1>13. at'[r] \in {"visit", "advance"} /\ at'[r] # "visit" /\ at[r] # "idle"
  BY Zenon, <1>3
<1> QED  BY Zenon, <1>2, <1>3, <1>5, <1>6, <1>11, <1>12, <1>13, MoveTInv

(* LookupAdvance follows a pointer: nothing that was ahead is skipped.     *)
LEMMA FollowTInv ==
  ASSUME TInv, RInv', NEW r \in Reader, at[r] = "advance", next[pos[r]] # NONE,
         pos' = [pos EXCEPT ![r] = next[pos[r]]], at' = [at EXCEPT ![r] = "visit"],
         UNCHANGED <<tableVars, op, up, asked, wild, answer, seen>>
  PROVE  TInv'
<1> DEFINE k == asked[r]
           p == pos[r]
           n == next[p]
<1>1. r \in InRcu /\ p \in Node /\ Types
  <2>1. r \in InRcu
    BY Zenon DEF InRcu
  <2> QED  BY Zenon, <2>1, WalkClosed DEF TInv, RInv
<1>2. UNCHANGED <<next, mem, rule, asked, wild, seen>>
  BY Zenon DEF tableVars
<1>3. /\ at'[r] = "visit" /\ pos'[r] = n /\ n \in Entry /\ n \in Node
      /\ \A q \in Reader : q # r => at'[q] = at[q] /\ pos'[q] = pos[q]
  BY Zenon, <1>1 DEF Types, Node
<1>4. /\ Reach(n) \subseteq Reach(p)
      /\ \A e \in Reach(p) : e # p => e \in Reach(n)
  <2>1. /\ p \in Reach(p) /\ Reach(p) \in SUBSET Node
        /\ \A y \in Reach(p) : next[y] # NONE => next[y] \in Reach(p)
    BY Zenon, <1>1, ReachGoesOn
  <2>2. n \in Reach(p)
    BY Zenon, <2>1
  <2>3. Reach(n) \subseteq Reach(p)
    BY Zenon, <2>1, <2>2, ReachInside
  <2> QED  BY Zenon, <1>1, <2>3, ReachStep
<1> HIDE DEF n
<1>5. /\ Consulted(asked[r])' = Consulted(k) /\ Wildcard(asked[r])' = Wildcard(k)
      /\ Reach(pos[r])' = Reach(n) /\ InRcu' = InRcu
  <2>1. InRcu' = InRcu
    BY Zenon, <1>1, <1>3 DEF InRcu
  <2> QED  BY Zenon, <1>2, <1>3, <2>1 DEF Consulted, Wildcard, Reach
<1>6. \A e : Front(r, e) => Front(r, e)'
  <2>1. at'[r] # "advance"
    BY Zenon, <1>3
  <2> QED  BY Zenon, <1>4, <1>5, <2>1 DEF Front
<1>7. Walking(r)'
  <2> SUFFICES ASSUME NEW e \in Entry
      PROVE
        (/\ e \in Reach(pos[r]) /\ rule[e].key \in Consulted(asked[r]) => Strategy(e) \in seen[r][rule[e].key]
         /\ mem[e] = "linked" /\ rule[e].key = asked[r] /\ NONE \notin seen[r][asked[r]] => Front(r, e)
         /\ mem[e] = "linked" /\ rule[e].key = Wildcard(asked[r]) /\ NONE \notin seen[r][Wildcard(asked[r])] =>
              Front(r, e) \/ wild[r] # NONE)'
    BY Zenon DEF Walking
  <2>1. Strategy(e)' = Strategy(e)
    BY Zenon, <1>2 DEF Strategy
  <2>2. e \in Reach(n) /\ rule[e].key \in Consulted(k) => Strategy(e) \in seen[r][rule[e].key]
    BY Zenon, <1>1, <1>4 DEF TInv, Met
  <2>3. mem[e] = "linked" /\ rule[e].key = k /\ NONE \notin seen[r][k] => Front(r, e)'
    BY Zenon, <1>1, <1>6 DEF TInv, Ahead
  <2>4. mem[e] = "linked" /\ rule[e].key = Wildcard(k) /\ NONE \notin seen[r][Wildcard(k)] =>
          Front(r, e)' \/ wild[r] # NONE
    BY Zenon, <1>1, <1>6 DEF TInv, Ahead
  <2> QED  BY Zenon, <1>2, <1>5, <2>1, <2>2, <2>3, <2>4
<1>8. Remembers(r)'
  BY Zenon, <1>1, <1>2, <1>5 DEF TInv, Wilds, Remembers
<1>9. at'[r] \in {"visit", "advance"} /\ at[r] # "idle" /\ wild' \in [Reader -> Answers]
  BY Zenon, <1>2, <1>3 DEF TInv, RuleTypes
<1> QED  BY Zenon, <1>2, <1>3, <1>7, <1>8, <1>9, MoveTInv

(* What the three steps of a lookup return is an answer.                   *)
LEMMA LookupTInv ==
  ASSUME TInv, RInv', NEW r \in Reader, Lookup(r)
  PROVE  TInv'
<1>1. CASE LookupCount(r)
  <2>1. CASE Return(r, NONE)
    <3>1. NONE \in Answers
      BY Zenon DEF Answers
    <3> QED  BY Zenon, <2>1, <3>1, ReturnTInv
  <2>2. CASE ~Return(r, NONE)
    BY Zenon, <1>1, <2>2, EnterTInv DEF LookupCount
  <2> QED  BY Zenon, <2>1, <2>2
<1>2. CASE LookupVisit(r)
  <2>1. CASE Exact(pos[r], asked[r]) /\ Return(r, Strategy(pos[r]))
    <3>1. pos[r] \in Entry
      BY Zenon, <1>2 DEF LookupVisit, TInv, RuleTypes
    <3>2. Strategy(pos[r]) \in Answers
      BY Zenon, <3>1 DEF TInv, RuleTypes, Strategy
    <3> QED  BY Zenon, <2>1, <3>2, ReturnTInv
  <2>2. CASE ~(Exact(pos[r], asked[r]) /\ Return(r, Strategy(pos[r])))
    BY Zenon, <1>2, <2>2, PassTInv DEF LookupVisit
  <2> QED  BY Zenon, <2>1, <2>2
<1>3. CASE LookupAdvance(r)
  <2>1. CASE next[pos[r]] = NONE /\ Return(r, wild[r])
    <3>1. wild[r] \in Answers
      BY Zenon DEF TInv, RuleTypes
    <3> QED  BY Zenon, <2>1, <3>1, ReturnTInv
  <2>2. CASE ~(next[pos[r]] = NONE /\ Return(r, wild[r]))
    BY Zenon, <1>3, <2>2, FollowTInv DEF LookupAdvance
  <2> QED  BY Zenon, <2>1, <2>2
<1> QED  BY Zenon, <1>1, <1>2, <1>3 DEF Lookup

(* Every step of the table and of its lookups keeps the invariant.         *)
LEMMA StepTInv == TInv /\ [Next]_vars => TInv'
<1> SUFFICES ASSUME TInv, [Next]_vars  PROVE TInv'
  BY Zenon
<1>1. RInv'
  BY Zenon, StepRInv DEF TInv
<1>2. CASE UNCHANGED vars
  <2>1. UNCHANGED <<next, mem, rule, rkx_free_async_count, op, up, readerVars, seen>>
    BY Zenon, <1>2 DEF vars, tableVars
  <2>2. Rules' /\ (\A p : Reach(p)' = Reach(p)) /\ (\A k : Linked(k)' = Linked(k))
    BY Zenon, <2>1, RulesStay DEF TInv, Rules, Strategy
  <2>3. Ops'
    BY Zenon, <2>1, <2>2 DEF TInv, Ops, readerVars
  <2>4. \A k \in Keys : Value(k)' = Value(k)
    BY Zenon, <2>1, <2>2, ValueSame DEF Strategy
  <2>5. \A r \in InRcu : Reach(pos[r])' = Reach(pos[r])
    BY Zenon, <2>1, <2>2 DEF readerVars
  <2>6. /\ rule' \in [Entry -> [key : Keys \cup {NONE}, strategy : Answers]]
        /\ rkx_free_async_count' \in Int
    BY Zenon, <2>1 DEF TInv, RuleTypes
  <2> QED  BY Zenon, <1>1, <2>1, <2>2, <2>3, <2>4, <2>5, <2>6, QuietTInv
<1>3. CASE Command
  BY Zenon, <1>1, <1>3, UpdateTInv, LinkTInv, DelTInv DEF Command
<1>4. CASE CommandEnd \/ DestroyBegin \/ Destroy
  BY Zenon, <1>1, <1>4, CountTInv, BetweenTInv, DestroyTInv DEF CommandEnd, Destroy
<1>5. CASE rkx_init_free_async \/ \E e \in Entry : RcuReclaim(e)
  BY Zenon, <1>1, <1>5, InitTableTInv, ReclaimTInv
<1>6. CASE \E r \in Reader : Lookup(r) \/ \E k \in Rpc \X Code : LookupBegin(r, k)
  <2>1. \A k \in Rpc \X Code : k \in Keys
    BY Zenon DEF Keys
  <2> QED  BY Zenon, <1>1, <1>6, <2>1, LookupTInv, BeginTInv
<1> QED  BY Zenon, <1>2, <1>3, <1>4, <1>5, <1>6 DEF Next

(* Before rkx_init_free_async there is no rule and no lookup.              *)
LEMMA InitTInv == Init => TInv
<1> SUFFICES ASSUME Init  PROVE TInv
  BY Zenon
<1>1. /\ next = [p \in Node |-> NONE] /\ mem = [e \in Entry |-> "free"]
      /\ rule = [e \in Entry |-> Blank] /\ grace = [e \in Entry |-> {}]
      /\ rkx_free_async_count = 0 /\ op = Idle /\ up = TRUE
      /\ at = [r \in Reader |-> "idle"] /\ asked = [r \in Reader |-> NONE]
      /\ pos = [r \in Reader |-> NONE] /\ wild = [r \in Reader |-> NONE]
      /\ answer = [r \in Reader |-> NONE] /\ seen = [r \in Reader |-> [k \in Keys |-> {}]]
  BY Zenon DEF Init
<1>2. RInv
  BY Zenon, <1>1, DisjointAssumption DEF RInv, Types, Lists, Live, Pending, Graces, Walks, InRcu, Node, Idle
<1>3. InRcu = {}
  BY Zenon, <1>1 DEF InRcu
<1>4. RuleTypes
  BY <1>1 DEF RuleTypes, Answers, Blank
<1>5. Rules
  <2>1. (\A e \in Entry : mem[e] = "free" /\ mem[e] # "linked") /\ \A p \in Node : next[p] = NONE
    BY Zenon, <1>1
  <2> QED  BY Zenon, <2>1 DEF Rules
<1>6. Ops
  BY Zenon, <1>1 DEF Ops, Idle
<1>7. (\A r \in Reader : asked[r] = NONE /\ wild[r] = NONE) /\ \A r \in Reader, k \in Keys : seen[r][k] = {}
  BY Zenon, <1>1
<1>8. Shown /\ Met /\ Ahead /\ Wilds
  BY Zenon, <1>3, <1>7 DEF Shown, Met, Ahead, Wilds
<1> QED  BY Zenon, <1>2, <1>4, <1>5, <1>6, <1>8 DEF TInv

-----------------------------------------------------------------------------
(* RefinesTable, step by step.                                             *)

\* The counter never says "no rules" while every lookup must see one.
NoneLeft == up /\ ~rkx_free_async_has_entries => \A k \in Keys : NONE \in Value(k)

(* The values of the one key a command changes, after its step.            *)
LEMMA ValueNext ==
  ASSUME NEW k \in Keys
  PROVE  /\ Linked(k)' = {} => Value(k)' = {NONE}
         /\ \A e : Linked(k)' = {e} =>
              Value(k)' = IF op'.kind = "inc" /\ op'.key = k THEN {NONE, Strategy(e)'} ELSE {Strategy(e)'}
<1>1. Linked(k)' = {} => Value(k)' = {NONE}
  BY Zenon DEF Value
<1>2. ASSUME NEW e, Linked(k)' = {e}
      PROVE  Value(k)' = IF op'.kind = "inc" /\ op'.key = k THEN {NONE, Strategy(e)'} ELSE {Strategy(e)'}
  <2>1. {Strategy(x)' : x \in Linked(k)'} = {Strategy(e)'}
    BY Zenon, <1>2
  <2>2. Linked(k)' # {}
    BY Zenon, <1>2
  <2> QED  BY Zenon, <2>1, <2>2 DEF Value
<1> QED  BY Zenon, <1>1, <1>2

(* A step that changes the values of one key is a Change of the table: the *)
(* lookups were shown the values of the other keys before.                 *)
LEMMA ChangeStep ==
  ASSUME TInv, Witness, UNCHANGED <<asked, answer>>, NEW k \in Keys,
         \A j \in Keys : j # k => Value(j)' = Value(j), NEW V, Value(k)' = V
  PROVE  Table!Change(k, V)
<1> DEFINE val == [j \in Keys |-> Value(j)]
<1>1. [j \in Keys |-> Value(j)'] = [val EXCEPT ![k] = V]
  BY Zenon
<1>2. \A r \in Reader, j \in Keys : seen'[r][j] =
        IF asked[r] # NONE /\ j \in Consulted(asked[r]) THEN seen[r][j] \cup Value(j)' ELSE {}
  BY Zenon DEF Witness
<1>3. \A r \in Reader, j \in Keys :
        IF asked[r] # NONE /\ j \in Consulted(asked[r]) THEN Value(j) \subseteq seen[r][j]
                                                        ELSE seen[r][j] = {}
  BY Zenon DEF TInv, Shown
<1>4. ASSUME NEW r \in Reader
      PROVE  seen'[r] = IF asked[r] # NONE /\ k \in Consulted(asked[r])
                        THEN [seen[r] EXCEPT ![k] = @ \cup V] ELSE seen[r]
  <2>1. seen'[r] = [j \in Keys |-> seen'[r][j]]
    BY Zenon DEF Witness
  <2>2. seen[r] = [j \in Keys |-> seen[r][j]]
    BY Zenon DEF TInv, RuleTypes
  <2>3. ASSUME NEW j \in Keys, j # k  PROVE seen'[r][j] = seen[r][j]
    <3>1. CASE asked[r] # NONE /\ j \in Consulted(asked[r])
      <4>1. seen'[r][j] = seen[r][j] \cup Value(j) /\ Value(j) \subseteq seen[r][j]
        BY Zenon, <1>2, <1>3, <2>3, <3>1
      <4> QED  BY Zenon, <4>1
    <3>2. CASE ~(asked[r] # NONE /\ j \in Consulted(asked[r]))
      BY Zenon, <1>2, <1>3, <3>2
    <3> QED  BY Zenon, <3>1, <3>2
  <2>4. seen'[r][k] = IF asked[r] # NONE /\ k \in Consulted(asked[r]) THEN seen[r][k] \cup V ELSE seen[r][k]
    BY Zenon, <1>2, <1>3
  <2> QED  BY Zenon, <2>1, <2>2, <2>3, <2>4
<1>5. seen' = [r \in Reader |-> IF asked[r] # NONE /\ k \in Consulted(asked[r])
                                THEN [seen[r] EXCEPT ![k] = @ \cup V] ELSE seen[r]]
  <2>1. seen' = [r \in Reader |-> seen'[r]]
    BY Zenon DEF Witness
  <2> QED  BY Zenon, <1>4, <2>1
<1> QED  BY Zenon, <1>1, <1>5 DEF Table!Change, Table!Keys, Table!Consulted, Keys, Consulted

(* The rule of a key is the one entry linked for it.                       *)
LEMMA TheLinked ==
  ASSUME Rules, NEW k \in Keys, NEW e \in Linked(k)
  PROVE  Linked(k) = {e} /\ e \in Entry /\ mem[e] = "linked" /\ rule[e].key = k
<1>1. \A x \in Linked(k) : x = e
  BY Zenon DEF Rules, Linked
<1> QED  BY Zenon, <1>1 DEF Linked

(* AddUpdate sets a rule.                                                  *)
LEMMA UpdateRefines ==
  ASSUME TInv, NEW k \in Keys, NEW s \in Strategies, AddUpdate(k, s)
  PROVE  Table!Set(k)
<1>1. PICK e \in Linked(k) : rule' = [rule EXCEPT ![e].strategy = s]
  BY Zenon DEF AddUpdate
<1>2. UNCHANGED <<mem, op, asked, answer>> /\ op.kind # "inc" /\ op'.kind # "inc" /\ Witness
  BY Zenon DEF AddUpdate, readerVars, Idle
<1>3. Linked(k) = {e} /\ e \in Entry /\ rule[e].key = k
  BY Zenon, TheLinked DEF TInv
<1>4. /\ \A x \in Entry : rule'[x].key = rule[x].key /\ (x # e => Strategy(x)' = Strategy(x))
      /\ Strategy(e)' = s
  BY Zenon, <1>1, <1>3 DEF TInv, RuleTypes, Strategy
<1>5. \A j : Linked(j)' = Linked(j)
  BY Zenon, <1>2, <1>4 DEF Linked
<1>6. \A j \in Keys : j # k => Value(j)' = Value(j)
  <2>1. \A j \in Keys : \A x \in Linked(j) : j # k => Strategy(x)' = Strategy(x)
    BY Zenon, <1>3, <1>4 DEF Linked
  <2> QED  BY Zenon, <1>2, <1>5, <2>1, ValueSame
<1>7. Value(k) = {Strategy(e)} /\ Strategy(e) \in Strategies
  BY Zenon, <1>2, Values DEF TInv
<1>8. Value(k)' = {s}
  BY Zenon, <1>2, <1>3, <1>4, <1>5, ValueNext
<1>9. Table!Change(k, {s})
  BY Zenon, <1>2, <1>6, <1>8, ChangeStep
<1> QED  BY Zenon, <1>7, <1>9 DEF Table!Set

(* AddLink lets a rule appear: lookups may see it, or not yet.             *)
LEMMA LinkRefines ==
  ASSUME TInv, NEW k \in Keys, NEW s \in Strategies, AddLink(k, s)
  PROVE  Table!Appear(k)
<1>1. PICK d \in Entry : /\ mem[d] = "free" /\ mem' = [mem EXCEPT ![d] = "linked"]
                        /\ rule' = [rule EXCEPT ![d] = [key |-> k, strategy |-> s]]
  BY Zenon DEF AddLink
<1>2. /\ UNCHANGED <<asked, answer>> /\ op.kind # "inc" /\ op'.kind = "inc" /\ op'.key = k
      /\ Linked(k) = {} /\ Witness
  BY Zenon DEF AddLink, readerVars, Idle
<1>3. /\ \A x \in Entry : x # d => mem'[x] = mem[x] /\ rule'[x] = rule[x]
      /\ mem'[d] = "linked" /\ rule'[d].key = k /\ Strategy(d)' = s /\ mem[d] # "linked"
  BY Zenon, <1>1 DEF TInv, RInv, Types, RuleTypes, Strategy
<1>4. \A j : j # k => Linked(j)' = Linked(j)
  BY Zenon, <1>3 DEF Linked
<1>5. Linked(k)' = {d}
  BY Zenon, <1>2, <1>3 DEF Linked
<1>6. \A j \in Keys : j # k => Value(j)' = Value(j)
  <2>1. \A j \in Keys : \A x \in Linked(j) : Strategy(x)' = Strategy(x)
    BY Zenon, <1>3 DEF Linked, Strategy
  <2> QED  BY Zenon, <1>2, <1>4, <2>1, ValueSame
<1>7. Value(k) = {NONE}
  BY Zenon, <1>2, Values DEF TInv
<1>8. Value(k)' = {NONE, s}
  BY Zenon, <1>2, <1>3, <1>5, ValueNext
<1>9. Table!Change(k, {NONE, s})
  BY Zenon, <1>2, <1>6, <1>8, ChangeStep
<1> QED  BY Zenon, <1>7, <1>9 DEF Table!Appear

(* AddCount completes it: no lookup may miss it from now on.               *)
LEMMA CountRefines ==
  ASSUME TInv, AddCount
  PROVE  \E k \in Keys : Table!Complete(k)
<1>1. /\ UNCHANGED <<mem, rule, asked, answer>> /\ Witness
      /\ op.kind = "inc" /\ op'.kind # "inc"
  BY Zenon DEF AddCount, readerVars, Idle
<1>2. PICK k \in Keys : k = op.key /\ Linked(k) # {}
  BY Zenon, <1>1 DEF TInv, Ops
<1>3. PICK e \in Linked(k) : TRUE
  BY Zenon, <1>2
<1>4. Linked(k) = {e}
  BY Zenon, <1>2, TheLinked DEF TInv
<1>5. (\A j : Linked(j)' = Linked(j)) /\ \A x : Strategy(x)' = Strategy(x)
  BY Zenon, <1>1 DEF Linked, Strategy
<1>6. \A j \in Keys : j # k => Value(j)' = Value(j)
  <2>1. \A j \in Keys : j # k => ((op'.kind = "inc" /\ op'.key = j) <=> (op.kind = "inc" /\ op.key = j))
    BY Zenon, <1>1, <1>2
  <2> QED  BY Zenon, <1>5, <2>1, ValueSame
<1>7. Value(k) = {NONE, Strategy(e)} /\ Strategy(e) \in Strategies
  BY Zenon, <1>1, <1>2, Values DEF TInv
<1>8. Value(k)' = {Strategy(e)}
  BY Zenon, <1>1, <1>2, <1>4, <1>5, ValueNext
<1>9. Table!Change(k, {Strategy(e)})
  BY Zenon, <1>1, <1>2, <1>6, <1>8, ChangeStep
<1> QED  BY Zenon, <1>2, <1>7, <1>9 DEF Table!Complete

(* hash_del_rcu removes a rule, of a command or of the destruction.        *)
LEMMA UnlinkRefines ==
  ASSUME TInv, NEW d \in Entry, mem[d] = "linked",
         NEW m \in {"unlinked", "zombie"}, mem' = [mem EXCEPT ![d] = m],
         UNCHANGED <<rule, readerVars>>, op.kind # "inc", op'.kind # "inc", Witness
  PROVE  \E k \in Keys : Table!Remove(k)
<1>1. PICK k \in Keys : k = rule[d].key /\ d \in Linked(k) /\ UNCHANGED <<asked, answer>>
  BY Zenon, HomeBucket DEF TInv, Linked, readerVars
<1>2. Linked(k) = {d}
  BY Zenon, <1>1, TheLinked DEF TInv
<1>3. \A x \in Entry : mem'[x] = "linked" <=> mem[x] = "linked" /\ x # d
  BY Zenon DEF TInv, RInv, Types
<1>4. Linked(k)' = {} /\ \A j : j # k => Linked(j)' = Linked(j)
  <2>1. Linked(k)' = {}
    BY Zenon, <1>2, <1>3 DEF Linked
  <2>2. ASSUME NEW j, j # k  PROVE Linked(j)' = Linked(j)
    BY Zenon, <1>1, <1>3, <2>2 DEF Linked
  <2> QED  BY Zenon, <2>1, <2>2
<1>5. \A j \in Keys : j # k => Value(j)' = Value(j)
  BY Zenon, <1>4, ValueSame DEF Strategy
<1>6. Value(k) = {Strategy(d)} /\ Strategy(d) \in Strategies
  BY Zenon, <1>1, Values DEF TInv
<1>7. Value(k)' = {NONE}
  BY Zenon, <1>1, <1>4, ValueNext
<1>8. Table!Change(k, {NONE})
  BY Zenon, <1>1, <1>5, <1>7, ChangeStep
<1> QED  BY Zenon, <1>1, <1>6, <1>8 DEF Table!Remove

(* Return answers for the table, if the answer is one the lookup may give. *)
LEMMA ReturnRefines ==
  ASSUME TInv, NEW r \in Reader, asked[r] # NONE, NEW a \in Answers, Return(r, a),
         Table!MayAnswer(r, a)
  PROVE  Table!Answer(r)
<1>1. /\ asked' = [asked EXCEPT ![r] = NONE] /\ answer' = [answer EXCEPT ![r] = a]
      /\ seen' = [seen EXCEPT ![r] = [k \in Keys |-> {}]] /\ UNCHANGED <<mem, rule, op>>
  BY Zenon DEF Return
<1>2. \A k : Value(k)' = Value(k)
  BY Zenon, <1>1 DEF Value, Linked, Strategy
<1>3. [k \in Keys |-> Value(k)]' = [k \in Keys |-> Value(k)]
  BY Zenon, <1>2
<1> QED  BY Zenon, <1>1, <1>3 DEF Table!Answer, Table!Keys, Keys, Answers

(* A rule the lookup was shown all the time is not behind the last node.   *)
LEMMA EndOfList ==
  ASSUME TInv, NEW r \in InRcu, at[r] = "advance", next[pos[r]] = NONE
  PROVE  \A e : ~Front(r, e)
<1> SUFFICES ASSUME NEW e, Front(r, e)  PROVE FALSE
  BY Zenon
<1>1. pos[r] \in Node /\ e \in Reach(pos[r]) /\ e # pos[r] /\ Types
  BY Zenon, WalkClosed DEF TInv, RInv, Front
<1>2. next[pos[r]] # NONE
  BY Zenon, <1>1, ReachStep
<1> QED  BY Zenon, <1>2

(* The end of the bucket: there was a moment without the exact rule, and   *)
(* the wildcard rule is the one remembered, or there was a moment without. *)
LEMMA EndRefines ==
  ASSUME TInv, NEW r \in Reader, at[r] = "advance", next[pos[r]] = NONE
  PROVE  Table!MayAnswer(r, wild[r])
<1> DEFINE k == asked[r]
           w == Wildcard(k)
<1>1. r \in InRcu
  BY Zenon DEF InRcu
<1>2. k \in Keys /\ k # NONE /\ w \in Keys /\ k \in Consulted(k) /\ w \in Consulted(k)
  <2>1. k \in Keys /\ k # NONE
    BY Zenon, DisjointAssumption DEF TInv, RInv, Types
  <2> QED  BY Zenon, <2>1, ConsultedKeys DEF Consulted, Wildcard
<1>3. \A e : ~Front(r, e)
  BY Zenon, <1>1, EndOfList
<1>4. ASSUME NEW j \in Consulted(k), j \in Keys, NONE \notin seen[r][j]
      PROVE  \E e \in Entry : mem[e] = "linked" /\ rule[e].key = j
  <2>1. Value(j) \subseteq seen[r][j]
    BY Zenon, <1>2, <1>4 DEF TInv, Shown
  <2>2. Linked(j) # {}
    BY Zenon, <1>4, <2>1, Values DEF TInv
  <2> QED  BY Zenon, <2>2 DEF Linked
<1>5. NONE \in seen[r][k]
  BY Zenon, <1>1, <1>2, <1>3, <1>4 DEF TInv, Ahead
<1>6. wild[r] \in seen[r][w]
  <2>1. CASE wild[r] = NONE
    BY Zenon, <1>1, <1>2, <1>3, <1>4, <2>1 DEF TInv, Ahead
  <2>2. CASE wild[r] # NONE
    BY Zenon, <2>2 DEF TInv, Wilds
  <2> QED  BY Zenon, <2>1, <2>2
<1> QED  BY Zenon, <1>5, <1>6 DEF Table!MayAnswer, Wildcard

(* An exact rule was there when the walk came to it, or before.            *)
LEMMA ExactRefines ==
  ASSUME TInv, NEW r \in Reader, at[r] = "visit", Exact(pos[r], asked[r])
  PROVE  Strategy(pos[r]) \in Strategies /\ Table!MayAnswer(r, Strategy(pos[r]))
<1>1. r \in InRcu /\ pos[r] \in Entry
  BY Zenon DEF InRcu, TInv, RuleTypes
<1>2. mem[pos[r]] # "free"
  BY Zenon, <1>1, DisjointAssumption DEF TInv, RInv, Walks, Kept
<1>3. Strategy(pos[r]) \in Strategies
  BY Zenon, <1>1, <1>2 DEF TInv, Rules
<1>4. pos[r] \in Reach(pos[r])
  <2>1. pos[r] \in Node /\ Types
    BY Zenon, <1>1, WalkClosed DEF TInv, RInv
  <2> QED  BY Zenon, <2>1, ReachGoesOn
<1>5. Strategy(pos[r]) \in seen[r][asked[r]]
  BY Zenon, <1>1, <1>4 DEF TInv, Met, Exact, Consulted
<1>6. Strategy(pos[r]) # NONE
  BY Zenon, <1>3, DisjointAssumption
<1> QED  BY Zenon, <1>3, <1>5, <1>6 DEF Table!MayAnswer

(* With no rule counted a lookup may answer that there is none.            *)
LEMMA EmptyRefines ==
  ASSUME TInv, NoneLeft, NEW r \in Reader, at[r] = "count", ~rkx_free_async_has_entries
  PROVE  Table!MayAnswer(r, NONE)
<1> DEFINE k == asked[r]
           w == Wildcard(k)
<1>1. k \in Keys /\ k # NONE /\ w \in Keys /\ k \in Consulted(k) /\ w \in Consulted(k)
  <2>1. k \in Keys /\ k # NONE
    BY Zenon, DisjointAssumption DEF TInv, RInv, Types
  <2> QED  BY Zenon, <2>1, ConsultedKeys DEF Consulted, Wildcard
<1>2. up
  BY Zenon, <1>1 DEF TInv, Ops
<1>3. NONE \in Value(k) /\ NONE \in Value(w)
  BY Zenon, <1>1, <1>2 DEF NoneLeft
<1>4. NONE \in seen[r][k] /\ NONE \in seen[r][w]
  BY Zenon, <1>1, <1>3 DEF TInv, Shown
<1> QED  BY Zenon, <1>4 DEF Table!MayAnswer, Wildcard

\* RuleTable's variables.
TableState == <<[k \in Keys |-> Value(k)], seen, asked, answer>>

(* Every step of a lookup answers, or is none for the table.               *)
LEMMA LookupRefines ==
  ASSUME TInv, NoneLeft, NEW r \in Reader, Lookup(r)
  PROVE  Table!Answer(r) \/ UNCHANGED TableState
<1>1. asked[r] # NONE
  <2>1. at[r] # "idle"
    BY Zenon DEF Lookup, LookupCount, LookupVisit, LookupAdvance
  <2> QED  BY Zenon, <2>1 DEF TInv, RuleTypes
<1>2. ASSUME UNCHANGED <<tableVars, op, asked, answer, seen>>  PROVE UNCHANGED TableState
  <2>1. \A k : Value(k)' = Value(k)
    BY Zenon, <1>2 DEF tableVars, Value, Linked, Strategy
  <2>2. [k \in Keys |-> Value(k)]' = [k \in Keys |-> Value(k)]
    BY Zenon, <2>1
  <2> QED  BY Zenon, <1>2, <2>2 DEF TableState
<1>3. CASE LookupCount(r)
  <2>1. CASE ~rkx_free_async_has_entries /\ Return(r, NONE)
    <3>1. NONE \in Answers
      BY Zenon DEF Answers
    <3>2. Table!MayAnswer(r, NONE)
      BY Zenon, <1>3, <2>1, EmptyRefines DEF LookupCount
    <3> QED  BY Zenon, <1>1, <2>1, <3>1, <3>2, ReturnRefines
  <2>2. CASE ~(~rkx_free_async_has_entries /\ Return(r, NONE))
    BY Zenon, <1>2, <1>3, <2>2 DEF LookupCount
  <2> QED  BY Zenon, <2>1, <2>2
<1>4. CASE LookupVisit(r)
  <2>1. CASE Exact(pos[r], asked[r]) /\ Return(r, Strategy(pos[r]))
    <3>1. Strategy(pos[r]) \in Strategies /\ Table!MayAnswer(r, Strategy(pos[r]))
      BY Zenon, <1>4, <2>1, ExactRefines DEF LookupVisit
    <3>2. Strategy(pos[r]) \in Answers
      BY Zenon, <3>1 DEF Answers
    <3> QED  BY Zenon, <1>1, <2>1, <3>1, <3>2, ReturnRefines
  <2>2. CASE ~(Exact(pos[r], asked[r]) /\ Return(r, Strategy(pos[r])))
    BY Zenon, <1>2, <1>4, <2>2 DEF LookupVisit
  <2> QED  BY Zenon, <2>1, <2>2
<1>5. CASE LookupAdvance(r)
  <2>1. CASE next[pos[r]] = NONE /\ Return(r, wild[r])
    <3>1. wild[r] \in Answers
      BY Zenon DEF TInv, RuleTypes
    <3>2. Table!MayAnswer(r, wild[r])
      BY Zenon, <1>5, <2>1, EndRefines DEF LookupAdvance
    <3> QED  BY Zenon, <1>1, <2>1, <3>1, <3>2, ReturnRefines
  <2>2. CASE ~(next[pos[r]] = NONE /\ Return(r, wild[r]))
    BY Zenon, <1>2, <1>5, <2>2 DEF LookupAdvance
  <2> QED  BY Zenon, <2>1, <2>2
<1> QED  BY Zenon, <1>3, <1>4, <1>5 DEF Lookup

(* Every step is a step of RuleTable, or none.                             *)
LEMMA StepRefines == TInv /\ NoneLeft /\ [Next]_vars => [Table!TableNext]_TableState
<1> SUFFICES ASSUME TInv, NoneLeft, [Next]_vars  PROVE Table!TableNext \/ UNCHANGED TableState
  BY Zenon
<1>1. RInv'
  BY Zenon, StepRInv DEF TInv
<1>2. Table!Keys = Keys
  BY Zenon DEF Table!Keys, Keys
<1>3. ASSUME \A k \in Keys : Value(k)' = Value(k), UNCHANGED <<seen, readerVars>>
      PROVE  UNCHANGED TableState
  <2>1. [k \in Keys |-> Value(k)]' = [k \in Keys |-> Value(k)]
    BY Zenon, <1>3
  <2> QED  BY Zenon, <1>3, <2>1 DEF TableState, readerVars
<1>4. CASE UNCHANGED vars
  <2>1. \A k \in Keys : Value(k)' = Value(k)
    BY Zenon, <1>4 DEF vars, tableVars, Value, Linked, Strategy
  <2> QED  BY Zenon, <1>3, <1>4, <2>1 DEF vars
<1>5. CASE Command
  <2>1. ASSUME NEW k \in Keys, DelUnlink(k)  PROVE \E j \in Keys : Table!Remove(j)
    <3>1. PICK e \in Linked(k) : mem' = [mem EXCEPT ![e] = "unlinked"] /\ op' = [kind |-> "kfree", entry |-> e]
      BY Zenon, <2>1 DEF DelUnlink
    <3>2. op.kind # "inc" /\ op'.kind # "inc" /\ "unlinked" \in {"unlinked", "zombie"}
      BY Zenon, <2>1, <3>1 DEF DelUnlink, Idle
    <3> QED  BY Zenon, <2>1, <3>1, <3>2, UnlinkRefines DEF DelUnlink, Linked
  <2> QED  BY Zenon, <1>2, <1>5, <2>1, UpdateRefines, LinkRefines DEF Command, Table!TableNext
<1>6. CASE AddCount
  BY Zenon, <1>2, <1>6, CountRefines DEF Table!TableNext
<1>7. CASE DelKfreeRcu \/ DelCount \/ DestroyBegin \/ DestroyCount \/ DestroyReturn
  <2>1. UNCHANGED <<seen, readerVars>>
    BY Zenon, <1>7 DEF DelKfreeRcu, DelCount, DestroyBegin, DestroyCount, DestroyReturn
  <2> QED  BY Zenon, <1>1, <1>3, <1>7, <2>1, BetweenTInv
<1>8. ASSUME NEW e \in Entry, DestroyEntry(e)  PROVE \E j \in Keys : Table!Remove(j)
  <2>1. op.kind # "inc" /\ op'.kind # "inc" /\ "zombie" \in {"unlinked", "zombie"}
    BY Zenon, <1>8 DEF DestroyEntry
  <2> QED  BY Zenon, <1>8, <2>1, UnlinkRefines DEF DestroyEntry, kfree_rcu
<1>9. CASE rkx_init_free_async
  BY Zenon, <1>1, <1>3, <1>9, InitTableTInv DEF rkx_init_free_async
<1>10. ASSUME NEW e \in Entry, RcuReclaim(e)  PROVE UNCHANGED TableState
  BY Zenon, <1>1, <1>3, <1>10, ReclaimTInv DEF RcuReclaim
<1>11. ASSUME NEW r \in Reader, NEW k \in Rpc \X Code, LookupBegin(r, k)
       PROVE  k \in Keys /\ Table!Ask(r, k)
  <2>1. k \in Keys
    BY Zenon DEF Keys
  <2>2. /\ asked[r] = NONE /\ asked' = [asked EXCEPT ![r] = k] /\ answer' = [answer EXCEPT ![r] = NONE]
        /\ seen' = [seen EXCEPT ![r] = [x \in Keys |-> IF x \in Consulted(k) THEN Value(x) ELSE {}]]
        /\ UNCHANGED <<tableVars, op>>
    BY Zenon, <1>11 DEF LookupBegin
  <2>3. \A x : Value(x)' = Value(x)
    BY Zenon, <2>2 DEF tableVars, Value, Linked, Strategy
  <2>4. [x \in Keys |-> Value(x)]' = [x \in Keys |-> Value(x)]
    BY Zenon, <2>3
  <2>5. [x \in Keys |-> IF x \in Consulted(k) THEN Value(x) ELSE {}] =
        [x \in Keys |-> IF x \in Consulted(k) THEN [y \in Keys |-> Value(y)][x] ELSE {}]
    BY Zenon
  <2> QED  BY Zenon, <1>2, <2>1, <2>2, <2>4, <2>5 DEF Table!Ask, Table!Consulted, Consulted
<1>12. CASE \E r \in Reader : Lookup(r) \/ \E k \in Rpc \X Code : LookupBegin(r, k)
  BY Zenon, <1>2, <1>11, <1>12, LookupRefines DEF Table!TableNext
<1>13. CASE Destroy
  BY Zenon, <1>2, <1>7, <1>8, <1>13 DEF Destroy, Table!TableNext
<1> QED
  BY Zenon, <1>4, <1>5, <1>6, <1>7, <1>9, <1>10, <1>12, <1>13 DEF Next, CommandEnd

(* The table starts as RuleTable starts: no key has a rule.                *)
LEMMA InitRefines == Init => Table!TableInit
<1> SUFFICES ASSUME Init  PROVE Table!TableInit
  BY Zenon
<1>1. /\ mem = [e \in Entry |-> "free"] /\ seen = [r \in Reader |-> [k \in Keys |-> {}]]
      /\ asked = [r \in Reader |-> NONE] /\ answer = [r \in Reader |-> NONE]
  BY Zenon DEF Init
<1>2. \A k : Linked(k) = {}
  BY Zenon, <1>1 DEF Linked
<1>3. \A k \in Keys : Value(k) = {NONE}
  BY Zenon, <1>2 DEF Value
<1>4. [k \in Keys |-> Value(k)] = [k \in Keys |-> {NONE}]
  BY Zenon, <1>3
<1> QED  BY Zenon, <1>1, <1>4 DEF Table!TableInit, Table!Keys, Keys

-----------------------------------------------------------------------------
(* The counter.                                                            *)
AllLinked == {e \in Entry : mem[e] = "linked"}

\* What the counter is off by while a command or the destruction is at work.
Counted ==
  /\ op.kind = "none" => rkx_free_async_count = Cardinality(AllLinked)
  /\ op.kind = "inc" => rkx_free_async_count = Cardinality(AllLinked) - 1
  /\ op.kind \in {"kfree", "dec"} => rkx_free_async_count = Cardinality(AllLinked) + 1
  /\ op.kind = "down" => /\ rkx_free_async_count = 0
                         /\ \A e \in Entry : mem[e] \in {"free", "zombie"}
  /\ op.kind = "barrier" => rkx_free_async_count = 0

\* The invariant of the whole table.
CInv == TInv /\ Counted

(* There are finitely many linked rules, so they can be counted.           *)
LEMMA LinkedFinite == IsFiniteSet(AllLinked) /\ Cardinality(AllLinked) \in Nat
<1>1. AllLinked \in SUBSET Entry
  BY Zenon DEF AllLinked
<1>2. IsFiniteSet(AllLinked)
  BY Zenon, <1>1, FinitenessAssumption, FS_Subset
<1> QED  BY Zenon, <1>2, FS_CardinalityType

(* With one step of a command the number of linked rules changes by one.   *)
LEMMA OneMore ==
  ASSUME NEW d \in Entry, d \notin AllLinked, AllLinked' = AllLinked \cup {d}
  PROVE  Cardinality(AllLinked)' = Cardinality(AllLinked) + 1
BY Zenon, LinkedFinite, FS_AddElement

(* One entry less in the lists, one linked rule less.                      *)
LEMMA OneLess ==
  ASSUME NEW d \in Entry, d \in AllLinked, AllLinked' = AllLinked \ {d}
  PROVE  Cardinality(AllLinked)' = Cardinality(AllLinked) - 1
BY Zenon, LinkedFinite, FS_RemoveElement

(* When rkx_free_async_has_entries says no, no key has had a rule all the  *)
(* time: the short cut of a lookup without rules is right.                 *)
LEMMA CountedNoneLeft == CInv => NoneLeft
<1> SUFFICES ASSUME TInv, Counted, up, ~(rkx_free_async_count > 0), NEW k \in Keys
             PROVE  NONE \in Value(k)
  BY Zenon DEF CInv, NoneLeft, rkx_free_async_has_entries
<1> DEFINE n == Cardinality(AllLinked)
<1>1. n \in Nat
  BY Zenon, LinkedFinite
<1>2. Linked(k) = {} => NONE \in Value(k)
  BY Zenon, Values DEF TInv
<1>3. Linked(k) \subseteq AllLinked
  BY Zenon DEF Linked, AllLinked
<1> HIDE DEF n
<1>4. op.kind \in {"none", "inc"} /\ (op.kind = "none" => n = 0) /\ (op.kind = "inc" => n <= 1)
  <2>1. /\ op.kind = "none" => rkx_free_async_count = n
        /\ op.kind = "inc" => rkx_free_async_count = n - 1
        /\ op.kind \in {"kfree", "dec"} => rkx_free_async_count = n + 1
    BY Zenon DEF Counted, n
  <2>2. op.kind \in {"none", "inc", "kfree", "dec"}
    BY Zenon DEF TInv, Ops
  <2>3. rkx_free_async_count \in Int
    BY Zenon DEF TInv, RuleTypes
  <2> QED  BY <1>1, <2>1, <2>2, <2>3
<1>5. CASE op.kind = "none"
  <2>1. AllLinked = {}
    BY Zenon, <1>4, <1>5, LinkedFinite, FS_EmptySet DEF n
  <2> QED  BY Zenon, <1>2, <1>3, <2>1
<1>6. CASE op.kind = "inc"
  <2>1. PICK e \in Linked(op.key) : op.key \in Keys
    BY Zenon, <1>6 DEF TInv, Ops
  <2>2. e \in AllLinked /\ e \in Entry /\ rule[e].key = op.key
    BY Zenon DEF Linked, AllLinked
  <2>3. n # 0
    BY Zenon, <2>2, LinkedFinite, FS_EmptySet DEF n
  <2>4. n = 1
    BY <1>1, <1>4, <1>6, <2>3
  <2>5. PICK x : AllLinked = {x}
    BY Zenon, <2>4, LinkedFinite, FS_Singleton DEF n
  <2>6. \A f \in Linked(k) : f = e
    BY Zenon, <1>3, <2>2, <2>5
  <2>7. CASE op.key = k
    <3>1. Value(k) = {NONE, Strategy(e)}
      BY Zenon, <1>6, <2>1, <2>7, Values DEF TInv
    <3> QED  BY Zenon, <3>1
  <2>8. CASE op.key # k
    <3>1. Linked(k) = {}
      BY Zenon, <2>2, <2>6, <2>8 DEF Linked
    <3> QED  BY Zenon, <1>2, <3>1
  <2> QED  BY Zenon, <2>7, <2>8
<1> QED  BY Zenon, <1>4, <1>5, <1>6

(* The counter follows the table with the steps of the commands.           *)
LEMMA StepCounted == CInv /\ [Next]_vars => Counted'
<1> SUFFICES ASSUME TInv, Counted, [Next]_vars  PROVE Counted'
  BY Zenon DEF CInv
<1> USE DEF Counted
<1>1. ASSUME UNCHANGED <<mem, rkx_free_async_count>>, op'.kind = op.kind  PROVE Counted'
  <2>1. AllLinked' = AllLinked
    BY Zenon, <1>1 DEF AllLinked
  <2> QED  BY Zenon, <1>1, <2>1
<1>2. CASE UNCHANGED vars
  BY Zenon, <1>1, <1>2 DEF vars, tableVars
<1>3. ASSUME NEW k \in Keys, NEW s \in Strategies, AddUpdate(k, s)  PROVE Counted'
  BY Zenon, <1>1, <1>3 DEF AddUpdate
<1>4. ASSUME NEW k \in Keys, NEW s \in Strategies, AddLink(k, s)  PROVE Counted'
  <2>1. PICK d \in Entry : mem[d] = "free" /\ mem' = [mem EXCEPT ![d] = "linked"]
    BY Zenon, <1>4 DEF AddLink
  <2>2. d \notin AllLinked /\ AllLinked' = AllLinked \cup {d}
    BY Zenon, <2>1 DEF AllLinked, TInv, RInv, Types
  <2>3. op.kind = "none" /\ op'.kind = "inc" /\ rkx_free_async_count' = rkx_free_async_count
    BY Zenon, <1>4 DEF AddLink, Idle
  <2>4. Cardinality(AllLinked)' = Cardinality(AllLinked) + 1 /\ Cardinality(AllLinked) \in Nat
    BY Zenon, <2>2, OneMore, LinkedFinite
  <2> QED  BY <2>3, <2>4
<1>5. CASE AddCount
  <2>1. op.kind = "inc" /\ op'.kind = "none" /\ rkx_free_async_count' = rkx_free_async_count + 1
    BY Zenon, <1>5 DEF AddCount, Idle
  <2>2. AllLinked' = AllLinked /\ Cardinality(AllLinked) \in Nat
    BY Zenon, <1>5, LinkedFinite DEF AddCount, AllLinked
  <2> QED  BY <2>1, <2>2
<1>6. ASSUME NEW k \in Keys, DelUnlink(k)  PROVE Counted'
  <2>1. PICK e \in Linked(k) : mem' = [mem EXCEPT ![e] = "unlinked"] /\ op' = [kind |-> "kfree", entry |-> e]
    BY Zenon, <1>6 DEF DelUnlink
  <2>2. e \in Entry /\ e \in AllLinked
    BY Zenon DEF Linked, AllLinked
  <2>3. AllLinked' = AllLinked \ {e}
    BY Zenon, <2>1, <2>2 DEF AllLinked, TInv, RInv, Types
  <2>4. op.kind = "none" /\ op'.kind = "kfree" /\ rkx_free_async_count' = rkx_free_async_count
    BY Zenon, <1>6, <2>1 DEF DelUnlink, Idle
  <2>5. Cardinality(AllLinked)' = Cardinality(AllLinked) - 1 /\ Cardinality(AllLinked) \in Nat
    BY Zenon, <2>2, <2>3, OneLess, LinkedFinite
  <2> QED  BY <2>4, <2>5
<1>7. CASE DelKfreeRcu
  <2>1. op.entry \in Entry /\ mem[op.entry] = "unlinked" /\ mem' = [mem EXCEPT ![op.entry] = "zombie"]
    BY Zenon, <1>7 DEF DelKfreeRcu, kfree_rcu, TInv, RInv, Pending
  <2>2. AllLinked' = AllLinked
    BY Zenon, <2>1 DEF AllLinked, TInv, RInv, Types
  <2>3. op.kind = "kfree" /\ op'.kind = "dec" /\ rkx_free_async_count' = rkx_free_async_count
    BY Zenon, <1>7 DEF DelKfreeRcu
  <2> QED  BY Zenon, <2>2, <2>3
<1>8. CASE DelCount
  <2>1. op.kind = "dec" /\ op'.kind = "none" /\ rkx_free_async_count' = rkx_free_async_count - 1
    BY Zenon, <1>8 DEF DelCount, atomic_dec, Idle
  <2>2. AllLinked' = AllLinked /\ Cardinality(AllLinked) \in Nat
    BY Zenon, <1>8, LinkedFinite DEF DelCount, AllLinked
  <2> QED  BY <2>1, <2>2
<1>9. CASE DestroyBegin
  <2>1. op'.kind = "destroy"
    BY Zenon, <1>9 DEF DestroyBegin
  <2> QED  BY Zenon, <2>1
<1>10. ASSUME NEW e \in Entry, DestroyEntry(e)  PROVE Counted'
  <2>1. op'.kind = "destroy"
    BY Zenon, <1>10 DEF DestroyEntry
  <2> QED  BY Zenon, <2>1
<1>11. CASE DestroyCount
  <2>1. op'.kind = "barrier" /\ rkx_free_async_count' = 0
    BY Zenon, <1>11 DEF DestroyCount
  <2> QED  BY Zenon, <2>1
<1>12. CASE DestroyReturn
  <2>1. /\ op.kind = "barrier" /\ op'.kind = "down" /\ rkx_free_async_count' = rkx_free_async_count
        /\ mem' = mem
    BY Zenon, <1>12 DEF DestroyReturn, tableVars
  <2>2. \A e \in Entry : mem[e] # "linked" /\ mem[e] # "unlinked"
    BY Zenon, <2>1 DEF TInv, RInv, Pending
  <2>3. \A e \in Entry : mem[e] \in {"free", "zombie"}
    BY Zenon, <2>2 DEF TInv, RInv, Types
  <2> QED  BY Zenon, <2>1, <2>3
<1>13. CASE rkx_init_free_async
  <2>1. /\ op.kind = "down" /\ op'.kind = "none" /\ rkx_free_async_count' = 0 /\ mem' = mem
    BY Zenon, <1>13 DEF rkx_init_free_async, Idle
  <2>2. AllLinked' = {}
    BY Zenon, <2>1 DEF AllLinked
  <2> QED  BY Zenon, <2>1, <2>2, FS_EmptySet
<1>14. ASSUME NEW e \in Entry, RcuReclaim(e)  PROVE Counted'
  <2>1. mem[e] = "zombie" /\ mem' = [mem EXCEPT ![e] = "free"] /\ UNCHANGED <<rkx_free_async_count, op>>
    BY Zenon, <1>14 DEF RcuReclaim
  <2>2. /\ AllLinked' = AllLinked
        /\ \A x \in Entry : mem[x] \in {"free", "zombie"} => mem'[x] \in {"free", "zombie"}
    BY Zenon, <2>1 DEF AllLinked, TInv, RInv, Types
  <2> QED  BY Zenon, <2>1, <2>2
<1>15. ASSUME NEW r \in Reader, Lookup(r) \/ \E k \in Rpc \X Code : LookupBegin(r, k)  PROVE Counted'
  <2>1. UNCHANGED <<mem, rkx_free_async_count, op>>
    BY Zenon, <1>15 DEF Lookup, LookupCount, LookupVisit, LookupAdvance, LookupBegin, Return, tableVars
  <2> QED  BY Zenon, <1>1, <2>1
<1> QED
  BY Zenon, <1>2, <1>3, <1>4, <1>5, <1>6, <1>7, <1>8, <1>9, <1>10, <1>11, <1>12, <1>13, <1>14, <1>15
  DEF Next, Command, CommandEnd, Destroy

(* ListsIntact follows from the invariant.                                 *)
LEMMA ListsIntactHolds == CInv => ListsIntact
<1> SUFFICES ASSUME TInv, Counted  PROVE ListsIntact
  BY Zenon DEF CInv
<1>1. ASSUME NEW b \in Bucket
      PROVE  Reach(b) = {b} \cup {e \in Entry : mem[e] = "linked" /\ Hash[rule[e].key[1]] = b}
  <2>1. Reach(b) \subseteq HomeSet(b) /\ b \in Reach(b)
    <3>1. b \in Node /\ Types
      BY Zenon DEF Node, TInv, RInv
    <3> QED  BY Zenon, <3>1, HomeClosed, ReachGoesOn DEF TInv
  <2>2. ASSUME NEW x \in HomeSet(b)
        PROVE  x = b \/ (x \in Entry /\ mem[x] = "linked" /\ Hash[rule[x].key[1]] = b)
    BY Zenon DEF HomeSet, Live, Home, Node
  <2>3. ASSUME NEW e \in Entry, mem[e] = "linked", Hash[rule[e].key[1]] = b  PROVE e \in Reach(b)
    <3>1. Home(e) = b /\ e \in Reach(Home(e))
      BY Zenon, <2>3, HomeBucket DEF TInv, Rules
    <3> QED  BY Zenon, <3>1
  <2> QED  BY Zenon, <2>1, <2>2, <2>3
<1>2. \A k \in Keys : \A e, f \in Linked(k) : e = f
  BY Zenon DEF TInv, Rules, Linked
<1>3. op = Idle => rkx_free_async_count = Cardinality({e \in Entry : mem[e] = "linked"})
  BY DEF Counted, AllLinked, Idle
<1>4. op.kind = "down" =>
        rkx_free_async_count = 0 /\ \A e \in Entry : mem[e] \in {"free", "zombie"}
  BY Zenon DEF Counted
<1> QED  BY Zenon, <1>1, <1>2, <1>3, <1>4 DEF ListsIntact

(* The counter starts at zero, with no rule linked.                        *)
LEMMA InitCounted == Init => Counted
<1> SUFFICES ASSUME Init  PROVE Counted
  BY Zenon
<1>1. op.kind = "none" /\ rkx_free_async_count = 0 /\ mem = [e \in Entry |-> "free"]
  BY Zenon DEF Init, Idle
<1>2. AllLinked = {}
  BY Zenon, <1>1 DEF AllLinked
<1> QED  BY Zenon, <1>1, <1>2, FS_EmptySet DEF Counted

(* The invariant of the table with its lookups and its counter.            *)
THEOREM RulesInvariant == Spec => []CInv
<1>1. Init => CInv
  BY Zenon, InitTInv, InitCounted DEF CInv
<1>2. CInv /\ [Next]_vars => CInv'
  BY Zenon, StepTInv, StepCounted DEF CInv
<1> QED  BY <1>1, <1>2, PTL DEF Spec

(* The lists are the table: for any interfaces, buckets and entries a      *)
(* bucket's list reaches exactly the linked rules that hash to it, with    *)
(* one rule per key; the counter is their number between two commands; and *)
(* rkx_destroy_free_async leaves no memory behind.                         *)
THEOREM RulesListsIntact == Spec => []ListsIntact
<1> QED  BY RulesInvariant, ListsIntactHolds, PTL

(* The table implements RuleTable: whatever commands run beside it, a      *)
(* lookup answers with the exact rule, or else the wildcard rule, each as  *)
(* it was at some moment while the lookup ran; and a command changes one   *)
(* key.  Every step of the code is a step of RuleTable, or none.           *)
THEOREM RulesRefineTable == Spec => RefinesTable
<1>1. CInv /\ [Next]_vars => [Table!TableNext]_TableState
  BY Zenon, CountedNoneLeft, StepRefines DEF CInv
<1> QED  BY <1>1, RulesInvariant, InitRefines, PTL DEF Spec, RefinesTable, Table!TableSpec, TableState

=============================================================================
