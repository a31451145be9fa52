--------------------------- MODULE FreeAsyncRules ---------------------------
(***************************************************************************)
(* The rule table of rkx_free_async.c: a hash table of (rpc_name, code)    *)
(* rules that netlink commands change under a mutex while kprobe handlers  *)
(* walk its buckets under RCU.  A bucket is a singly linked list; a walk   *)
(* reads one entry or one pointer per step.  The command that holds the    *)
(* mutex is the value of op.  An entry that is deleted stays readable to   *)
(* the readers that were inside RCU when it was given to kfree_rcu.        *)
(***************************************************************************)
EXTENDS Integers, FiniteSets

CONSTANTS
  Rpc, Code,     \* interface tokens and codes that are looked up
  Bucket, Hash,  \* rkx_free_async_hash: Rpc -> Bucket
  Entry,         \* memory for entries
  Strategies,    \* the valid strategies
  Reader, NONE

WILD == -1

Keys == Rpc \X (Code \cup {WILD})

ASSUME HashAssumption == Hash \in [Rpc -> Bucket]
ASSUME DisjointAssumption == /\ NONE \notin Entry \cup Strategies \cup Keys
                             /\ Entry \cap Bucket = {}
ASSUME FinitenessAssumption == IsFiniteSet(Entry)

Node == Entry \cup Bucket

VARIABLES
  next,          \* hlist pointers, of buckets and entries
  mem,           \* per entry: free, linked, unlinked, or a zombie of kfree_rcu
  rule,          \* per entry: its key and strategy
  grace,         \* per zombie: the readers kfree_rcu waits for
  rkx_free_async_count,
  op,            \* the command that holds rkx_free_async_mutex
  up,            \* whether commands and probes may still come
  at, asked, pos, wild, answer, \* per reader: its place, arguments and locals
  seen           \* history: what each key was during the running lookup

tableVars  == <<next, mem, rule, grace, rkx_free_async_count>>
readerVars == <<at, asked, pos, wild, answer>>
vars == <<tableVars, op, up, readerVars, seen>>

Idle == [kind |-> "none"]
Blank == [key |-> NONE, strategy |-> NONE]

Linked(k) == {e \in Entry : mem[e] = "linked" /\ rule[e].key = k}
Strategy(e) == rule[e].strategy

\* What a lookup may take the rule of key k to be, see RuleTable.
Value(k) == {Strategy(e) : e \in Linked(k)} \cup
            IF Linked(k) = {} \/ (op.kind = "inc" /\ op.key = k) THEN {NONE} ELSE {}

\* A lookup of k reads two rules, the exact one and the wildcard.
Consulted(k) == {k, <<k[1], WILD>>}

\* Every step that changes a rule shows it to the lookups that may read it.
Witness == seen' = [r \in Reader |-> [k \in Keys |->
  IF asked[r] # NONE /\ k \in Consulted(asked[r]) THEN seen[r][k] \cup Value(k)' ELSE {}]]

InRcu == {r \in Reader : at[r] \in {"visit", "advance"}}

-----------------------------------------------------------------------------
(* Commands: rkx_add_free_async and rkx_del_free_async, under the mutex. *)

\* The rule exists: WRITE_ONCE(entry->strategy).
AddUpdate(k, s) ==
  /\ up /\ op = Idle
  /\ \E e \in Linked(k) : rule' = [rule EXCEPT ![e].strategy = s]
  /\ UNCHANGED <<next, mem, grace, rkx_free_async_count, op, up, readerVars>>
  /\ Witness

\* It does not: kmalloc (which may fail, and then nothing changes) and hash_add_rcu.
AddLink(k, s) ==
  LET b == Hash[k[1]] IN
  /\ up /\ op = Idle /\ Linked(k) = {}
  /\ \E e \in Entry :
       /\ mem[e] = "free"
       /\ mem' = [mem EXCEPT ![e] = "linked"]
       /\ rule' = [rule EXCEPT ![e] = [key |-> k, strategy |-> s]]
       /\ next' = [next EXCEPT ![e] = next[b], ![b] = e]
  /\ op' = [kind |-> "inc", key |-> k]
  /\ UNCHANGED <<grace, rkx_free_async_count, up, readerVars>>
  /\ Witness

AddCount ==
  /\ op.kind = "inc"
  /\ rkx_free_async_count' = rkx_free_async_count + 1
  /\ op' = Idle
  /\ UNCHANGED <<next, mem, rule, grace, up, readerVars>>
  /\ Witness

Pred(e) == CHOOSE p \in Node :
             next[p] = e /\ (p \in Bucket \/ mem[p] = "linked")

\* Faulty: the memory is free at once; the bucket's pointer is taken for the link.
NoGrace == {}
CutBucket(e) == next' = [next EXCEPT ![Hash[rule[e].key[1]]] = next[e]]

kfree_rcu_waits_for == InRcu
hash_del_rcu(e) == next' = [next EXCEPT ![Pred(e)] = next[e]]

kfree_rcu(e) == /\ mem' = [mem EXCEPT ![e] = "zombie"]
                /\ grace' = [grace EXCEPT ![e] = kfree_rcu_waits_for]

\* The entry's own pointer stays as it is, for the readers that stand on it.
DelUnlink(k) ==
  /\ up /\ op = Idle
  /\ \E e \in Linked(k) : /\ hash_del_rcu(e)
                          /\ mem' = [mem EXCEPT ![e] = "unlinked"]
                          /\ op' = [kind |-> "kfree", entry |-> e]
  /\ UNCHANGED <<rule, grace, rkx_free_async_count, up, readerVars>>
  /\ Witness

DelKfreeRcu ==
  /\ op.kind = "kfree"
  /\ kfree_rcu(op.entry)
  /\ op' = [kind |-> "dec"]
  /\ UNCHANGED <<next, rule, rkx_free_async_count, up, readerVars, seen>>

atomic_dec == rkx_free_async_count' = rkx_free_async_count - 1

DelCount ==
  /\ op.kind = "dec"
  /\ atomic_dec
  /\ op' = Idle
  /\ UNCHANGED <<next, mem, rule, grace, up, readerVars, seen>>

\* The grace period of a zombie is over.
RcuReclaim(e) ==
  /\ mem[e] = "zombie" /\ grace[e] = {}
  /\ mem' = [mem EXCEPT ![e] = "free"]
  /\ rule' = [rule EXCEPT ![e] = Blank]
  /\ next' = [next EXCEPT ![e] = NONE]
  /\ UNCHANGED <<grace, rkx_free_async_count, op, up, readerVars, seen>>

-----------------------------------------------------------------------------
(* rkx_destroy_free_async, called when no probe and no command can come. *)

DestroyBegin ==
  /\ up /\ op = Idle /\ \A r \in Reader : asked[r] = NONE
  /\ up' = FALSE
  /\ op' = [kind |-> "destroy"]
  /\ UNCHANGED <<tableVars, readerVars, seen>>

DestroyEntry(e) ==
  /\ op.kind = "destroy" /\ mem[e] = "linked"
  /\ hash_del_rcu(e) /\ kfree_rcu(e)
  /\ UNCHANGED <<rule, rkx_free_async_count, op, up, readerVars>>
  /\ Witness

DestroyCount ==
  /\ op.kind = "destroy" /\ \A e \in Entry : mem[e] # "linked"
  /\ rkx_free_async_count' = 0
  /\ op' = [kind |-> "barrier"]
  /\ UNCHANGED <<next, mem, rule, grace, up, readerVars, seen>>

(* rcu_barrier returns.  It waits for the callbacks of call_rcu; memory    *)
(* that the kernel gathers for kfree_rcu may still be a zombie by then.    *)
(* The module may be loaded again, rkx_init_free_async.                    *)
DestroyReturn ==
  /\ op.kind = "barrier"
  /\ op' = [kind |-> "down"]
  /\ UNCHANGED <<tableVars, up, readerVars, seen>>

rkx_init_free_async ==
  /\ op.kind = "down"
  /\ next' = [p \in DOMAIN next |-> IF p \in Bucket THEN NONE ELSE next[p]]
  /\ rkx_free_async_count' = 0
  /\ op' = Idle /\ up' = TRUE
  /\ UNCHANGED <<mem, rule, grace, readerVars, seen>>

-----------------------------------------------------------------------------
(* rkx_free_async_lookup_rcu *)

LookupBegin(r, k) ==
  /\ up /\ asked[r] = NONE
  /\ asked' = [asked EXCEPT ![r] = k]
  /\ at' = [at EXCEPT ![r] = "count"]
  /\ answer' = [answer EXCEPT ![r] = NONE]
  /\ seen' = [seen EXCEPT ![r] = [x \in Keys |->
               IF x \in Consulted(k) THEN Value(x) ELSE {}]]
  /\ UNCHANGED <<tableVars, op, up, pos, wild>>

\* Faulty: rcu_read_unlock is forgotten.
StayInRcu(r) == UNCHANGED grace

rcu_read_unlock(r) == grace' = [e \in Entry |-> grace[e] \ {r}]

Return(r, a) ==
  /\ asked' = [asked EXCEPT ![r] = NONE]
  /\ answer' = [answer EXCEPT ![r] = a]
  /\ at' = [at EXCEPT ![r] = "idle"]
  /\ pos' = [pos EXCEPT ![r] = NONE] /\ wild' = [wild EXCEPT ![r] = NONE]
  /\ seen' = [seen EXCEPT ![r] = [k \in Keys |-> {}]]
  /\ rcu_read_unlock(r)
  /\ UNCHANGED <<next, mem, rule, rkx_free_async_count, op, up>>

rkx_free_async_has_entries == rkx_free_async_count > 0

\* Without entries the lookup ends before it starts; else rcu_read_lock.
LookupCount(r) ==
  /\ at[r] = "count"
  /\ \/ ~rkx_free_async_has_entries /\ Return(r, NONE)
     \/ /\ rkx_free_async_has_entries
        /\ at' = [at EXCEPT ![r] = "advance"]
        /\ pos' = [pos EXCEPT ![r] = Hash[asked[r][1]]]
        /\ UNCHANGED <<tableVars, op, up, asked, wild, answer, seen>>

\* Faulty: a wildcard rule counts as exact.
WildIsExact(e, k) == rule[e].key[1] = k[1] /\ rule[e].key[2] \in {k[2], WILD}

Exact(e, k) == rule[e].key = k

\* Look at one entry: an exact rule ends the walk, a wildcard rule is kept.
LookupVisit(r) ==
  /\ at[r] = "visit"
  /\ \/ Exact(pos[r], asked[r]) /\ Return(r, Strategy(pos[r]))
     \/ /\ ~Exact(pos[r], asked[r])
        /\ wild' = [wild EXCEPT ![r] = IF Exact(pos[r], <<asked[r][1], WILD>>)
                                       THEN Strategy(pos[r]) ELSE @]
        /\ at' = [at EXCEPT ![r] = "advance"]
        /\ UNCHANGED <<tableVars, op, up, asked, pos, answer, seen>>

\* Follow one pointer; at the end of the bucket the wildcard rule decides.
LookupAdvance(r) ==
  /\ at[r] = "advance"
  /\ \/ next[pos[r]] = NONE /\ Return(r, wild[r])
     \/ /\ next[pos[r]] # NONE
        /\ pos' = [pos EXCEPT ![r] = next[pos[r]]]
        /\ at' = [at EXCEPT ![r] = "visit"]
        /\ UNCHANGED <<tableVars, op, up, asked, wild, answer, seen>>

-----------------------------------------------------------------------------

Init ==
  /\ next = [p \in Node |-> NONE]
  /\ mem = [e \in Entry |-> "free"]
  /\ rule = [e \in Entry |-> Blank]
  /\ grace = [e \in Entry |-> {}]
  /\ rkx_free_async_count = 0
  /\ op = Idle /\ up = TRUE
  /\ at = [r \in Reader |-> "idle"]
  /\ asked = [r \in Reader |-> NONE] /\ pos = [r \in Reader |-> NONE]
  /\ wild = [r \in Reader |-> NONE] /\ answer = [r \in Reader |-> NONE]
  /\ seen = [r \in Reader |-> [k \in Keys |-> {}]]

Lookup(r) == LookupCount(r) \/ LookupVisit(r) \/ LookupAdvance(r)

Command == \/ \E k \in Keys, s \in Strategies : AddUpdate(k, s) \/ AddLink(k, s)
           \/ \E k \in Keys : DelUnlink(k)

CommandEnd == AddCount \/ DelKfreeRcu \/ DelCount

Destroy == DestroyCount \/ DestroyReturn \/ \E e \in Entry : DestroyEntry(e)

Next == \/ Command \/ CommandEnd \/ DestroyBegin \/ Destroy \/ rkx_init_free_async
        \/ \E e \in Entry : RcuReclaim(e)
        \/ \E r \in Reader : Lookup(r) \/ \E k \in Rpc \X Code : LookupBegin(r, k)

Spec == Init /\ [][Next]_vars

(* A started lookup, a started command, a started destruction and a due    *)
(* RCU callback go on.                                                     *)
FairSpec == /\ Spec
            /\ \A r \in Reader : WF_vars(Lookup(r))
            /\ WF_vars(CommandEnd \/ Destroy)
            /\ \A e \in Entry : WF_vars(RcuReclaim(e))

-----------------------------------------------------------------------------
(* Properties *)

(* A walk never stands on freed memory, whichever entries are deleted      *)
(* under it, before it or behind it (hash_del_rcu, then kfree_rcu).        *)
NoUseAfterFree == \A r \in InRcu : pos[r] \in Bucket \/ mem[pos[r]] # "free"

\* What the pointers lead to from p: whatever is in every closed set with p.
Reach(p) ==
  {x \in Node : \A S \in SUBSET Node :
     p \in S /\ (\A y \in S : next[y] # NONE => next[y] \in S) => x \in S}

(* The lists are the table: the entries a bucket reaches are exactly the   *)
(* linked ones that hash to it, with one rule per key.  Between two        *)
(* commands the counter that lets the probe skip the lookup is their       *)
(* number, and when rkx_destroy_free_async has returned every entry is     *)
(* given back, or left to kfree_rcu.                                       *)
ListsIntact ==
  /\ \A b \in Bucket :
       Reach(b) = {b} \cup {e \in Entry : mem[e] = "linked" /\ Hash[rule[e].key[1]] = b}
  /\ \A k \in Keys : \A e, f \in Linked(k) : e = f
  /\ op = Idle => rkx_free_async_count = Cardinality({e \in Entry : mem[e] = "linked"})
  /\ op.kind = "down" => rkx_free_async_count = 0 /\ \A e \in Entry : mem[e] \in {"free", "zombie"}

(* The table keeps RuleTable's promise: commands take effect key by key,   *)
(* and a lookup answers with the exact rule or the wildcard rule as each   *)
(* was at some moment while it ran.                                        *)
Table == INSTANCE RuleTable WITH value <- [k \in Keys |-> Value(k)]
RefinesTable == Table!TableSpec

\* A lookup ends, however many commands run beside it.
LookupReturns == \A r \in Reader : asked[r] # NONE ~> asked[r] = NONE

(* The memory of a deleted rule is given back: every lookup that may stand *)
(* on it leaves RCU, however many lookups and commands come meanwhile.     *)
RulesReclaimed == \A e \in Entry : mem[e] \in {"unlinked", "zombie"} ~> mem[e] = "free"
=============================================================================
