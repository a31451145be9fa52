----------------------------- MODULE RuleTable -----------------------------
(***************************************************************************)
(* What the free-async rules promise: a map from keys to strategies that   *)
(* commands change one key at a time, and lookups that read two of its     *)
(* keys, the exact one and the wildcard, each at some moment between their *)
(* start and their end.  While a new rule is being added a lookup may or   *)
(* may not see it; once the command has returned every lookup sees it.     *)
(***************************************************************************)
CONSTANTS Rpc, Code, WILD, Strategies, Reader, NONE

VARIABLES
  value,   \* per key: the values a lookup may read now
  seen,    \* per running lookup and key: the values it may have read
  asked,   \* per reader: the key it looks up, or NONE
  answer   \* per reader: the answer of its last lookup

Keys == Rpc \X (Code \cup {WILD})

TableInit == /\ value = [k \in Keys |-> {NONE}]
             /\ seen = [r \in Reader |-> [k \in Keys |-> {}]]
             /\ asked = [r \in Reader |-> NONE]
             /\ answer = [r \in Reader |-> NONE]

\* A lookup of k reads two rules.
Consulted(k) == {k, <<k[1], WILD>>}

Change(k, V) ==
  /\ value' = [value EXCEPT ![k] = V]
  /\ seen' = [r \in Reader |-> IF asked[r] # NONE /\ k \in Consulted(asked[r])
                               THEN [seen[r] EXCEPT ![k] = @ \cup V] ELSE seen[r]]
  /\ UNCHANGED <<asked, answer>>

\* A rule is set, appears, is completed, or goes.
Set(k)      == \E s, old \in Strategies : value[k] = {old} /\ Change(k, {s})
Appear(k)   == \E s \in Strategies : value[k] = {NONE} /\ Change(k, {NONE, s})
Complete(k) == \E s \in Strategies : value[k] = {NONE, s} /\ Change(k, {s})
Remove(k)   == \E s \in Strategies : value[k] = {s} /\ Change(k, {NONE})

Ask(r, k) == /\ asked[r] = NONE
             /\ asked' = [asked EXCEPT ![r] = k]
             /\ seen' = [seen EXCEPT ![r] = [x \in Keys |->
                           IF x \in Consulted(k) THEN value[x] ELSE {}]]
             /\ answer' = [answer EXCEPT ![r] = NONE]
             /\ UNCHANGED value

\* The exact rule decides, and without one the wildcard rule.
MayAnswer(r, a) ==
  LET exact == seen[r][asked[r]]
      wild  == seen[r][<<asked[r][1], WILD>>]
  IN  a \in (exact \ {NONE}) \/ (NONE \in exact /\ a \in wild)

Answer(r) == /\ asked[r] # NONE
             /\ \E a \in Strategies \cup {NONE} :
                  MayAnswer(r, a) /\ answer' = [answer EXCEPT ![r] = a]
             /\ asked' = [asked EXCEPT ![r] = NONE]
             /\ seen' = [seen EXCEPT ![r] = [k \in Keys |-> {}]]
             /\ UNCHANGED value

TableNext == \/ \E k \in Keys : Set(k) \/ Appear(k) \/ Complete(k) \/ Remove(k)
             \/ \E r \in Reader : Answer(r) \/ \E k \in Keys : Ask(r, k)

TableSpec == TableInit /\ [][TableNext]_<<value, seen, asked, answer>>
=============================================================================
