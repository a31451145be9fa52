-------------------------- MODULE CommandTheorems --------------------------
(***************************************************************************)
(* Theorems about CommandPath, for any set of threads and commands: names  *)
(* of every length, uids, codes and strategies, in any order and number,   *)
(* while the connection and the module come and go.  NlaBuilder stays      *)
(* inside its buffer, the result of a command means what it should, and    *)
(* the tables change only as a command asked.                              *)
(***************************************************************************)
EXTENDS CommandPath, TLAPS

-----------------------------------------------------------------------------
(* The message *)

Attribute(type, value, len) == [type |-> type, value |-> value, len |-> len]
NameAttribute(n) ==
  LET datalen == (n + 1) % U16 IN Attribute("RPC_NAME", Smaller(n, datalen), datalen)
AttributeTypes == {"UID", "RPC_NAME", "CODE", "STRATEGY"}
Attributes == Seq([type : AttributeTypes, value : Int, len : Nat])
Message == [cap : Nat, len : Nat, end : Nat, ok : BOOLEAN, attrs : Attributes]

\* With header and padding, n bytes have a length of 16 bits.
Fits(n) == n + 8 <= U16

Inside(b) == b.end <= b.cap /\ b.len <= b.cap

(* Rounding up to a multiple of four, and where it leaves 16 bits.         *)
LEMMA Aligned ==
  ASSUME NEW n \in Nat
  PROVE  /\ NLA_ALIGN(n) \in Nat /\ n <= NLA_ALIGN(n) /\ NLA_ALIGN(n) <= n + 3
         /\ n <= U16 - 4 => NLA_ALIGN(n) % U16 = NLA_ALIGN(n) /\ n % U16 = n
         /\ NLA_ALIGN(n) % U16 \in Nat
<1>1. /\ NLA_ALIGN(n) \in Nat /\ n <= NLA_ALIGN(n) /\ NLA_ALIGN(n) <= n + 3
  BY SMT DEF NLA_ALIGN
<1>2. n <= U16 - 4 => NLA_ALIGN(n) <= U16 - 4
  BY SMT DEF NLA_ALIGN, U16
<1> QED
  BY SMT, <1>1, <1>2 DEF U16

(* NlaBuilder::put fails and leaves the buffer alone, or appends one       *)
(* attribute; with a value that fits it stays inside.                      *)
LEMMA PutFacts ==
  ASSUME NEW b \in Message, NEW type \in AttributeTypes, NEW v \in Int, NEW n \in Nat, n < U16,
         NEW p, p = put(b, type, v, n)
  PROVE  /\ p \in Message /\ p.cap = b.cap
         /\ p.ok => b.ok /\ p.attrs = Append(b.attrs, Attribute(type, v, n))
         /\ Fits(n) /\ Inside(b) => Inside(p)
         /\ Fits(n) /\ b.ok /\ b.len + NLA_ALIGN(4 + n) <= b.cap
              => p.ok /\ p.len = b.len + NLA_ALIGN(4 + n)
<1> DEFINE attr_len == (NLA_HDRLEN + n) % U16
           aligned  == NLA_ALIGN(attr_len) % U16
<1>1. attr_len \in Nat /\ aligned \in Nat /\ (Fits(n) => attr_len = 4 + n)
  <2>1. attr_len \in Nat /\ (Fits(n) => attr_len = 4 + n)
    BY SMT DEF U16, NLA_HDRLEN, Fits
  <2> QED  BY Zenon, <2>1, Aligned
<1>2. Fits(n) => aligned = NLA_ALIGN(4 + n) /\ 4 + n <= aligned
  <2>1. 4 + n \in Nat /\ (Fits(n) => 4 + n <= U16 - 4)
    BY SMT DEF U16, Fits
  <2> QED  BY Zenon, <1>1, <2>1, Aligned
<1> HIDE DEF aligned, attr_len
<1>3. CASE ~b.ok \/ b.len + aligned > b.cap
  <2>1. p = [b EXCEPT !.ok = FALSE]
    BY Zenon, <1>3 DEF put, aligned, attr_len
  <2>2. p \in Message /\ p.cap = b.cap /\ p.len = b.len /\ p.end = b.end /\ p.ok = FALSE
    BY Zenon, <2>1 DEF Message
  <2> QED
    BY SMT, <1>1, <1>2, <1>3, <2>2 DEF Message, Inside
<1>4. CASE ~(~b.ok \/ b.len + aligned > b.cap)
  <2> DEFINE q == Append(b.attrs, Attribute(type, v, n))
             e == Larger(b.end, b.len + NLA_HDRLEN + n)
  <2>1. p = [b EXCEPT !.len = @ + aligned, !.end = e, !.attrs = q]
    BY Zenon, <1>4 DEF put, aligned, attr_len, Attribute
  <2>2. q \in Attributes
    BY SMT DEF Message, Attributes, Attribute
  <2>3. b.len \in Nat /\ b.end \in Nat /\ b.cap \in Nat /\ b.ok /\ b.len + aligned <= b.cap
    BY SMT, <1>1, <1>4 DEF Message
  <2>4. e \in Nat /\ (Fits(n) /\ b.end <= b.cap => e <= b.cap)
    BY SMT, <1>1, <1>2, <2>3 DEF Larger, NLA_HDRLEN
  <2> HIDE DEF q, e
  <2>5. b.len + aligned \in Nat
    BY SMT, <1>1, <2>3
  <2>6. p \in Message
    BY Zenon, <2>1, <2>2, <2>4, <2>5 DEF Message
  <2>7. /\ p.cap = b.cap /\ p.ok = b.ok /\ p.attrs = q
        /\ p.len = b.len + aligned /\ p.end = e
    BY Zenon, <2>1 DEF Message
  <2> QED
    BY SMT, <1>2, <2>3, <2>4, <2>6, <2>7 DEF Inside, q
<1> QED
  BY Zenon, <1>3, <1>4

(* An empty message.                                                       *)
LEMMA BuilderFacts ==
  ASSUME NEW cap \in Nat, cap >= 20
  PROVE  /\ Builder(cap) \in Message /\ Builder(cap).cap = cap /\ Builder(cap).len = 20
         /\ Builder(cap).ok /\ Builder(cap).attrs = <<>> /\ Inside(Builder(cap))
  BY SMT DEF Builder, Message, Attributes, Inside

(* The name of a rule that is not in the way of the rounding.              *)
LEMMA NameFits ==
  ASSUME NEW n \in Nat
  PROVE  /\ (n + 1) % U16 \in Nat /\ (n + 1) % U16 < U16
         /\ n % U16 \notin U16 - 8 .. U16 - 2 => Fits((n + 1) % U16)
         /\ n <= 139 => n % U16 \notin U16 - 8 .. U16 - 2 /\ (n + 1) % U16 = n + 1
BY SMT DEF U16, Fits

\* A command that gets as far as its message.
Built(c) == c \in Commands /\ ~Refused(c)

(* What CommandAssumption and the checks of the commands leave.            *)
LEMMA CommandFacts ==
  ASSUME NEW c, Built(c)
  PROVE  /\ ~IsRule(c) => c.uid \in Nat /\ c.cmd \in {"ADD_MONITOR_NET", "DEL_MONITOR_NET"}
         /\ IsRule(c) => c.name \in Nat /\ c.code \in Int
         /\ c.cmd = "ADD_FREE_ASYNC" => c.strategy \in Nat
BY Zenon, CommandAssumption DEF Built, Refused, IsRule

(* addMonitorNet and delMonitorNet send the uid, which always fits.        *)
LEMMA UidMessage ==
  ASSUME NEW c, Built(c), ~IsRule(c)
  PROVE  /\ Build(c).ok /\ Inside(Build(c))
         /\ DOMAIN Build(c).attrs = {1} /\ Build(c).attrs[1] = Attribute("UID", c.uid, 4)
<1> DEFINE cap == 128
           b == Builder(cap)
           n == 4
<1>1. Build(c) = put(b, "UID", c.uid, n)
  BY Zenon DEF Build, putU32, IsRule
<1>2. c.uid \in Int
  BY SMT, CommandFacts
<1>3. cap \in Nat /\ cap >= 20 /\ n \in Nat /\ n < U16 /\ Fits(n) /\ 20 + NLA_ALIGN(4 + n) <= cap
  BY SMT DEF U16, Fits, NLA_ALIGN
<1> HIDE DEF cap
<1>4. b \in Message /\ b.cap = cap /\ b.len = 20 /\ b.ok /\ b.attrs = <<>> /\ Inside(b)
  BY Zenon, <1>3, BuilderFacts
<1> HIDE DEF b
<1>5. /\ Build(c).ok /\ Inside(Build(c))
      /\ Build(c).attrs = Append(b.attrs, Attribute("UID", c.uid, n))
  <2> HIDE DEF n
  <2>1. b.len + NLA_ALIGN(4 + n) <= b.cap
    BY Zenon, <1>3, <1>4
  <2>2. "UID" \in AttributeTypes
    BY Zenon DEF AttributeTypes
  <2> QED  BY SMT, <1>1, <1>2, <1>3, <1>4, <2>1, <2>2, PutFacts
<1> QED  BY SMT, <1>4, <1>5

(* addFreeAsync and delFreeAsync send name, code and strategy.  Up to 139  *)
(* bytes of name, everything fits into the buffer.                         *)
LEMMA RuleMessage ==
  ASSUME NEW c, Built(c), IsRule(c), NEW m, m = Build(c)
  PROVE  /\ c.name % U16 \notin U16 - 8 .. U16 - 2 => Inside(m)
         /\ c.name <= 139 => m.ok
         /\ m.ok => /\ m.attrs[1] = NameAttribute(c.name)
                    /\ m.attrs[2] = Attribute("CODE", c.code, 4)
                    /\ c.cmd = "DEL_FREE_ASYNC" => DOMAIN m.attrs = {1, 2}
                    /\ c.cmd = "ADD_FREE_ASYNC" =>
                         /\ DOMAIN m.attrs = {1, 2, 3}
                         /\ m.attrs[3] = Attribute("STRATEGY", c.strategy % U8, 1)
<1> DEFINE n == (c.name + 1) % U16
           code == 4
           s == 1
           b0 == Builder(RuleBuffer)
           name == Smaller(c.name, n)
           b1 == put(b0, "RPC_NAME", name, n)
           b2 == put(b1, "CODE", c.code, code)
           b3 == put(b2, "STRATEGY", c.strategy % U8, s)
<1>1. /\ c.name \in Nat /\ c.code \in Int
      /\ c.cmd = "ADD_FREE_ASYNC" => c.strategy \in Nat /\ c.strategy % U8 \in Int
      /\ c.cmd = "ADD_FREE_ASYNC" \/ c.cmd = "DEL_FREE_ASYNC"
  <2>1. /\ c.name \in Nat /\ c.code \in Int
        /\ c.cmd = "ADD_FREE_ASYNC" => c.strategy \in Nat
        /\ c.cmd = "ADD_FREE_ASYNC" \/ c.cmd = "DEL_FREE_ASYNC"
    BY Zenon, CommandFacts DEF IsRule
  <2> QED  BY SMT, <2>1 DEF U8
<1>2. m = IF c.cmd = "ADD_FREE_ASYNC" THEN b3 ELSE b2
  BY Zenon, <1>1 DEF Build, IsRule, putString, putS32, putU8
<1>3. /\ n \in Nat /\ n < U16 /\ name \in Int /\ (c.name % U16 \notin U16 - 8 .. U16 - 2 => Fits(n))
      /\ c.name <= 139 => Fits(n) /\ n = c.name + 1
  <2>1. n \in Nat => name \in Int
    BY SMT, <1>1 DEF Smaller
  <2> QED  BY Zenon, <1>1, <2>1, NameFits
<1>4. /\ code \in Nat /\ code < U16 /\ Fits(code) /\ NLA_ALIGN(4 + code) = 8
      /\ s \in Nat /\ s < U16 /\ Fits(s) /\ NLA_ALIGN(4 + s) = 8
      /\ RuleBuffer \in Nat /\ RuleBuffer >= 20
  BY SMT DEF U16, Fits, NLA_ALIGN, RuleBuffer
<1>5. c.name <= 139 => NLA_ALIGN(4 + n) \in Nat /\ NLA_ALIGN(4 + n) <= 144
  BY SMT, <1>1, <1>3 DEF NLA_ALIGN
<1>6. /\ b0 \in Message /\ b0.cap = RuleBuffer /\ b0.len = 20 /\ b0.ok /\ b0.attrs = <<>> /\ Inside(b0)
  BY Zenon, <1>4, BuilderFacts
<1>7. "RPC_NAME" \in AttributeTypes /\ "CODE" \in AttributeTypes /\ "STRATEGY" \in AttributeTypes
  BY Zenon DEF AttributeTypes
<1> HIDE DEF n, name, code, s, b0
<1>8. /\ b1 \in Message /\ b1.cap = RuleBuffer
      /\ b1.ok => b1.attrs = Append(<<>>, Attribute("RPC_NAME", name, n))
      /\ Fits(n) => Inside(b1)
      /\ c.name <= 139 => b1.ok /\ b1.len = 20 + NLA_ALIGN(4 + n)
  <2>1. c.name <= 139 => b0.len + NLA_ALIGN(4 + n) <= b0.cap
    BY SMT, <1>1, <1>5, <1>6 DEF RuleBuffer
  <2>2. /\ b1 \in Message /\ b1.cap = b0.cap
        /\ b1.ok => b1.attrs = Append(b0.attrs, Attribute("RPC_NAME", name, n))
        /\ Fits(n) /\ Inside(b0) => Inside(b1)
        /\ Fits(n) /\ b0.ok /\ b0.len + NLA_ALIGN(4 + n) <= b0.cap
             => b1.ok /\ b1.len = b0.len + NLA_ALIGN(4 + n)
    <3>1. b0 \in Message /\ name \in Int /\ n \in Nat /\ n < U16
      BY Zenon, <1>3, <1>6
    <3> QED  BY SMT, <1>7, <3>1, PutFacts
  <2> QED  BY Zenon, <1>3, <1>6, <2>1, <2>2
<1> HIDE DEF b1
<1>9. /\ b2 \in Message /\ b2.cap = RuleBuffer
      /\ b2.ok => b1.ok /\ b2.attrs = Append(b1.attrs, Attribute("CODE", c.code, code))
      /\ Fits(n) => Inside(b2)
      /\ c.name <= 139 => b2.ok /\ b2.len = 28 + NLA_ALIGN(4 + n)
  <2>1. c.name <= 139 => b1.len + NLA_ALIGN(4 + code) <= b1.cap
    BY SMT, <1>1, <1>4, <1>5, <1>8 DEF RuleBuffer
  <2>2. /\ b2 \in Message /\ b2.cap = b1.cap
        /\ b2.ok => b1.ok /\ b2.attrs = Append(b1.attrs, Attribute("CODE", c.code, code))
        /\ Fits(code) /\ Inside(b1) => Inside(b2)
        /\ Fits(code) /\ b1.ok /\ b1.len + NLA_ALIGN(4 + code) <= b1.cap
             => b2.ok /\ b2.len = b1.len + NLA_ALIGN(4 + code)
    <3>1. b1 \in Message /\ c.code \in Int /\ code \in Nat /\ code < U16
      BY Zenon, <1>1, <1>4, <1>8
    <3> QED  BY SMT, <1>7, <3>1, PutFacts
  <2>3. c.name <= 139 => b2.ok /\ b2.len = b1.len + NLA_ALIGN(4 + code)
    BY Zenon, <1>4, <1>8, <2>1, <2>2
  <2>4. c.name <= 139 => b2.len = 28 + NLA_ALIGN(4 + n)
    BY SMT, <1>4, <1>5, <1>8, <2>3
  <2> QED  BY Zenon, <1>4, <1>8, <2>2, <2>3, <2>4
<1> HIDE DEF b2
<1>10. c.cmd = "ADD_FREE_ASYNC" =>
         /\ b3.ok => b2.ok /\ b3.attrs = Append(b2.attrs, Attribute("STRATEGY", c.strategy % U8, s))
         /\ Fits(n) => Inside(b3)
         /\ c.name <= 139 => b3.ok
  <2>1. c.name <= 139 => b2.len + NLA_ALIGN(4 + s) <= b2.cap
    BY SMT, <1>1, <1>4, <1>5, <1>9 DEF RuleBuffer
  <2>2. c.cmd = "ADD_FREE_ASYNC" =>
          /\ b3.ok => b2.ok /\ b3.attrs = Append(b2.attrs, Attribute("STRATEGY", c.strategy % U8, s))
          /\ Fits(s) /\ Inside(b2) => Inside(b3)
          /\ Fits(s) /\ b2.ok /\ b2.len + NLA_ALIGN(4 + s) <= b2.cap => b3.ok
    <3>1. b2 \in Message /\ s \in Nat /\ s < U16
      BY Zenon, <1>4, <1>9
    <3>2. c.cmd = "ADD_FREE_ASYNC" => c.strategy % U8 \in Int
      BY Zenon, <1>1
    <3> QED  BY SMT, <1>7, <3>1, <3>2, PutFacts
  <2> QED  BY Zenon, <1>4, <1>9, <2>1, <2>2
<1> HIDE DEF b3
<1>11. (c.name % U16 \notin U16 - 8 .. U16 - 2 => Inside(m)) /\ (c.name <= 139 => m.ok)
  BY Zenon, <1>1, <1>2, <1>3, <1>9, <1>10
<1>12. m.ok => /\ b2.ok /\ b1.ok
               /\ c.cmd = "DEL_FREE_ASYNC" => m = b2
               /\ c.cmd = "ADD_FREE_ASYNC" => m = b3
  BY Zenon, <1>1, <1>2, <1>9, <1>10
<1> DEFINE x == Attribute("RPC_NAME", name, n)
           y == Attribute("CODE", c.code, code)
           z == Attribute("STRATEGY", c.strategy % U8, s)
<1> HIDE DEF x, y, z
<1>13. /\ m.ok => b2.attrs = Append(Append(<<>>, x), y)
       /\ m.ok /\ c.cmd = "ADD_FREE_ASYNC" => b3.attrs = Append(Append(Append(<<>>, x), y), z)
  BY Zenon, <1>8, <1>9, <1>10, <1>12 DEF x, y, z
<1>14. /\ m.ok => DOMAIN b2.attrs = {1, 2} /\ b2.attrs[1] = x /\ b2.attrs[2] = y
       /\ m.ok /\ c.cmd = "ADD_FREE_ASYNC" =>
            DOMAIN b3.attrs = {1, 2, 3} /\ b3.attrs[1] = x /\ b3.attrs[2] = y /\ b3.attrs[3] = z
  <2> DEFINE s2 == Append(Append(<<>>, x), y)
             s3 == Append(s2, z)
  <2>1. /\ DOMAIN s2 = {1, 2} /\ s2[1] = x /\ s2[2] = y
        /\ DOMAIN s3 = {1, 2, 3} /\ s3[1] = x /\ s3[2] = y /\ s3[3] = z
    BY SMT
  <2>2. (m.ok => b2.attrs = s2) /\ (m.ok /\ c.cmd = "ADD_FREE_ASYNC" => b3.attrs = s3)
    BY Zenon, <1>13
  <2> HIDE DEF s2, s3
  <2> QED  BY Zenon, <2>1, <2>2
<1> QED
  BY Zenon, <1>1, <1>11, <1>12, <1>14 DEF n, name, code, s, x, y, z, NameAttribute

-----------------------------------------------------------------------------
(* The kernel's side *)

(* The handlers of addMonitorNet and delMonitorNet get the uid.            *)
LEMMA UidRead ==
  ASSUME NEW c, Built(c), ~IsRule(c), NEW m, m = Build(c)
  PROVE  Valid(m) /\ Has(m, "UID") /\ Attr(m, "UID").value = c.uid
<1> DEFINE a == Attribute("UID", c.uid, 4)
<1>1. DOMAIN m.attrs = {1} /\ m.attrs[1] = a
  BY Zenon, UidMessage
<1>2. a.type = "UID" /\ a.value = c.uid /\ a.len = 4
  BY SMT DEF Attribute
<1> HIDE DEF a
<1>3. Has(m, "UID") /\ Valid(m)
  BY Zenon, <1>1, <1>2 DEF Has, Valid
<1>4. (CHOOSE i \in DOMAIN m.attrs : m.attrs[i].type = "UID") = 1
  BY Zenon, <1>1, <1>2
<1> QED  BY Zenon, <1>1, <1>2, <1>3, <1>4 DEF Attr

(* The handlers of a rule get its code and strategy; the policy lets pass  *)
(* only a whole name, and every name that is not too long.                 *)
LEMMA RuleRead ==
  ASSUME NEW c, Built(c), IsRule(c), NEW m, m = Build(c), m.ok
  PROVE  /\ Valid(m) => Rule(m) = <<c.name, c.code>>
         /\ c.cmd = "ADD_FREE_ASYNC" => Attr(m, "STRATEGY").value = c.strategy % U8
         /\ c.name <= 139 => Valid(m)
<1> DEFINE n == (c.name + 1) % U16
           code == 4
           s == 1
           x == NameAttribute(c.name)
           y == Attribute("CODE", c.code, code)
           z == Attribute("STRATEGY", c.strategy % U8, s)
<1>1. /\ m.attrs[1] = x /\ m.attrs[2] = y
      /\ \/ DOMAIN m.attrs = {1, 2} /\ c.cmd # "ADD_FREE_ASYNC"
         \/ DOMAIN m.attrs = {1, 2, 3} /\ m.attrs[3] = z
  BY Zenon, RuleMessage DEF IsRule
<1>2. /\ x.type = "RPC_NAME" /\ x.value = Smaller(c.name, n) /\ x.len = n
      /\ y.type = "CODE" /\ y.value = c.code /\ y.len = 4
      /\ z.type = "STRATEGY" /\ z.value = c.strategy % U8 /\ z.len = 1
  BY Zenon DEF Attribute, NameAttribute
<1> HIDE DEF x, y, z
<1>3. /\ (CHOOSE i \in DOMAIN m.attrs : m.attrs[i].type = "RPC_NAME") = 1
      /\ (CHOOSE i \in DOMAIN m.attrs : m.attrs[i].type = "CODE") = 2
      /\ c.cmd = "ADD_FREE_ASYNC" =>
           (CHOOSE i \in DOMAIN m.attrs : m.attrs[i].type = "STRATEGY") = 3
  BY Zenon, <1>1, <1>2
<1>4. Valid(m) <=> x.len = x.value + 1 /\ x.value <= RKX_INTERFACETOKEN_BUFF_SIZE - 1
  <2> DEFINE Ok(a) == CASE a.type = "RPC_NAME" -> /\ a.len = a.value + 1
                                                  /\ a.value <= RKX_INTERFACETOKEN_BUFF_SIZE - 1
                        [] a.type = "STRATEGY" -> a.len = 1
                        [] OTHER               -> a.len = 4
  <2>1. Ok(x) <=> x.len = x.value + 1 /\ x.value <= RKX_INTERFACETOKEN_BUFF_SIZE - 1
    BY Zenon, <1>2
  <2>2. Ok(y) /\ Ok(z)
    BY Zenon, <1>2
  <2>3. Valid(m) <=> \A i \in DOMAIN m.attrs : Ok(m.attrs[i])
    BY Zenon DEF Valid
  <2> HIDE DEF Ok
  <2> QED  BY Zenon, <1>1, <2>1, <2>2, <2>3
<1>5. c.name \in Nat
  BY Zenon, CommandFacts
<1>6. x.len = x.value + 1 => x.value = c.name
  BY SMT, <1>2, <1>5 DEF Smaller, U16
<1>7. c.name <= 139 => x.len = x.value + 1 /\ x.value <= RKX_INTERFACETOKEN_BUFF_SIZE - 1
  BY SMT, <1>2, <1>5 DEF Smaller, U16, RKX_INTERFACETOKEN_BUFF_SIZE
<1>8. /\ Attr(m, "RPC_NAME") = x /\ Attr(m, "CODE") = y
      /\ c.cmd = "ADD_FREE_ASYNC" => Attr(m, "STRATEGY") = z
  BY Zenon, <1>1, <1>3 DEF Attr
<1> QED
  BY Zenon, <1>2, <1>4, <1>6, <1>7, <1>8 DEF Rule

-----------------------------------------------------------------------------
(* The inductive invariant *)

Results == {"applied", "ENOMEM", "ENOENT", "EINVAL"}

Messages == {Build(c) : c \in {d \in Commands : Built(d)}}

\* Family ids only grow, and whoever holds one got it from the kernel.
Families ==
  /\ loads \in Nat /\ family \in {0, loads}
  /\ g_family_id \in Nat /\ g_family_id <= loads
  /\ \A t \in Thread : fid[t] <= loads

Types ==
  /\ at \in [Thread -> {"idle", "check", "send", "true", "false", "undefined"}]
  /\ command \in [Thread -> Commands \cup {NULL}]
  /\ fid \in [Thread -> Nat]
  /\ buf \in [Thread -> Messages \cup {NULL}]
  /\ done \in [Thread -> Results \cup {NULL}]

\* A message is the one of the command that is running, and only the kernel
\* says what became of it.
Course(t) ==
  /\ at[t] # "idle" => command[t] \in Commands
  /\ buf[t] # NULL => Built(command[t]) /\ buf[t] = Build(command[t])
  /\ at[t] \in {"idle", "check"} => buf[t] = NULL
  /\ at[t] = "send" => /\ Built(command[t]) /\ buf[t] = Build(command[t])
                       /\ IsRule(command[t]) => buf[t].ok
  /\ at[t] # "true" => done[t] = NULL
  /\ at[t] = "true" /\ Acceptable(command[t]) => done[t] \in {"applied", "ENOMEM", "ENOENT"}

\* A family that was not found is gone for good.
Gone(t) == done[t] = "ENOENT" => fid[t] # loads \/ family = 0

\* No rule has a name or a code that rkx_genl_del_free_async refuses.
RuleKeys == \A k \in DOMAIN free_async : KeyValid(k)

CmdInv == Families /\ Types /\ RuleKeys /\ \A t \in Thread : Course(t) /\ Gone(t)

\* What the kernel makes of command c of thread t.
Outcome(t, c, r) ==
  /\ done' = [done EXCEPT ![t] = r]
  /\ r = "ENOENT" => fid[t] # family
  /\ Acceptable(c) => r \in {"applied", "ENOMEM", "ENOENT"}
  /\ UNCHANGED tables \/ Asked(c)
  /\ RuleKeys'

(* rkx_genl_monitor_net and rkx_genl_del_monitor_net.                      *)
LEMMA UidHandled ==
  ASSUME RuleKeys, NEW t, NEW c, Built(c), ~IsRule(c), NEW m, m = Build(c), Handle(t, c.cmd, m)
  PROVE  \E r \in Results : Outcome(t, c, r)
<1>1. Attr(m, "UID").value = c.uid /\ c.cmd \in {"ADD_MONITOR_NET", "DEL_MONITOR_NET"}
  BY Zenon, UidRead, CommandFacts
<1>2. UNCHANGED free_async
  BY Zenon, <1>1 DEF Handle, rkx_genl_monitor_net, rkx_genl_del_monitor_net
<1>3. RuleKeys'
  BY Zenon, <1>2 DEF RuleKeys, KeyValid
<1>4. CASE c.cmd = "ADD_MONITOR_NET"
  <2>1. \/ net_uid' = net_uid \cup {c.uid} /\ Done(t, "applied")
        \/ UNCHANGED net_uid /\ Done(t, "ENOMEM")
    BY Zenon, <1>1, <1>4 DEF Handle, rkx_genl_monitor_net
  <2>2. (\E r \in {"applied", "ENOMEM"} : done' = [done EXCEPT ![t] = r]) /\ (UNCHANGED net_uid \/ net_uid' = net_uid \cup {c.uid})
    BY Zenon, <2>1 DEF Done
  <2>3. UNCHANGED tables \/ Asked(c)
    BY Zenon, <1>2, <1>4, <2>2 DEF tables, Asked
  <2> QED  BY Zenon, <1>3, <2>2, <2>3 DEF Outcome, Results
<1>5. CASE c.cmd = "DEL_MONITOR_NET"
  <2>1. net_uid' = net_uid \ {c.uid} /\ Done(t, "applied")
    BY Zenon, <1>1, <1>5 DEF Handle, rkx_genl_del_monitor_net
  <2>2. Asked(c)
    BY Zenon, <1>2, <1>5, <2>1 DEF Asked
  <2> QED  BY Zenon, <1>3, <2>1, <2>2 DEF Outcome, Results, Done
<1> QED  BY Zenon, <1>1, <1>4, <1>5

(* rkx_genl_add_free_async: the rule of the name and code that were given, *)
(* and its strategy; every other rule stays.                               *)
LEMMA AddHandled ==
  ASSUME RuleKeys, NEW t, NEW c, Built(c), c.cmd = "ADD_FREE_ASYNC", NEW m, m = Build(c), m.ok,
         Valid(m), Handle(t, c.cmd, m)
  PROVE  \E r \in Results : Outcome(t, c, r)
<1> DEFINE k == <<c.name, c.code>>
           s == c.strategy % U8
<1>1. Rule(m) = k /\ Attr(m, "STRATEGY").value = s
  BY Zenon, RuleRead DEF IsRule
<1>2. /\ UNCHANGED net_uid
      /\ \/ /\ KeyValid(k) /\ rkx_free_async_strategy_valid(s)
            /\ \/ free_async' = SetRule(k, s) /\ Done(t, "applied")
               \/ UNCHANGED free_async /\ Done(t, "ENOMEM")
         \/ /\ ~(KeyValid(k) /\ rkx_free_async_strategy_valid(s))
            /\ UNCHANGED free_async /\ Done(t, "EINVAL")
  BY Zenon, <1>1 DEF Handle, rkx_genl_add_free_async
<1>3. Acceptable(c) => KeyValid(k) /\ rkx_free_async_strategy_valid(s)
  <2>1. Acceptable(c) => /\ c.name \in 1 .. RKX_INTERFACETOKEN_BUFF_SIZE - 1 /\ c.code >= -1
                         /\ c.strategy \in {1, 2, 3}
    BY Zenon DEF Acceptable, IsRule, rkx_free_async_strategy_valid
  <2>2. c.strategy \in {1, 2, 3} => s \in {1, 2, 3}
    BY SMT DEF U8
  <2>3. k[1] = c.name /\ k[2] = c.code
    BY Zenon
  <2> QED  BY Zenon, <2>1, <2>2, <2>3 DEF KeyValid, rkx_free_async_strategy_valid
<1>4. CASE KeyValid(k) /\ free_async' = SetRule(k, s) /\ Done(t, "applied")
  <2>1. /\ DOMAIN free_async' = DOMAIN free_async \cup {k}
        /\ \A r \in DOMAIN free_async \cup {k} : free_async'[r] = IF r = k THEN s ELSE free_async[r]
    <3> HIDE DEF k, s
    <3> QED  BY Zenon, <1>4 DEF SetRule
  <2>2. RuleKeys'
    <3> SUFFICES ASSUME NEW r \in DOMAIN free_async'  PROVE KeyValid(r)
      BY Zenon DEF RuleKeys, KeyValid
    <3> QED  BY Zenon, <1>4, <2>1 DEF RuleKeys
  <2>3. Asked(c)
    <3>1. /\ k \in DOMAIN free_async' /\ free_async'[k] = s
          /\ \A r \in DOMAIN free_async \cup DOMAIN free_async' :
               r # k => /\ r \in DOMAIN free_async \cap DOMAIN free_async'
                        /\ free_async'[r] = free_async[r]
      <4> HIDE DEF k, s
      <4> QED  BY Zenon, <2>1
    <3> QED  BY Zenon, <1>2, <3>1 DEF Asked
  <2> QED  BY Zenon, <1>4, <2>2, <2>3 DEF Outcome, Results, Done
<1>5. CASE UNCHANGED free_async /\ (Done(t, "ENOMEM") \/ (Done(t, "EINVAL") /\ ~Acceptable(c)))
  <2>1. RuleKeys' /\ UNCHANGED tables
    BY Zenon, <1>2, <1>5 DEF RuleKeys, KeyValid, tables
  <2> QED  BY Zenon, <1>5, <2>1 DEF Outcome, Results, Done
<1> QED  BY Zenon, <1>2, <1>3, <1>4, <1>5

(* rkx_genl_del_free_async: that rule is gone and every other stays.       *)
LEMMA DelHandled ==
  ASSUME RuleKeys, NEW t, NEW c, Built(c), c.cmd = "DEL_FREE_ASYNC", NEW m, m = Build(c), m.ok,
         Valid(m), Handle(t, c.cmd, m)
  PROVE  \E r \in Results : Outcome(t, c, r)
<1> DEFINE k == <<c.name, c.code>>
           what == IF KeyValid(k) THEN "applied" ELSE "EINVAL"
<1>1. Rule(m) = k
  BY Zenon, RuleRead DEF IsRule
<1>2. /\ UNCHANGED net_uid /\ Done(t, what)
      /\ free_async' = [r \in DOMAIN free_async \ {k} |-> free_async[r]]
  BY Zenon, <1>1 DEF Handle, rkx_genl_del_free_async
<1>3. Acceptable(c) => what = "applied"
  <2>1. k[1] = c.name /\ k[2] = c.code
    BY Zenon
  <2> QED  BY Zenon, <2>1 DEF Acceptable, IsRule, KeyValid
<1>4. what \in Results /\ what # "ENOENT"
  BY Zenon DEF Results
<1> HIDE DEF k, what
<1>5. /\ DOMAIN free_async' = DOMAIN free_async \ {k}
      /\ \A r \in DOMAIN free_async \ {k} : free_async'[r] = free_async[r]
  BY Zenon, <1>2
<1>6. RuleKeys'
  <2> SUFFICES ASSUME NEW r \in DOMAIN free_async'  PROVE KeyValid(r)
    BY Zenon DEF RuleKeys, KeyValid
  <2> QED  BY Zenon, <1>5 DEF RuleKeys
<1>7. Asked(c)
  BY Zenon, <1>2, <1>5 DEF Asked, k
<1> QED  BY Zenon, <1>2, <1>3, <1>4, <1>6, <1>7 DEF Outcome, Done

(* genl_rcv: an unknown family, an attribute the policy refuses, or the    *)
(* handler of the command.                                                 *)
LEMMA Received ==
  ASSUME RuleKeys, NEW t \in Thread, Course(t), at[t] = "send", genl_rcv(t, buf[t])
  PROVE  \E r \in Results : Outcome(t, command[t], r)
<1> DEFINE c == command[t]
           m == buf[t]
<1>1. Built(c) /\ m = Build(c) /\ (IsRule(c) => m.ok)
  BY Zenon DEF Course
<1>2. CASE UNCHANGED tables /\ \/ Done(t, "ENOENT") /\ fid[t] # family
                               \/ Done(t, "EINVAL") /\ ~Valid(m)
  <2>1. Acceptable(c) => Valid(m)
    <3>1. IsRule(c) /\ Acceptable(c) => c.name <= 139
      BY SMT DEF Acceptable, RKX_INTERFACETOKEN_BUFF_SIZE
    <3> QED  BY Zenon, <1>1, <3>1, UidRead, RuleRead
  <2>2. RuleKeys'
    BY Zenon, <1>2 DEF RuleKeys, KeyValid, tables
  <2> QED  BY Zenon, <1>2, <2>1, <2>2 DEF Outcome, Done, Results
<1>3. CASE Valid(m) /\ Handle(t, c.cmd, m)
  <2>1. IsRule(c) => c.cmd = "ADD_FREE_ASYNC" \/ c.cmd = "DEL_FREE_ASYNC"
    BY Zenon DEF IsRule
  <2> QED  BY Zenon, <1>1, <1>3, <2>1, UidHandled, AddHandled, DelHandled
<1> QED  BY Zenon, <1>2, <1>3 DEF genl_rcv

-----------------------------------------------------------------------------
(* Every step keeps the invariant *)

(* A thread that does not move, while the module stays.                    *)
LEMMA Elsewhere ==
  ASSUME NEW u \in Thread, Course(u), Gone(u), UNCHANGED <<family, loads>>,
         at'[u] = at[u], command'[u] = command[u], fid'[u] = fid[u],
         buf'[u] = buf[u], done'[u] = done[u]
  PROVE  (Course(u) /\ Gone(u))'
BY Zenon DEF Course, Gone

(* CommandBegin: the family id is read from g_family_id.                   *)
LEMMA BeginInv ==
  ASSUME CmdInv, NEW t \in Thread, NEW c \in Commands, CommandBegin(t, c)
  PROVE  CmdInv'
<1>1. /\ at[t] = "idle" /\ command' = [command EXCEPT ![t] = c]
      /\ fid' = [fid EXCEPT ![t] = g_family_id] /\ at' = [at EXCEPT ![t] = "check"]
      /\ UNCHANGED <<family, loads, free_async, g_family_id, buf, done>>
  BY Zenon DEF CommandBegin, Goto, kernelVars, connVars, tables
<1>2. Types'
  BY Zenon, <1>1 DEF CmdInv, Types, Families
<1>3. Families'
  BY Zenon, <1>1 DEF CmdInv, Types, Families
<1>4. RuleKeys'
  BY Zenon, <1>1 DEF CmdInv, RuleKeys, KeyValid
<1>5. ASSUME NEW u \in Thread, u # t  PROVE (Course(u) /\ Gone(u))'
  BY Zenon, <1>1, <1>5, Elsewhere DEF CmdInv, Types
<1>6. /\ at'[t] = "check" /\ command'[t] = c /\ buf'[t] = buf[t] /\ done'[t] = done[t]
      /\ buf[t] = NULL /\ done[t] = NULL
  BY Zenon, <1>1 DEF CmdInv, Types, Course
<1>7. (Course(t) /\ Gone(t))'
  BY Zenon, <1>6, NullAssumption DEF Course, Gone
<1> QED  BY Zenon, <1>2, <1>3, <1>4, <1>5, <1>7 DEF CmdInv

(* CommandCheck: FALSE, or the message of the command.                     *)
LEMMA CheckInv ==
  ASSUME CmdInv, NEW t \in Thread, CommandCheck(t)
  PROVE  CmdInv'
<1> DEFINE b == Build(command[t])
<1>1. /\ at[t] = "check" /\ UNCHANGED <<family, loads, free_async, g_family_id, command, fid, done>>
      /\ \/ at' = [at EXCEPT ![t] = "false"] /\ UNCHANGED buf
         \/ /\ ~Refused(command[t]) /\ buf' = [buf EXCEPT ![t] = b]
            /\ \/ at' = [at EXCEPT ![t] = "false"]
               \/ at' = [at EXCEPT ![t] = "undefined"]
               \/ at' = [at EXCEPT ![t] = "send"] /\ ~(IsRule(command[t]) /\ ~b.ok)
  BY Zenon DEF CommandCheck, AfterBuild, Goto, kernelVars, connVars, tables
<1>2. /\ command[t] \in Commands /\ buf[t] = NULL /\ done[t] = NULL
      /\ ~Refused(command[t]) => Built(command[t]) /\ b \in Messages
  BY Zenon, <1>1 DEF CmdInv, Course, Built, Messages
<1>3. Types'
  <2>1. buf' \in [Thread -> Messages \cup {NULL}]
    BY Zenon, <1>1, <1>2 DEF CmdInv, Types
  <2>2. at' \in [Thread -> {"idle", "check", "send", "true", "false", "undefined"}]
    BY Zenon, <1>1 DEF CmdInv, Types
  <2> QED  BY Zenon, <1>1, <2>1, <2>2 DEF CmdInv, Types
<1>4. Families'
  BY Zenon, <1>1 DEF CmdInv, Families
<1>5. RuleKeys'
  BY Zenon, <1>1 DEF CmdInv, RuleKeys, KeyValid
<1>6. ASSUME NEW u \in Thread, u # t  PROVE (Course(u) /\ Gone(u))'
  <2>1. at'[u] = at[u] /\ buf'[u] = buf[u]
    BY Zenon, <1>1, <1>6 DEF CmdInv, Types
  <2> QED  BY Zenon, <1>1, <2>1, Elsewhere DEF CmdInv
<1>7. /\ command'[t] = command[t] /\ done'[t] = NULL
      /\ \/ at'[t] = "false" /\ buf'[t] = NULL
         \/ at'[t] = "false" /\ Built(command[t]) /\ buf'[t] = b
         \/ at'[t] = "undefined" /\ Built(command[t]) /\ buf'[t] = b
         \/ at'[t] = "send" /\ Built(command[t]) /\ buf'[t] = b /\ (IsRule(command[t]) => b.ok)
  BY Zenon, <1>1, <1>2 DEF CmdInv, Types
<1>8. (Course(t) /\ Gone(t))'
  BY Zenon, <1>2, <1>7, NullAssumption DEF Course, Gone
<1> QED  BY Zenon, <1>3, <1>4, <1>5, <1>6, <1>8 DEF CmdInv

(* CommandSend: sendto fails, or the kernel has handled the message.       *)
LEMMA SendInv ==
  ASSUME CmdInv, NEW t \in Thread, CommandSend(t)
  PROVE  CmdInv'
<1>1. /\ at[t] = "send" /\ UNCHANGED <<family, loads, g_family_id, command, fid, buf>>
      /\ \/ at' = [at EXCEPT ![t] = "false"] /\ UNCHANGED <<tables, done>>
         \/ at' = [at EXCEPT ![t] = "true"] /\ genl_rcv(t, buf[t])
  BY Zenon DEF CommandSend, Goto, connVars
<1>2. \/ at' = [at EXCEPT ![t] = "false"] /\ UNCHANGED done /\ RuleKeys'
      \/ at' = [at EXCEPT ![t] = "true"] /\ \E r \in Results : Outcome(t, command[t], r)
  <2>1. UNCHANGED tables => RuleKeys'
    BY Zenon DEF CmdInv, RuleKeys, KeyValid, tables
  <2> QED  BY Zenon, <1>1, <2>1, Received DEF CmdInv
<1>3. RuleKeys'
  BY Zenon, <1>2 DEF Outcome
<1>4. Types'
  <2>1. done' \in [Thread -> Results \cup {NULL}]
    BY Zenon, <1>2 DEF CmdInv, Types, Outcome
  <2>2. at' \in [Thread -> {"idle", "check", "send", "true", "false", "undefined"}]
    BY Zenon, <1>1 DEF CmdInv, Types
  <2> QED  BY Zenon, <1>1, <2>1, <2>2 DEF CmdInv, Types
<1>5. Families'
  BY Zenon, <1>1 DEF CmdInv, Families
<1>6. ASSUME NEW u \in Thread, u # t  PROVE (Course(u) /\ Gone(u))'
  <2>1. at'[u] = at[u] /\ done'[u] = done[u]
    BY Zenon, <1>2, <1>6 DEF CmdInv, Types, Outcome
  <2> QED  BY Zenon, <1>1, <2>1, Elsewhere DEF CmdInv
<1>7. /\ command[t] \in Commands /\ Built(command[t]) /\ buf[t] = Build(command[t]) /\ done[t] = NULL
      /\ command'[t] = command[t] /\ buf'[t] = buf[t] /\ fid'[t] = fid[t]
  BY Zenon, <1>1 DEF CmdInv, Course
<1>8. \/ at'[t] = "false" /\ done'[t] = NULL
      \/ /\ at'[t] = "true" /\ (done'[t] = "ENOENT" => fid[t] # family)
         /\ Acceptable(command[t]) => done'[t] \in {"applied", "ENOMEM", "ENOENT"}
  BY Zenon, <1>2, <1>7 DEF CmdInv, Types, Outcome
<1>9. Course(t)'
  BY Zenon, <1>7, <1>8 DEF Course
<1>10. Gone(t)'
  <2>1. done'[t] = "ENOENT" => fid[t] # family
    BY Zenon, <1>8, NullAssumption
  <2> QED  BY Zenon, <1>1, <1>7, <2>1 DEF Gone, CmdInv, Families
<1> QED  BY Zenon, <1>3, <1>4, <1>5, <1>6, <1>9, <1>10 DEF CmdInv

(* CommandReturn: the thread forgets the command.                          *)
LEMMA EndInv ==
  ASSUME CmdInv, NEW t \in Thread, CommandReturn(t)
  PROVE  CmdInv'
<1>1. /\ at' = [at EXCEPT ![t] = "idle"] /\ command' = [command EXCEPT ![t] = NULL]
      /\ fid' = [fid EXCEPT ![t] = 0] /\ buf' = [buf EXCEPT ![t] = NULL]
      /\ done' = [done EXCEPT ![t] = NULL]
      /\ UNCHANGED <<family, loads, free_async, g_family_id>>
  BY Zenon DEF CommandReturn, Goto, kernelVars, connVars, tables
<1>2. Types'
  <2>1. fid' \in [Thread -> Nat]
    BY SMT, <1>1 DEF CmdInv, Types
  <2> QED  BY Zenon, <1>1, <2>1 DEF CmdInv, Types
<1>3. Families'
  <2>1. \A u \in Thread : fid'[u] <= loads
    BY SMT, <1>1 DEF CmdInv, Types, Families
  <2> QED  BY Zenon, <1>1, <2>1 DEF CmdInv, Families
<1>4. RuleKeys'
  BY Zenon, <1>1 DEF CmdInv, RuleKeys, KeyValid
<1>5. ASSUME NEW u \in Thread, u # t  PROVE (Course(u) /\ Gone(u))'
  BY Zenon, <1>1, <1>5, Elsewhere DEF CmdInv, Types
<1>6. at'[t] = "idle" /\ buf'[t] = NULL /\ done'[t] = NULL
  BY Zenon, <1>1 DEF CmdInv, Types
<1>7. (Course(t) /\ Gone(t))'
  BY Zenon, <1>6, NullAssumption DEF Course, Gone
<1> QED  BY Zenon, <1>2, <1>3, <1>4, <1>5, <1>7 DEF CmdInv

(* connect, disconnect, and the module coming and going: an id that was    *)
(* read before is never the one of a family that is registered later.      *)
LEMMA AroundInv ==
  ASSUME CmdInv, connect \/ disconnect \/ rkx_init \/ rkx_exit \/ UNCHANGED vars
  PROVE  CmdInv'
<1>1. UNCHANGED <<at, command, fid, buf, done>>
  BY Zenon DEF connect, disconnect, rkx_init, rkx_exit, threadVars, vars
<1>2. /\ Types' /\ \A t \in Thread : Course(t)'
  BY Zenon, <1>1 DEF CmdInv, Types, Course
<1>3. RuleKeys'
  <2>1. CASE UNCHANGED free_async
    BY Zenon, <2>1 DEF CmdInv, RuleKeys, KeyValid
  <2>2. CASE free_async' = <<>>
    <3>1. DOMAIN free_async' = {}
      BY SMT, <2>2
    <3> QED  BY Zenon, <3>1 DEF RuleKeys
  <2> QED
    BY Zenon, <2>1, <2>2 DEF connect, disconnect, rkx_init, rkx_exit, vars, kernelVars, tables
<1>4. \/ UNCHANGED <<family, loads>> /\ g_family_id' \in {0, family, g_family_id}
      \/ family' = 0 /\ UNCHANGED <<loads, g_family_id>>
      \/ loads' = loads + 1 /\ family' = loads' /\ UNCHANGED g_family_id
  BY Zenon DEF connect, disconnect, rkx_init, rkx_exit, vars, kernelVars, connVars
<1>5. /\ loads \in Nat /\ family \in {0, loads} /\ g_family_id \in Nat /\ g_family_id <= loads
      /\ \A t \in Thread : fid[t] \in Nat /\ fid[t] <= loads
  BY Zenon DEF CmdInv, Types, Families
<1>6. Families'
  BY SMT, <1>1, <1>4, <1>5 DEF Families
<1>7. ASSUME NEW t \in Thread  PROVE Gone(t)'
  <2>1. Gone(t)
    BY Zenon DEF CmdInv
  <2>2. loads' = loads + 1 => fid[t] # loads'
    BY SMT, <1>5
  <2> QED  BY Zenon, <1>1, <1>4, <2>1, <2>2 DEF Gone
<1> QED  BY Zenon, <1>2, <1>3, <1>6, <1>7 DEF CmdInv

(* Every step keeps the invariant.                                         *)
LEMMA StepInv == CmdInv /\ [Next]_vars => CmdInv'
BY Zenon, BeginInv, CheckInv, SendInv, EndInv, AroundInv DEF Next

(* Nothing is loaded, and no thread has a command.                         *)
LEMMA InitInv == Init => CmdInv
<1> SUFFICES ASSUME Init  PROVE CmdInv
  BY Zenon
<1>1. Families
  BY SMT DEF Init, Families
<1>2. Types /\ \A t \in Thread : Course(t) /\ Gone(t)
  BY Zenon, NullAssumption DEF Init, Types, Course, Gone
<1>3. RuleKeys
  BY SMT DEF Init, RuleKeys
<1> QED  BY Zenon, <1>1, <1>2, <1>3 DEF CmdInv

(* The invariant of the commands, the connection and the module.           *)
THEOREM CommandInvariant == Spec => []CmdInv
BY InitInv, StepInv, PTL DEF Spec

-----------------------------------------------------------------------------
(* The theorems *)

(* NlaBuilder writes inside its buffer: for any name whose length leaves   *)
(* the rounded sum in 16 bits, whatever uid, code and strategy.            *)
THEOREM BuilderInside == Spec => []WrittenInside
<1>1. CmdInv => WrittenInside
  <2> SUFFICES ASSUME CmdInv, NEW t \in Thread, buf[t] # NULL,
                      IsRule(command[t]) => command[t].name % U16 \notin U16 - 8 .. U16 - 2
               PROVE  buf[t].end <= buf[t].cap /\ buf[t].len <= buf[t].cap
    BY Zenon DEF WrittenInside
  <2>1. Built(command[t]) /\ buf[t] = Build(command[t])
    BY Zenon DEF CmdInv, Course
  <2>2. Inside(buf[t])
    BY Zenon, <2>1, UidMessage, RuleMessage
  <2> QED  BY Zenon, <2>2 DEF Inside
<1> QED  BY <1>1, CommandInvariant, PTL

(* The result of a command means what it should, for any number of         *)
(* threads: FALSE, and the kernel did nothing of it; TRUE for a command    *)
(* that the kernel accepts, and it is in force, unless there was no memory *)
(* or the family the client knew is gone.                                  *)
THEOREM CommandResults == Spec => []ResultMeans
<1>1. CmdInv => ResultMeans
  <2> SUFFICES ASSUME CmdInv, NEW t \in Thread
               PROVE  /\ at[t] = "false" => done[t] = NULL
                      /\ buf[t] # NULL /\ Acceptable(command[t]) => buf[t].ok
                      /\ at[t] = "true" /\ Acceptable(command[t])
                           => done[t] \in {"applied", "ENOMEM", "ENOENT"}
                      /\ done[t] = "ENOENT" => fid[t] # loads \/ family = 0
    BY Zenon DEF ResultMeans
  <2>1. Course(t) /\ Gone(t)
    BY Zenon DEF CmdInv
  <2>2. ASSUME buf[t] # NULL, Acceptable(command[t])  PROVE buf[t].ok
    <3>1. Built(command[t]) /\ buf[t] = Build(command[t])
      BY Zenon, <2>1, <2>2 DEF Course
    <3>2. IsRule(command[t]) => command[t].name <= 139
      BY SMT, <2>2 DEF Acceptable, RKX_INTERFACETOKEN_BUFF_SIZE
    <3> QED  BY Zenon, <3>1, <3>2, UidMessage, RuleMessage
  <2> QED  BY Zenon, <2>1, <2>2 DEF Course, Gone
<1> QED  BY <1>1, CommandInvariant, PTL

(* While the module stays, the tables of monitored uids and of rules       *)
(* change only by a command that is being sent, and exactly as it asked:   *)
(* no cut name and no other code.                                          *)
THEOREM TablesAsAsked == Spec => ChangedAsAsked
<1> DEFINE A == family' = family /\ tables' # tables =>
                  \E t \in Thread : at[t] = "send" /\ Asked(command[t])
<1>1. CmdInv /\ [Next]_vars => [A]_vars
  <2> SUFFICES ASSUME CmdInv, Next, family' = family, tables' # tables
               PROVE  \E t \in Thread : at[t] = "send" /\ Asked(command[t])
    BY Zenon
  <2>1. PICK t \in Thread : CommandSend(t)
    BY Zenon DEF Next, CommandBegin, CommandCheck, CommandReturn, connect, disconnect,
                 rkx_init, rkx_exit, kernelVars
  <2>2. at[t] = "send" /\ genl_rcv(t, buf[t])
    BY Zenon, <2>1 DEF CommandSend
  <2>3. \E r \in Results : Outcome(t, command[t], r)
    BY Zenon, <2>2, Received DEF CmdInv
  <2> QED  BY Zenon, <2>2, <2>3 DEF Outcome
<1> QED  BY <1>1, CommandInvariant, PTL DEF Spec, ChangedAsAsked
=============================================================================
