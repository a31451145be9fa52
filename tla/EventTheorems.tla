--------------------------- MODULE EventTheorems ---------------------------
(***************************************************************************)
(* The safety invariants of EventPath for any processes, pids, CPUs, calls *)
(* and room in the socket.                                                 *)
(***************************************************************************)
EXTENDS EventPath, TLAPS

-----------------------------------------------------------------------------
(* The codec *)

(* The token loop of rkx_binder_trans_vh and rkx_parse_interface_token of  *)
(* the probe stop at the same character, 62 at the latest.                 *)
LEMMA TokenSame ==
  ASSUME NEW k, k.token \in Nat, k.data_size \in Nat
  PROVE  /\ TokenChars(k) = rkx_parse_interface_token(k)
         /\ TokenChars(k) \in 0 .. 62
<1> DEFINE size == Smaller(k.data_size, RKX_INTERFACETOKEN_BUFF_SIZE)
           S == {i \in 0 .. RKX_INTERFACETOKEN_BUFF_SIZE :
                   ~(/\ i < RKX_INTERFACETOKEN_BUFF_SIZE
                     /\ RKX_PARCEL_OFFSET + 1 + 2 * i < size
                     /\ i < k.token)}
           T == {i \in 0 .. RKX_INTERFACETOKEN_BUFF_SIZE :
                   ~(/\ i + 1 < RKX_INTERFACETOKEN_BUFF_SIZE
                     /\ RKX_PARCEL_OFFSET + 1 + 2 * i < size
                     /\ i < k.token)}
           room == IF size <= 17 THEN 0 ELSE (size - 16) \div 2
           m == Smaller(k.token, room)
<1>1. size \in 0 .. 140 /\ (size <= 16 <=> k.data_size <= 16)
  BY SMT DEF Smaller, RKX_INTERFACETOKEN_BUFF_SIZE
<1>2. S = T
  BY SMT, <1>1 DEF RKX_INTERFACETOKEN_BUFF_SIZE, RKX_PARCEL_OFFSET
<1>3. room \in 0 .. 62 /\ \A i \in Nat : 17 + 2 * i < size <=> i < room
  BY SMT, <1>1
<1>4. m \in 0 .. 62 /\ m \in S /\ \A i \in S : m <= i
  BY SMT, <1>1, <1>3 DEF RKX_INTERFACETOKEN_BUFF_SIZE, RKX_PARCEL_OFFSET, Smaller
<1>5. Min(S) \in 0 .. 62
  <2>1. Min(S) \in S /\ \A i \in S : Min(S) <= i
    BY Zenon, <1>4 DEF Min
  <2> QED
    BY SMT, <2>1, <1>4
<1>6. TokenChars(k) = IF size <= RKX_PARCEL_OFFSET THEN 0
                      ELSE Smaller(Min(S), RKX_INTERFACETOKEN_BUFF_SIZE - 1)
  BY Zenon DEF TokenChars
<1>7. rkx_parse_interface_token(k) = IF k.data_size <= RKX_PARCEL_OFFSET THEN 0 ELSE Min(T)
  BY Zenon DEF rkx_parse_interface_token
<1> HIDE DEF size, S, T, room, m
<1> QED
  BY SMT, <1>1, <1>2, <1>5, <1>6, <1>7 DEF RKX_PARCEL_OFFSET, RKX_INTERFACETOKEN_BUFF_SIZE,
     Smaller

(* rkx_nla_parse finds an attribute that is the only one of its type. *)
LEMMA ParseFinds ==
  ASSUME NEW attrs, NEW f, NEW i \in DOMAIN attrs, i \in Int,
         attrs[i].type = uapi_attr[f], uapi_attr[f] \in 1 .. 49,
         \A j \in DOMAIN attrs : attrs[j].type = uapi_attr[f] => j = i
  PROVE  /\ Found(rkx_nla_parse(attrs), f)
         /\ \A d : Get(rkx_nla_parse(attrs), f, d) = attrs[i].value
<1> DEFINE t == uapi_attr[f]
           all == {j \in DOMAIN attrs : attrs[j].type = t}
<1>1. all = {i}
  BY Zenon
<1>2. Max(all) = i
  <2>1. i \in {i} /\ \A y \in {i} : i >= y
    BY SMT
  <2>2. Max({i}) \in {i}
    BY Zenon, <2>1 DEF Max
  <2> QED
    BY Zenon, <2>2, <1>1
<1>3. t \in {attrs[j].type : j \in DOMAIN attrs} \cap 1 .. uapi_attr.MAX
  <2>1. uapi_attr.MAX = 49
    BY SMT DEF uapi_attr
  <2> QED
    BY Zenon, <2>1
<1>4. t \in DOMAIN rkx_nla_parse(attrs) /\ rkx_nla_parse(attrs)[t] = attrs[Max(all)].value
  BY Zenon, <1>3 DEF rkx_nla_parse
<1> QED
  BY Zenon, <1>2, <1>4 DEF Found, Get

(* The types of the attributes, as the kernel numbers them in the order    *)
(* in which it puts them and as the client asks for them.                  *)
LEMMA Numbering ==
  /\ \A i \in 1 .. 8 : rkx_genl_attr[PutOrder.BINDER[i]] = 10 + i
  /\ \A i \in 1 .. 5 : rkx_genl_attr[PutOrder.SIGNAL[i]] = 20 + i
  /\ \A i \in 1 .. 3 : rkx_genl_attr[PutOrder.NETWORK[i]] = 30 + i
<1>1. \A i \in 1 .. 8 : rkx_genl_attr[PutOrder.BINDER[i]] = 10 + i
  BY SMT DEF PutOrder, rkx_genl_attr
<1>2. \A i \in 1 .. 5 : rkx_genl_attr[PutOrder.SIGNAL[i]] = 20 + i
  BY SMT DEF PutOrder, rkx_genl_attr
<1>3. \A i \in 1 .. 3 : rkx_genl_attr[PutOrder.NETWORK[i]] = 30 + i
  BY SMT DEF PutOrder, rkx_genl_attr
<1> QED
  BY <1>1, <1>2, <1>3

(* A nest with a single attribute. *)
LEMMA ParseOne ==
  ASSUME NEW a, NEW f, a.type = uapi_attr[f], uapi_attr[f] \in 1 .. 49
  PROVE  /\ Found(rkx_nla_parse(<<a>>), f)
         /\ \A d : Get(rkx_nla_parse(<<a>>), f, d) = a.value
<1> DEFINE attrs == <<a>>
<1>1. /\ 1 \in DOMAIN attrs /\ 1 \in Int /\ attrs[1] = a
      /\ \A j \in DOMAIN attrs : attrs[j].type = uapi_attr[f] => j = 1
  BY SMT
<1> HIDE DEF attrs
<1>2. /\ Found(rkx_nla_parse(attrs), f)
      /\ \A d : Get(rkx_nla_parse(attrs), f, d) = attrs[1].value
  BY Zenon, <1>1, ParseFinds
<1> QED
  BY Zenon, <1>1, <1>2 DEF attrs

(* An attribute of a type that was not put is not found. *)
LEMMA ParseMisses ==
  ASSUME NEW attrs, NEW f, \A j \in DOMAIN attrs : attrs[j].type # uapi_attr[f]
  PROVE  ~Found(rkx_nla_parse(attrs), f)
<1>1. DOMAIN rkx_nla_parse(attrs) \subseteq {attrs[j].type : j \in DOMAIN attrs}
  BY Zenon DEF rkx_nla_parse
<1> QED
  BY Zenon, <1>1 DEF Found

(* What handle_event gets out of a message of rkx_send_message: the one    *)
(* nest of the event's type, with its payload.                             *)
LEMMA NestsRead ==
  ASSUME NEW type \in {"BINDER", "SIGNAL", "NETWORK"}, NEW payload, NEW m,
         m = [cmd |-> RKX_C_EVENT.kernel,
              attrs |-> <<nla_put("EVENT", <<nla_put(type, payload)>>)>>]
  PROVE  LET evt == rkx_nla_parse(Get(rkx_nla_parse(m.attrs), "EVENT", <<>>)) IN
         /\ m.cmd = RKX_C_EVENT.client
         /\ \A f \in {"BINDER", "SIGNAL", "NETWORK"} : Found(evt, f) <=> f = type
         /\ Get(evt, type, <<>>) = payload
<1> DEFINE inner == <<nla_put(type, payload)>>
           outer == <<nla_put("EVENT", inner)>>
<1>1. /\ m.cmd = RKX_C_EVENT.client /\ m.attrs = outer
  <2>1. RKX_C_EVENT.kernel = RKX_C_EVENT.client
    BY SMT DEF RKX_C_EVENT
  <2>2. m.cmd = RKX_C_EVENT.kernel /\ m.attrs = outer
    BY Zenon
  <2> QED
    BY Zenon, <2>1, <2>2
<1>2. /\ nla_put("EVENT", inner).type = uapi_attr["EVENT"] /\ uapi_attr["EVENT"] \in 1 .. 49
      /\ nla_put("EVENT", inner).value = inner
  BY SMT DEF nla_put, rkx_genl_attr, uapi_attr
<1>3. /\ nla_put(type, payload).type = uapi_attr[type] /\ uapi_attr[type] \in 1 .. 49
      /\ nla_put(type, payload).value = payload
  BY SMT DEF nla_put, rkx_genl_attr, uapi_attr
<1>4. \A f \in {"BINDER", "SIGNAL", "NETWORK"} : f # type => uapi_attr[f] # uapi_attr[type]
  BY SMT DEF uapi_attr
<1>5. Get(rkx_nla_parse(outer), "EVENT", <<>>) = inner
  BY Zenon, ParseOne, <1>2
<1>6. Found(rkx_nla_parse(inner), type) /\ Get(rkx_nla_parse(inner), type, <<>>) = payload
  BY Zenon, ParseOne, <1>3
<1>7. ASSUME NEW f \in {"BINDER", "SIGNAL", "NETWORK"}, f # type
      PROVE  ~Found(rkx_nla_parse(inner), f)
  <2>1. \A j \in DOMAIN inner : inner[j].type # uapi_attr[f]
    <3>1. \A j \in DOMAIN inner : inner[j] = nla_put(type, payload)
      BY SMT
    <3> QED
      BY Zenon, <3>1, <1>3, <1>4, <1>7
  <2> QED
    BY Zenon, <2>1, ParseMisses
<1> QED
  BY Zenon, <1>1, <1>5, <1>6, <1>7

(* What rkx_nla_parse finds in a nest whose attributes are numbered one    *)
(* after the other.                                                        *)
LEMMA RowRead ==
  ASSUME NEW attrs, NEW n \in Nat, DOMAIN attrs = 1 .. n,
         NEW base \in Nat, base + n <= 49, \A j \in 1 .. n : attrs[j].type = base + j
  PROVE  \A f, d : \A i \in 1 .. n : uapi_attr[f] = base + i =>
           Get(rkx_nla_parse(attrs), f, d) = attrs[i].value
<1> SUFFICES ASSUME NEW f, NEW d, NEW i \in 1 .. n, uapi_attr[f] = base + i
             PROVE  Get(rkx_nla_parse(attrs), f, d) = attrs[i].value
  BY Zenon
<1>1. /\ i \in DOMAIN attrs /\ i \in Int /\ attrs[i].type = uapi_attr[f]
      /\ uapi_attr[f] \in 1 .. 49
      /\ \A j \in DOMAIN attrs : attrs[j].type = uapi_attr[f] => j = i
  BY SMT
<1> QED
  BY Zenon, <1>1, ParseFinds

(* The client reads the event that the kernel encoded: a binder event ...  *)
LEMMA BinderRead ==
  ASSUME NEW u, NEW e, e = [type |-> "BINDER", u |-> u],
         u.BINDER_RPC_NAME = <<u.BINDER_RPC_NAME[1], u.BINDER_RPC_NAME[2]>>,
         u.BINDER_RPC_NAME[2] \in 0 .. 140
  PROVE  handle_event(Encode(e)) =
           {<<"BINDER", <<u.BINDER_TYPE, u.BINDER_ONEWAY, u.BINDER_FROM_UID, u.BINDER_FROM_PID,
                          u.BINDER_TARGET_UID, u.BINDER_TARGET_PID, u.BINDER_RPC_NAME,
                          u.BINDER_CODE>> >>}
<1> DEFINE payload == [i \in DOMAIN PutOrder["BINDER"] |->
                         nla_put(PutOrder["BINDER"][i], u[PutOrder["BINDER"][i]])]
           tb == rkx_nla_parse(payload)
           m == Encode(e)
           evt == rkx_nla_parse(Get(rkx_nla_parse(m.attrs), "EVENT", <<>>))
<1>1. m = [cmd |-> RKX_C_EVENT.kernel,
           attrs |-> <<nla_put("EVENT", <<nla_put("BINDER", payload)>>)>>]
  BY Zenon DEF Encode
<1>2. /\ m.cmd = RKX_C_EVENT.client
      /\ \A f \in {"BINDER", "SIGNAL", "NETWORK"} : Found(evt, f) <=> f = "BINDER"
      /\ Get(evt, "BINDER", <<>>) = payload
  BY Zenon, <1>1, NestsRead
<1>3. handle_event(m) = {<<"BINDER", handle_binder_event(tb)>>}
  <2>1. Found(evt, "BINDER") /\ ~Found(evt, "SIGNAL") /\ ~Found(evt, "NETWORK")
    BY Zenon, <1>2
  <2> QED
    BY Zenon, <1>2, <2>1 DEF handle_event
<1>4. DOMAIN payload = 1 .. 8 /\ \A j \in 1 .. 8 : payload[j].type = 10 + j
  <2>1. DOMAIN PutOrder["BINDER"] = 1 .. 8
    BY SMT DEF PutOrder
  <2>2. \A j \in 1 .. 8 : payload[j].type = rkx_genl_attr[PutOrder["BINDER"][j]]
    BY Zenon, <2>1 DEF nla_put
  <2> QED
    BY Zenon, <2>1, <2>2, Numbering
<1>5. /\ payload[1].value = u.BINDER_TYPE
      /\ payload[2].value = u.BINDER_ONEWAY
      /\ payload[3].value = u.BINDER_FROM_PID
      /\ payload[4].value = u.BINDER_FROM_UID
      /\ payload[5].value = u.BINDER_TARGET_PID
      /\ payload[6].value = u.BINDER_TARGET_UID
      /\ payload[7].value = u.BINDER_CODE
      /\ payload[8].value = u.BINDER_RPC_NAME
  <2>1. /\ DOMAIN PutOrder["BINDER"] = 1 .. 8
        /\ PutOrder["BINDER"][1] = "BINDER_TYPE"
        /\ PutOrder["BINDER"][2] = "BINDER_ONEWAY"
        /\ PutOrder["BINDER"][3] = "BINDER_FROM_PID"
        /\ PutOrder["BINDER"][4] = "BINDER_FROM_UID"
        /\ PutOrder["BINDER"][5] = "BINDER_TARGET_PID"
        /\ PutOrder["BINDER"][6] = "BINDER_TARGET_UID"
        /\ PutOrder["BINDER"][7] = "BINDER_CODE"
        /\ PutOrder["BINDER"][8] = "BINDER_RPC_NAME"
    BY SMT DEF PutOrder
  <2>2. \A j \in 1 .. 8 : payload[j].value = u[PutOrder["BINDER"][j]]
    BY Zenon, <2>1 DEF nla_put
  <2>3. {1, 2, 3, 4, 5, 6, 7, 8} \subseteq 1 .. 8
    BY SMT
  <2> QED
    BY Zenon, <2>1, <2>2, <2>3
<1>6. /\ uapi_attr["BINDER_TYPE"] = 10 + 1
      /\ uapi_attr["BINDER_ONEWAY"] = 10 + 2
      /\ uapi_attr["BINDER_FROM_PID"] = 10 + 3
      /\ uapi_attr["BINDER_FROM_UID"] = 10 + 4
      /\ uapi_attr["BINDER_TARGET_PID"] = 10 + 5
      /\ uapi_attr["BINDER_TARGET_UID"] = 10 + 6
      /\ uapi_attr["BINDER_CODE"] = 10 + 7
      /\ uapi_attr["BINDER_RPC_NAME"] = 10 + 8
  BY SMT DEF uapi_attr
<1> HIDE DEF payload
<1>7. \A f, d : \A i \in 1 .. 8 : uapi_attr[f] = 10 + i => Get(tb, f, d) = payload[i].value
  <2>1. 8 \in Nat /\ 10 \in Nat /\ 10 + 8 <= 49
    BY SMT
  <2> QED
    BY Zenon, <1>4, <2>1, RowRead
<1> HIDE DEF tb
<1>8. \A d : /\ Get(tb, "BINDER_TYPE", d) = u.BINDER_TYPE
           /\ Get(tb, "BINDER_ONEWAY", d) = u.BINDER_ONEWAY
           /\ Get(tb, "BINDER_FROM_PID", d) = u.BINDER_FROM_PID
           /\ Get(tb, "BINDER_FROM_UID", d) = u.BINDER_FROM_UID
           /\ Get(tb, "BINDER_TARGET_PID", d) = u.BINDER_TARGET_PID
           /\ Get(tb, "BINDER_TARGET_UID", d) = u.BINDER_TARGET_UID
           /\ Get(tb, "BINDER_CODE", d) = u.BINDER_CODE
           /\ Get(tb, "BINDER_RPC_NAME", d) = u.BINDER_RPC_NAME
  <2>1. {1, 2, 3, 4, 5, 6, 7, 8} \subseteq 1 .. 8
    BY SMT
  <2>2. \A d : Get(tb, "BINDER_TYPE", d) = u.BINDER_TYPE
    BY SMT, <1>5, <1>6, <1>7, <2>1
  <2>3. \A d : Get(tb, "BINDER_ONEWAY", d) = u.BINDER_ONEWAY
    BY SMT, <1>5, <1>6, <1>7, <2>1
  <2>4. \A d : Get(tb, "BINDER_FROM_PID", d) = u.BINDER_FROM_PID
    BY SMT, <1>5, <1>6, <1>7, <2>1
  <2>5. \A d : Get(tb, "BINDER_FROM_UID", d) = u.BINDER_FROM_UID
    BY SMT, <1>5, <1>6, <1>7, <2>1
  <2>6. \A d : Get(tb, "BINDER_TARGET_PID", d) = u.BINDER_TARGET_PID
    BY SMT, <1>5, <1>6, <1>7, <2>1
  <2>7. \A d : Get(tb, "BINDER_TARGET_UID", d) = u.BINDER_TARGET_UID
    BY SMT, <1>5, <1>6, <1>7, <2>1
  <2>8. \A d : Get(tb, "BINDER_CODE", d) = u.BINDER_CODE
    BY SMT, <1>5, <1>6, <1>7, <2>1
  <2>9. \A d : Get(tb, "BINDER_RPC_NAME", d) = u.BINDER_RPC_NAME
    BY SMT, <1>5, <1>6, <1>7, <2>1
  <2> QED
    BY Zenon, <2>2, <2>3, <2>4, <2>5, <2>6, <2>7, <2>8, <2>9
<1>9. Smaller(u.BINDER_RPC_NAME[2], RKX_RPC_NAME_LEN) = u.BINDER_RPC_NAME[2]
  BY SMT DEF Smaller, RKX_RPC_NAME_LEN
<1> QED
  BY Zenon, <1>3, <1>8, <1>9 DEF handle_binder_event, Number

(* ... a signal event ... *)
LEMMA SignalRead ==
  ASSUME NEW u, NEW e, e = [type |-> "SIGNAL", u |-> u]
  PROVE  handle_event(Encode(e)) =
           {<<"SIGNAL", <<u.SIGNAL_SIGNAL, u.SIGNAL_KILLER_UID, u.SIGNAL_KILLER_PID,
                          u.SIGNAL_DST_UID, u.SIGNAL_DST_PID>> >>}
<1> DEFINE payload == [i \in DOMAIN PutOrder["SIGNAL"] |->
                         nla_put(PutOrder["SIGNAL"][i], u[PutOrder["SIGNAL"][i]])]
           tb == rkx_nla_parse(payload)
           m == Encode(e)
           evt == rkx_nla_parse(Get(rkx_nla_parse(m.attrs), "EVENT", <<>>))
<1>1. m = [cmd |-> RKX_C_EVENT.kernel,
           attrs |-> <<nla_put("EVENT", <<nla_put("SIGNAL", payload)>>)>>]
  BY Zenon DEF Encode
<1>2. /\ m.cmd = RKX_C_EVENT.client
      /\ \A f \in {"BINDER", "SIGNAL", "NETWORK"} : Found(evt, f) <=> f = "SIGNAL"
      /\ Get(evt, "SIGNAL", <<>>) = payload
  BY Zenon, <1>1, NestsRead
<1>3. handle_event(m) = {<<"SIGNAL", handle_signal_event(tb)>>}
  <2>1. Found(evt, "SIGNAL") /\ ~Found(evt, "BINDER") /\ ~Found(evt, "NETWORK")
    BY Zenon, <1>2
  <2> QED
    BY Zenon, <1>2, <2>1 DEF handle_event
<1>4. DOMAIN payload = 1 .. 5 /\ \A j \in 1 .. 5 : payload[j].type = 20 + j
  <2>1. DOMAIN PutOrder["SIGNAL"] = 1 .. 5
    BY SMT DEF PutOrder
  <2>2. \A j \in 1 .. 5 : payload[j].type = rkx_genl_attr[PutOrder["SIGNAL"][j]]
    BY Zenon, <2>1 DEF nla_put
  <2> QED
    BY Zenon, <2>1, <2>2, Numbering
<1>5. /\ payload[1].value = u.SIGNAL_SIGNAL
      /\ payload[2].value = u.SIGNAL_KILLER_PID
      /\ payload[3].value = u.SIGNAL_KILLER_UID
      /\ payload[4].value = u.SIGNAL_DST_PID
      /\ payload[5].value = u.SIGNAL_DST_UID
  <2>1. /\ DOMAIN PutOrder["SIGNAL"] = 1 .. 5
        /\ PutOrder["SIGNAL"][1] = "SIGNAL_SIGNAL"
        /\ PutOrder["SIGNAL"][2] = "SIGNAL_KILLER_PID"
        /\ PutOrder["SIGNAL"][3] = "SIGNAL_KILLER_UID"
        /\ PutOrder["SIGNAL"][4] = "SIGNAL_DST_PID"
        /\ PutOrder["SIGNAL"][5] = "SIGNAL_DST_UID"
    BY SMT DEF PutOrder
  <2>2. \A j \in 1 .. 5 : payload[j].value = u[PutOrder["SIGNAL"][j]]
    BY Zenon, <2>1 DEF nla_put
  <2>3. {1, 2, 3, 4, 5} \subseteq 1 .. 5
    BY SMT
  <2> QED
    BY Zenon, <2>1, <2>2, <2>3
<1>6. /\ uapi_attr["SIGNAL_SIGNAL"] = 20 + 1
      /\ uapi_attr["SIGNAL_KILLER_PID"] = 20 + 2
      /\ uapi_attr["SIGNAL_KILLER_UID"] = 20 + 3
      /\ uapi_attr["SIGNAL_DST_PID"] = 20 + 4
      /\ uapi_attr["SIGNAL_DST_UID"] = 20 + 5
  BY SMT DEF uapi_attr
<1> HIDE DEF payload
<1>7. \A f, d : \A i \in 1 .. 5 : uapi_attr[f] = 20 + i => Get(tb, f, d) = payload[i].value
  <2>1. 5 \in Nat /\ 20 \in Nat /\ 20 + 5 <= 49
    BY SMT
  <2> QED
    BY Zenon, <1>4, <2>1, RowRead
<1> HIDE DEF tb
<1>8. \A d : /\ Get(tb, "SIGNAL_SIGNAL", d) = u.SIGNAL_SIGNAL
           /\ Get(tb, "SIGNAL_KILLER_PID", d) = u.SIGNAL_KILLER_PID
           /\ Get(tb, "SIGNAL_KILLER_UID", d) = u.SIGNAL_KILLER_UID
           /\ Get(tb, "SIGNAL_DST_PID", d) = u.SIGNAL_DST_PID
           /\ Get(tb, "SIGNAL_DST_UID", d) = u.SIGNAL_DST_UID
  <2>1. {1, 2, 3, 4, 5} \subseteq 1 .. 5
    BY SMT
  <2>2. \A d : Get(tb, "SIGNAL_SIGNAL", d) = u.SIGNAL_SIGNAL
    BY SMT, <1>5, <1>6, <1>7, <2>1
  <2>3. \A d : Get(tb, "SIGNAL_KILLER_PID", d) = u.SIGNAL_KILLER_PID
    BY SMT, <1>5, <1>6, <1>7, <2>1
  <2>4. \A d : Get(tb, "SIGNAL_KILLER_UID", d) = u.SIGNAL_KILLER_UID
    BY SMT, <1>5, <1>6, <1>7, <2>1
  <2>5. \A d : Get(tb, "SIGNAL_DST_PID", d) = u.SIGNAL_DST_PID
    BY SMT, <1>5, <1>6, <1>7, <2>1
  <2>6. \A d : Get(tb, "SIGNAL_DST_UID", d) = u.SIGNAL_DST_UID
    BY SMT, <1>5, <1>6, <1>7, <2>1
  <2> QED
    BY Zenon, <2>2, <2>3, <2>4, <2>5, <2>6
<1> QED
  BY Zenon, <1>3, <1>8 DEF handle_signal_event, Number

(* ... and a network event. *)
LEMMA NetworkRead ==
  ASSUME NEW u, NEW e, e = [type |-> "NETWORK", u |-> u]
  PROVE  handle_event(Encode(e)) =
           {<<"NETWORK", <<u.NETWORK_PROTO, u.NETWORK_TARGET_UID, u.NETWORK_DATA_LEN>> >>}
<1> DEFINE payload == [i \in DOMAIN PutOrder["NETWORK"] |->
                         nla_put(PutOrder["NETWORK"][i], u[PutOrder["NETWORK"][i]])]
           tb == rkx_nla_parse(payload)
           m == Encode(e)
           evt == rkx_nla_parse(Get(rkx_nla_parse(m.attrs), "EVENT", <<>>))
<1>1. m = [cmd |-> RKX_C_EVENT.kernel,
           attrs |-> <<nla_put("EVENT", <<nla_put("NETWORK", payload)>>)>>]
  BY Zenon DEF Encode
<1>2. /\ m.cmd = RKX_C_EVENT.client
      /\ \A f \in {"BINDER", "SIGNAL", "NETWORK"} : Found(evt, f) <=> f = "NETWORK"
      /\ Get(evt, "NETWORK", <<>>) = payload
  BY Zenon, <1>1, NestsRead
<1>3. handle_event(m) = {<<"NETWORK", handle_network_event(tb)>>}
  <2>1. Found(evt, "NETWORK") /\ ~Found(evt, "BINDER") /\ ~Found(evt, "SIGNAL")
    BY Zenon, <1>2
  <2> QED
    BY Zenon, <1>2, <2>1 DEF handle_event
<1>4. DOMAIN payload = 1 .. 3 /\ \A j \in 1 .. 3 : payload[j].type = 30 + j
  <2>1. DOMAIN PutOrder["NETWORK"] = 1 .. 3
    BY SMT DEF PutOrder
  <2>2. \A j \in 1 .. 3 : payload[j].type = rkx_genl_attr[PutOrder["NETWORK"][j]]
    BY Zenon, <2>1 DEF nla_put
  <2> QED
    BY Zenon, <2>1, <2>2, Numbering
<1>5. /\ payload[1].value = u.NETWORK_PROTO
      /\ payload[2].value = u.NETWORK_TARGET_UID
      /\ payload[3].value = u.NETWORK_DATA_LEN
  <2>1. /\ DOMAIN PutOrder["NETWORK"] = 1 .. 3
        /\ PutOrder["NETWORK"][1] = "NETWORK_PROTO"
        /\ PutOrder["NETWORK"][2] = "NETWORK_TARGET_UID"
        /\ PutOrder["NETWORK"][3] = "NETWORK_DATA_LEN"
    BY SMT DEF PutOrder
  <2>2. \A j \in 1 .. 3 : payload[j].value = u[PutOrder["NETWORK"][j]]
    BY Zenon, <2>1 DEF nla_put
  <2>3. {1, 2, 3} \subseteq 1 .. 3
    BY SMT
  <2> QED
    BY Zenon, <2>1, <2>2, <2>3
<1>6. /\ uapi_attr["NETWORK_PROTO"] = 30 + 1
      /\ uapi_attr["NETWORK_TARGET_UID"] = 30 + 2
      /\ uapi_attr["NETWORK_DATA_LEN"] = 30 + 3
  BY SMT DEF uapi_attr
<1> HIDE DEF payload
<1>7. \A f, d : \A i \in 1 .. 3 : uapi_attr[f] = 30 + i => Get(tb, f, d) = payload[i].value
  <2>1. 3 \in Nat /\ 30 \in Nat /\ 30 + 3 <= 49
    BY SMT
  <2> QED
    BY Zenon, <1>4, <2>1, RowRead
<1> HIDE DEF tb
<1>8. \A d : /\ Get(tb, "NETWORK_PROTO", d) = u.NETWORK_PROTO
           /\ Get(tb, "NETWORK_TARGET_UID", d) = u.NETWORK_TARGET_UID
           /\ Get(tb, "NETWORK_DATA_LEN", d) = u.NETWORK_DATA_LEN
  <2>1. {1, 2, 3} \subseteq 1 .. 3
    BY SMT
  <2>2. \A d : Get(tb, "NETWORK_PROTO", d) = u.NETWORK_PROTO
    BY SMT, <1>5, <1>6, <1>7, <2>1
  <2>3. \A d : Get(tb, "NETWORK_TARGET_UID", d) = u.NETWORK_TARGET_UID
    BY SMT, <1>5, <1>6, <1>7, <2>1
  <2>4. \A d : Get(tb, "NETWORK_DATA_LEN", d) = u.NETWORK_DATA_LEN
    BY SMT, <1>5, <1>6, <1>7, <2>1
  <2> QED
    BY Zenon, <2>2, <2>3, <2>4
<1> QED
  BY Zenon, <1>3, <1>8 DEF handle_network_event, Number

(* There is room for the attributes of an event in the message. *)
LEMMA LengthFits ==
  ASSUME NEW e, e.type \in {"BINDER", "SIGNAL", "NETWORK"},
         e.type = "BINDER" => e.u.BINDER_RPC_NAME[2] \in 0 .. 140
  PROVE  ~(MessageLen(e) > nla_total_size(256))
<1> DEFINE numbers == IF e.type = "BINDER" THEN Len(PutOrder.BINDER) - 1 ELSE Len(PutOrder[e.type])
           name == IF e.type = "BINDER" THEN nla_total_size(e.u.BINDER_RPC_NAME[2] + 1) ELSE 0
<1>1. numbers \in 0 .. 8
  BY SMT DEF PutOrder
<1>2. nla_total_size(4) = 8 /\ nla_total_size(256) = 260 /\ NLA_HDRLEN = 4
  BY SMT DEF nla_total_size, NLA_ALIGN, NLA_HDRLEN
<1>3. name \in 0 .. 148
  BY SMT DEF nla_total_size, NLA_ALIGN, NLA_HDRLEN
<1>4. MessageLen(e) = 2 * NLA_HDRLEN + nla_total_size(4) * numbers + name
  BY Zenon DEF MessageLen
<1> HIDE DEF numbers, name
<1> QED
  BY SMT, <1>1, <1>2, <1>3, <1>4

(* A binder event as a hook fills it in, and what should be heard of it. *)
Filled(k, t, type, oneway, text, n, code) ==
  [type |-> "BINDER", u |-> BinderEvent(k, t, type, oneway, code, <<text, n>>)]
Heard(k, t, type, oneway, text, n, code) ==
  <<"BINDER", <<rkx_binder_type[type], oneway, uid[k.from], pid[k.from], uid[t], pid[t],
                <<text, n>>, code>> >>

(* A binder event is read as it was filled in. *)
LEMMA BinderTold ==
  ASSUME NEW k, NEW t, NEW type, NEW oneway, NEW text, NEW n \in 0 .. 140, NEW code
  PROVE  /\ handle_event(Encode(Filled(k, t, type, oneway, text, n, code))) =
              {Heard(k, t, type, oneway, text, n, code)}
         /\ ~(MessageLen(Filled(k, t, type, oneway, text, n, code)) > nla_total_size(256))
<1> DEFINE e == Filled(k, t, type, oneway, text, n, code)
<1> DEFINE u == BinderEvent(k, t, type, oneway, code, <<text, n>>)
<1>1. /\ u.BINDER_TYPE = rkx_binder_type[type] /\ u.BINDER_ONEWAY = oneway
      /\ u.BINDER_FROM_PID = pid[k.from] /\ u.BINDER_FROM_UID = uid[k.from]
      /\ u.BINDER_TARGET_PID = pid[t] /\ u.BINDER_TARGET_UID = uid[t]
      /\ u.BINDER_CODE = code /\ u.BINDER_RPC_NAME = <<text, n>>
  BY Zenon DEF BinderEvent
<1>2. <<text, n>>[1] = text /\ <<text, n>>[2] = n
  BY SMT
<1>3. e = [type |-> "BINDER", u |-> u]
  BY Zenon DEF Filled
<1> HIDE DEF u, e
<1>4. e.type = "BINDER" /\ e.u = u
  BY Zenon, <1>3
<1>5. /\ u.BINDER_RPC_NAME = <<u.BINDER_RPC_NAME[1], u.BINDER_RPC_NAME[2]>>
      /\ u.BINDER_RPC_NAME[2] \in 0 .. 140
  BY Zenon, <1>1, <1>2
<1>6. handle_event(Encode(e)) =
           {<<"BINDER", <<u.BINDER_TYPE, u.BINDER_ONEWAY, u.BINDER_FROM_UID, u.BINDER_FROM_PID,
                          u.BINDER_TARGET_UID, u.BINDER_TARGET_PID, u.BINDER_RPC_NAME,
                          u.BINDER_CODE>> >>}
  BY Zenon, <1>3, <1>5, BinderRead
<1>7. ~(MessageLen(e) > nla_total_size(256))
  <2>1. /\ e.type \in {"BINDER", "SIGNAL", "NETWORK"}
        /\ e.type = "BINDER" => e.u.BINDER_RPC_NAME[2] \in 0 .. 140
    BY Zenon, <1>4, <1>5
  <2> QED
    BY SMT, <2>1, LengthFits
<1> QED
  BY Zenon, <1>1, <1>6, <1>7 DEF e, Heard

(* The application hears what happened, and no event is too long. *)
LEMMA EventTold ==
  ASSUME NEW k \in Calls, NEW t, NEW e, e = Event(k, t)
  PROVE  /\ handle_event(Encode(e)) = {Told(k, t)}
         /\ ~(MessageLen(e) > nla_total_size(256))
<1>1. CASE k.hook = "network"
  <2> DEFINE u == NetworkEvent(k)
  <2>1. e = [type |-> "NETWORK", u |-> u] /\ Told(k, t) = <<"NETWORK", <<k.proto, k.target_uid, k.data_len>> >>
    BY SMT, <1>1 DEF Event, Told, IsAsyncTrans
  <2>2. u.NETWORK_PROTO = k.proto /\ u.NETWORK_TARGET_UID = k.target_uid /\ u.NETWORK_DATA_LEN = k.data_len
    BY Zenon DEF NetworkEvent
  <2> HIDE DEF u
  <2>3. e.type \in {"BINDER", "SIGNAL", "NETWORK"} /\ e.type # "BINDER"
    BY SMT, <2>1
  <2>4. handle_event(Encode(e)) =
          {<<"NETWORK", <<u.NETWORK_PROTO, u.NETWORK_TARGET_UID, u.NETWORK_DATA_LEN>> >>}
    BY Zenon, <2>1, NetworkRead
  <2>5. ~(MessageLen(e) > nla_total_size(256))
    BY SMT, <2>3, LengthFits
  <2> QED
    BY Zenon, <2>1, <2>2, <2>4, <2>5
<1>2. CASE k.hook = "signal"
  <2> DEFINE u == SignalEvent(k, t)
  <2>1. /\ e = [type |-> "SIGNAL", u |-> u]
        /\ Told(k, t) = <<"SIGNAL", <<k.sig, uid[k.from], pid[k.from], uid[t], pid[t]>> >>
    BY SMT, <1>2 DEF Event, Told, IsAsyncTrans
  <2>2. /\ u.SIGNAL_SIGNAL = k.sig
        /\ u.SIGNAL_KILLER_PID = pid[k.from] /\ u.SIGNAL_KILLER_UID = uid[k.from]
        /\ u.SIGNAL_DST_PID = pid[t] /\ u.SIGNAL_DST_UID = uid[t]
    BY Zenon DEF SignalEvent
  <2> HIDE DEF u
  <2>3. e.type \in {"BINDER", "SIGNAL", "NETWORK"} /\ e.type # "BINDER"
    BY SMT, <2>1
  <2>4. handle_event(Encode(e)) =
          {<<"SIGNAL", <<u.SIGNAL_SIGNAL, u.SIGNAL_KILLER_UID, u.SIGNAL_KILLER_PID,
                         u.SIGNAL_DST_UID, u.SIGNAL_DST_PID>> >>}
    BY Zenon, <2>1, SignalRead
  <2>5. ~(MessageLen(e) > nla_total_size(256))
    BY SMT, <2>3, LengthFits
  <2> QED
    BY Zenon, <2>1, <2>2, <2>4, <2>5
<1>3. 16 \in 0 .. 140 /\ 17 \in 0 .. 140 /\ 11 \in 0 .. 140
  BY SMT
<1>4. CASE k.hook = "alloc_buf"
  <2>1. e = Filled(k, t, "alloc_buf", 1, "FREE_BUFFER_FULL", 16, -1)
    BY SMT, <1>4 DEF Event, IsAsyncTrans, AllocBufEvent, Filled
  <2>2. Told(k, t) = Heard(k, t, "alloc_buf", 1, "FREE_BUFFER_FULL", 16, -1)
    BY SMT, <1>4 DEF Told, IsAsyncTrans, Heard
  <2>3. /\ handle_event(Encode(Filled(k, t, "alloc_buf", 1, "FREE_BUFFER_FULL", 16, -1))) =
             {Heard(k, t, "alloc_buf", 1, "FREE_BUFFER_FULL", 16, -1)}
        /\ ~(MessageLen(Filled(k, t, "alloc_buf", 1, "FREE_BUFFER_FULL", 16, -1)) > nla_total_size(256))
    BY Zenon, <1>3, BinderTold
  <2> QED
    BY Zenon, <2>1, <2>2, <2>3
<1>5. CASE k.hook = "reply"
  <2>1. e = Filled(k, t, "reply", 0, "SYNC_BINDER_REPLY", 17, -1)
    BY SMT, <1>5 DEF Event, IsAsyncTrans, ReplyEvent, Filled
  <2>2. Told(k, t) = Heard(k, t, "reply", 0, "SYNC_BINDER_REPLY", 17, -1)
    BY SMT, <1>5 DEF Told, IsAsyncTrans, Heard
  <2>3. /\ handle_event(Encode(Filled(k, t, "reply", 0, "SYNC_BINDER_REPLY", 17, -1))) =
             {Heard(k, t, "reply", 0, "SYNC_BINDER_REPLY", 17, -1)}
        /\ ~(MessageLen(Filled(k, t, "reply", 0, "SYNC_BINDER_REPLY", 17, -1)) > nla_total_size(256))
    BY Zenon, <1>3, BinderTold
  <2> QED
    BY Zenon, <2>1, <2>2, <2>3
<1>6. CASE k.hook = "trans" /\ IsAsyncTrans(k)
  <2>1. k.token \in Nat /\ k.data_size \in Nat
    BY SMT, <1>6, CallAssumption
  <2>2. e = Filled(k, t, "trans", 1, "token", TokenChars(k), k.code)
    BY SMT, <1>6 DEF Event, AsyncTransEvent, Filled
  <2>3. Told(k, t) = Heard(k, t, "trans", 1, "token", TokenChars(k), k.code)
    <3>1. TokenChars(k) = rkx_parse_interface_token(k)
      BY Zenon, <2>1, TokenSame
    <3>2. Told(k, t) = Heard(k, t, "trans", 1, "token", rkx_parse_interface_token(k), k.code)
      BY SMT, <1>6 DEF Told, Heard
    <3> QED
      BY Zenon, <3>1, <3>2
  <2>4. TokenChars(k) \in 0 .. 140
    <3>1. TokenChars(k) \in 0 .. 62
      BY Zenon, <2>1, TokenSame
    <3> QED
      BY SMT, <3>1
  <2>5. /\ handle_event(Encode(Filled(k, t, "trans", 1, "token", TokenChars(k), k.code))) =
             {Heard(k, t, "trans", 1, "token", TokenChars(k), k.code)}
        /\ ~(MessageLen(Filled(k, t, "trans", 1, "token", TokenChars(k), k.code)) > nla_total_size(256))
    BY Zenon, <2>4, BinderTold
  <2> QED
    BY Zenon, <2>2, <2>3, <2>5
<1>7. CASE k.hook = "trans" /\ ~IsAsyncTrans(k)
  <2>1. e = Filled(k, t, "trans", 0, "SYNC_BINDER", 11, -1)
    BY SMT, <1>7 DEF Event, SyncTransEvent, Filled
  <2>2. Told(k, t) = Heard(k, t, "trans", 0, "SYNC_BINDER", 11, -1)
    BY SMT, <1>7 DEF Told, Heard
  <2>3. /\ handle_event(Encode(Filled(k, t, "trans", 0, "SYNC_BINDER", 11, -1))) =
             {Heard(k, t, "trans", 0, "SYNC_BINDER", 11, -1)}
        /\ ~(MessageLen(Filled(k, t, "trans", 0, "SYNC_BINDER", 11, -1)) > nla_total_size(256))
    BY Zenon, <1>3, BinderTold
  <2> QED
    BY Zenon, <2>1, <2>2, <2>3
<1> QED
  BY Zenon, <1>1, <1>2, <1>4, <1>5, <1>6, <1>7, CallAssumption
-----------------------------------------------------------------------------
(* The invariant *)

Lives == {"unborn", "running", "zombie", "reaped", "freed"}
Checking == {"frozen1", "frozen2", "frozen3", "frozen4"}
Working == Checking \cup {"copy", "send"}
Freezer == {"cgroup", "pm"}

Born(t) == life[t] # "unborn"
Local(k) == k.hook # "network"
Elements(q) == {q[i] : i \in DOMAIN q}

Types ==
  /\ life \in [Task -> Lives] /\ DOMAIN pid = Task
  /\ DOMAIN bits = Task /\ DOMAIN grace = Task
  /\ at \in [Cpu -> Working \cup {"idle", "find", "return"}]
  /\ DOMAIN call = Cpu /\ DOMAIN task = Cpu /\ DOMAIN outcome = Cpu
  /\ DOMAIN since = Cpu /\ DOMAIN touched = Cpu
  /\ queue \in Seq(Elements(queue))

\* A pid is that of one process at a time, and only a running one has
\* freezer bits.
Pids == \A t, u \in Task : Hashed(t) /\ Hashed(u) /\ pid[t] = pid[u] => t = u
Bits == \A t \in Task : bits[t] # {} => life[t] = "running"

\* The task that the hook on c looks at is the target of the call, or was
\* found by its pid, and then the grace period of its release waits for c.
Kept(c, t) == Hashed(t) \/ (life[t] = "reaped" /\ c \in grace[t])
Target(c) ==
  task[c] = call[c].to \/ (~Hashed(call[c].to) /\ Born(task[c]) /\ Kept(c, task[c]))

\* The hook of a call between two processes holds both.
Held(c) ==
  InHook(c) =>
    /\ call[c] \in Calls
    /\ Local(call[c]) => Born(call[c].from) /\ life[call[c].to] \notin {"unborn", "freed"}

Looked(c) ==
  /\ at[c] \in Checking \cup {"find", "copy"} => Local(call[c])
  /\ at[c] = "find" => task[c] = NONE
  /\ at[c] = "send" /\ ~Local(call[c]) => task[c] = NONE
  /\ at[c] = "copy" => IsAsyncTrans(call[c])
  /\ at[c] \in Working /\ Local(call[c]) => task[c] \in Task /\ Target(c)

\* The histories: what stands is still requested, what has a bit was touched.
Stands(c) == \A t \in Task, f \in Freezer : <<t, f>> \in since[c] => Request[f] \in bits[t]
Touched(c) ==
  InHook(c) => /\ \A t \in Task : bits[t] # {} => t \in touched[c]
               /\ at[c] \in {"copy", "send"} /\ Local(call[c]) => task[c] \in touched[c]

\* A request that stands was seen when its bit was read.
Unread(c) == at[c] \in {"frozen3", "frozen4"} => <<task[c], "cgroup">> \notin since[c]
Reported(c) ==
  at[c] = "return" /\ Watched(call[c]) =>
    \/ outcome[c] \in {"sent", "no_memory"}
    \/ outcome[c] = "fault" /\ IsAsyncTrans(call[c])
    \/ Local(call[c]) /\ \A f \in Freezer : <<call[c].to, f>> \notin since[c]

CpuInv(c) == Held(c) /\ Looked(c) /\ Stands(c) /\ Touched(c) /\ Unread(c) /\ Reported(c)

\* What is said about call k on task t stays true.
Settled(about) ==
  /\ about.call \in Calls
  /\ Local(about.call) => /\ about.frozen /\ about.owner
                          /\ {about.call.from, about.task} \subseteq Task
                          /\ Born(about.call.from) /\ Born(about.task)
TrueOf(about, called) == Settled(about) /\ called = {Told(about.call, about.task)}

Messages ==
  /\ \A m \in Elements(queue) : TrueOf(m.about, handle_event(m.msg))
  /\ heard # NONE => TrueOf(heard.about, heard.called)

EInv == Types /\ Pids /\ Bits /\ (\A c \in Cpu : CpuInv(c)) /\ Messages

-----------------------------------------------------------------------------
(* What the steps keep *)

(* A call between processes names two of them. *)
LEMMA CallParts ==
  ASSUME NEW k \in Calls, Local(k)
  PROVE  k.from \in Task /\ k.to \in Task
BY Zenon, CallAssumption DEF Local

(* The bits that ask a task to freeze and the bits that say it has. *)
LEMMA FreezerBits ==
  /\ \A f, g \in Freezer : (Request[f] = Request[g] => f = g) /\ Request[f] # Arrival[g]
  /\ Request["cgroup"] = "trap_freeze" /\ Request["pm"] = "freezing"
BY SMT DEF Freezer, Request, Arrival

(* A process that was there once keeps its pid for what remembers it, and  *)
(* its pid is not hashed a second time.                                    *)
Grown ==
  \A t \in Task : Born(t) => Born(t)' /\ pid'[t] = pid[t] /\ (~Hashed(t) => ~Hashed(t)')

(* The hooks' conditions depend on the pids of the two parties only. *)
LEMMA WatchedStays ==
  ASSUME NEW k, pid'[k.from] = pid[k.from], pid'[k.to] = pid[k.to]
  PROVE  Watched(k)' <=> Watched(k)
BY Zenon DEF Watched, SignalWatched, ReplyWatched, TransWatched, AllocBufWatched

(* What has been said of a call stays true. *)
LEMMA SaidStays ==
  ASSUME Grown, NEW about, NEW called, TrueOf(about, called)
  PROVE  TrueOf(about, called)'
<1> DEFINE k == about.call
           t == about.task
<1>1. CASE Local(k)
  <2>1. k.from \in Task /\ t \in Task /\ Born(k.from) /\ Born(t)
    BY Zenon, <1>1 DEF TrueOf, Settled
  <2>2. pid'[k.from] = pid[k.from] /\ pid'[t] = pid[t] /\ Born(k.from)' /\ Born(t)'
    BY Zenon, <2>1 DEF Grown
  <2>3. Told(k, t)' = Told(k, t)
    BY Zenon, <2>2 DEF Told
  <2> QED
    BY Zenon, <1>1, <2>2, <2>3 DEF TrueOf, Settled
<1>2. CASE ~Local(k)
  <2>1. Told(k, t)' = Told(k, t)
    BY SMT, <1>2 DEF Told, Local, IsAsyncTrans
  <2> QED
    BY Zenon, <1>2, <2>1 DEF TrueOf, Settled
<1> QED
  BY Zenon, <1>1, <1>2

(* A step that leaves the client's socket alone keeps the messages. *)
LEMMA MessagesStay ==
  ASSUME Grown, Messages, UNCHANGED sockVars
  PROVE  Messages'
<1>1. queue' = queue /\ heard' = heard
  BY Zenon DEF sockVars
<1>2. ASSUME NEW m \in Elements(queue)
      PROVE  TrueOf(m.about, handle_event(m.msg))'
  BY Zenon, <1>2, SaidStays DEF Messages
<1>3. ASSUME heard # NONE
      PROVE  TrueOf(heard.about, heard.called)'
  BY Zenon, <1>1, <1>3, SaidStays DEF Messages
<1> QED
  BY Zenon, <1>1, <1>2, <1>3 DEF Messages, Elements

(* A step elsewhere keeps what holds for the hook on c. *)
LEMMA OtherCpu ==
  ASSUME NEW c \in Cpu, CpuInv(c),
         at'[c] = at[c], call'[c] = call[c], task'[c] = task[c], outcome'[c] = outcome[c],
         since'[c] = since[c], touched'[c] = touched[c],
         life' = life, pid' = pid, bits' = bits,
         \A t \in Task : c \in grace[t] => c \in grace'[t]
  PROVE  CpuInv(c)'
<1>1. Held(c)'
  BY Zenon DEF CpuInv, Held, InHook, Local, Born
<1>2. Looked(c)'
  BY Zenon DEF CpuInv, Looked, Local, Born, Target, Kept, Hashed, IsAsyncTrans
<1>3. Stands(c)'
  BY Zenon DEF CpuInv, Stands
<1>4. Touched(c)'
  BY Zenon DEF CpuInv, Touched, InHook, Local
<1>5. Unread(c)'
  BY Zenon DEF CpuInv, Unread
<1>6. Reported(c)'
  <2>1. Watched(call[c])' <=> Watched(call[c])
    BY Zenon, WatchedStays
  <2> QED
    BY Zenon, <2>1 DEF CpuInv, Reported, Local, IsAsyncTrans
<1> QED
  BY Zenon, <1>1, <1>2, <1>3, <1>4, <1>5, <1>6 DEF CpuInv

(* A process is born, exits, is reaped or freed: what holds for the hooks. *)
LEMMA LifeKeepsHooks ==
  ASSUME Types, Pids, Bits, NEW c \in Cpu, CpuInv(c), NEW t \in Task,
         Fork(t) \/ Exit(t) \/ Reap(t) \/ put_task_struct(t)
  PROVE  CpuInv(c)'
<1>1. /\ at' = at /\ call' = call /\ task' = task /\ outcome' = outcome /\ touched' = touched
      /\ since'[c] \subseteq since[c]
  <2>1. at' = at /\ call' = call /\ task' = task /\ outcome' = outcome /\ touched' = touched
    BY Zenon DEF Fork, Exit, Reap, put_task_struct, hookVars, histVars
  <2>2. since' = since \/ since' = [d \in Cpu |-> {r \in since[d] : r[1] # t}]
    BY Zenon DEF Fork, Exit, Reap, put_task_struct, histVars
  <2> QED
    BY Zenon, <2>1, <2>2
<1>2. /\ \A u \in Task \ {t} : life'[u] = life[u] /\ pid'[u] = pid[u] /\ bits'[u] = bits[u]
                               /\ grace'[u] = grace[u]
      /\ Born(t) => pid'[t] = pid[t]
      /\ bits'[t] \subseteq bits[t]
  BY Zenon DEF Types, Fork, Exit, Reap, put_task_struct, Born
<1>3. \/ life[t] = "unborn" /\ life'[t] = "running"
      \/ life[t] = "running" /\ life'[t] = "zombie"
      \/ life[t] = "zombie" /\ life'[t] = "reaped" /\ grace'[t] = tracepoint_readers
      \/ life[t] = "reaped" /\ life'[t] = "freed" /\ grace[t] = {} /\ ~Pinned(t)
  BY Zenon DEF Types, Fork, Exit, Reap, put_task_struct
<1>4. InHook(c) /\ Local(call[c]) =>
        /\ call[c] \in Calls /\ call[c].from \in Task /\ call[c].to \in Task
        /\ Born(call[c].from) /\ life[call[c].to] \notin {"unborn", "freed"}
        /\ (t = call[c].to => life'[t] # "freed")
  <2> SUFFICES ASSUME InHook(c), Local(call[c])
               PROVE  /\ call[c] \in Calls /\ call[c].from \in Task /\ call[c].to \in Task
                      /\ Born(call[c].from) /\ life[call[c].to] \notin {"unborn", "freed"}
                      /\ (t = call[c].to => life'[t] # "freed")
    BY Zenon
  <2>1. call[c] \in Calls /\ Born(call[c].from) /\ life[call[c].to] \notin {"unborn", "freed"}
    BY Zenon DEF CpuInv, Held
  <2>2. call[c].from \in Task /\ call[c].to \in Task
    BY Zenon, <2>1, CallParts
  <2>3. t = call[c].to => Pinned(t)
    BY Zenon, <2>2, TaskAssumption DEF Pinned, Caller, Local
  <2>4. life'[t] = "freed" => ~Pinned(t)
    BY SMT, <1>3
  <2> QED
    BY Zenon, <2>1, <2>2, <2>3, <2>4
<1>5. Held(c)'
  <2>1. ASSUME NEW u \in Task, Born(u)
        PROVE  Born(u)'
    BY SMT, <1>2, <1>3, <2>1 DEF Born
  <2>2. InHook(c)' <=> InHook(c)
    BY Zenon, <1>1 DEF InHook
  <2>3. InHook(c) /\ Local(call[c]) => life'[call[c].to] \notin {"unborn", "freed"}
    BY SMT, <1>2, <1>3, <1>4
  <2> QED
    BY Zenon, <1>1, <1>4, <2>1, <2>2, <2>3 DEF CpuInv, Held, Local
<1>6. Looked(c)'
  <2>1. ASSUME at[c] \in Working, Local(call[c])
        PROVE  Target(c)'
    <3>1. InHook(c) /\ task[c] \in Task /\ Target(c)
      BY SMT, <2>1 DEF CpuInv, Looked, InHook, Working, Checking
    <3>2. CASE task[c] = call[c].to
      BY Zenon, <1>1, <3>2 DEF Target
    <3>3. CASE ~Hashed(call[c].to) /\ Born(task[c]) /\ Kept(c, task[c])
      <4>1. ~Hashed(call[c].to)'
        BY SMT, <1>1, <1>2, <1>3, <1>4, <2>1, <3>1, <3>3 DEF Hashed
      <4>2. Born(task[c])'
        BY SMT, <1>1, <1>2, <1>3, <3>1, <3>3 DEF Born
      <4>3. c \in tracepoint_readers
        BY Zenon, <3>1 DEF tracepoint_readers
      <4>4. Kept(c, task[c])'
        BY SMT, <1>1, <1>2, <1>3, <3>1, <3>3, <4>3 DEF Kept, Hashed
      <4> QED
        BY Zenon, <4>1, <4>2, <4>4 DEF Target
    <3> QED
      BY Zenon, <3>1, <3>2, <3>3 DEF Target
  <2> QED
    BY Zenon, <1>1, <2>1 DEF CpuInv, Looked, Local, IsAsyncTrans
<1>7. Stands(c)'
  <2>1. ASSUME NEW f \in Freezer, <<t, f>> \in since'[c]
        PROVE  Request[f] \in bits'[t]
    <3>1. bits' = bits \/ since'[c] = {r \in since[c] : r[1] # t}
      BY Zenon DEF Fork, Exit, Reap, put_task_struct
    <3>2. <<t, f>>[1] = t
      BY SMT
    <3> QED
      BY Zenon, <1>1, <2>1, <3>1, <3>2 DEF CpuInv, Stands
  <2> QED
    BY Zenon, <1>1, <1>2, <2>1 DEF CpuInv, Stands
<1>8. Touched(c)'
  BY Zenon, <1>1, <1>2 DEF CpuInv, Touched, InHook, Local
<1>9. Unread(c)'
  BY Zenon, <1>1 DEF CpuInv, Unread
<1>10. Reported(c)'
  <2>1. InHook(c) /\ Local(call[c]) => (Watched(call[c])' <=> Watched(call[c]))
    <3> SUFFICES ASSUME InHook(c), Local(call[c])
                 PROVE  Watched(call[c])' <=> Watched(call[c])
      BY Zenon
    <3>1. pid'[call[c].from] = pid[call[c].from] /\ pid'[call[c].to] = pid[call[c].to]
      BY Zenon, <1>2, <1>4 DEF Born
    <3> QED
      BY Zenon, <1>1, <3>1, WatchedStays
  <2>2. ~Local(call[c]) => (Watched(call[c])' <=> Watched(call[c]))
    BY SMT, <1>1 DEF Watched, Local
  <2>3. at[c] = "return" => InHook(c)
    BY SMT DEF InHook
  <2> QED
    BY Zenon, <1>1, <2>1, <2>2, <2>3 DEF CpuInv, Reported, Local, IsAsyncTrans
<1> QED
  BY Zenon, <1>5, <1>6, <1>7, <1>8, <1>9, <1>10 DEF CpuInv

(* A freezer sets or clears a bit. *)
LEMMA FreezerKeepsHooks ==
  ASSUME Types, NEW c \in Cpu, CpuInv(c), NEW t \in Task, NEW f \in Freezer,
         Freeze(t, f) \/ Arrive(t, f) \/ Thaw(t, f) \/ Wake(t, f)
  PROVE  CpuInv(c)'
<1>1. /\ life' = life /\ pid' = pid /\ grace' = grace
      /\ at' = at /\ call' = call /\ task' = task /\ outcome' = outcome
      /\ \A u \in Task \ {t} : bits'[u] = bits[u]
  BY Zenon DEF Types, Freeze, Arrive, Thaw, Wake, hookVars
<1>2. since'[c] \subseteq since[c] /\ (InHook(c) => touched[c] \subseteq touched'[c])
  <2>1. since' = since \/ since' = [d \in Cpu |-> since[d] \ {<<t, f>>}]
    BY Zenon DEF Freeze, Arrive, Thaw, Wake, histVars
  <2>2. touched' = touched
          \/ touched' = [d \in Cpu |-> IF InHook(d) THEN touched[d] \cup {t} ELSE {}]
    BY Zenon DEF Freeze, Arrive, Thaw, Wake, histVars
  <2>3. since'[c] \subseteq since[c]
    BY Zenon, <2>1
  <2>4. InHook(c) => touched[c] \subseteq touched'[c]
    BY Zenon, <2>2
  <2> QED
    BY Zenon, <2>3, <2>4
<1>3. Held(c)'
  BY Zenon, <1>1 DEF CpuInv, Held, InHook, Local, Born
<1>4. Looked(c)'
  BY Zenon, <1>1 DEF CpuInv, Looked, Local, Born, Target, Kept, Hashed, IsAsyncTrans
<1>5. Stands(c)'
  <2>1. ASSUME NEW g \in Freezer, <<t, g>> \in since'[c]
        PROVE  Request[g] \in bits'[t]
    <3>1. Request[g] \in bits[t]
      BY Zenon, <1>2, <2>1 DEF CpuInv, Stands
    <3>2. CASE Freeze(t, f) \/ Arrive(t, f)
      BY Zenon, <3>1, <3>2 DEF Types, Freeze, Arrive
    <3>3. CASE Thaw(t, f)
      <4>1. <<t, g>> # <<t, f>>
        BY Zenon, <2>1, <3>3 DEF Thaw
      <4>2. Request[g] # Request[f]
        BY Zenon, <4>1, FreezerBits
      <4>3. bits'[t] = bits[t] \ {Request[f]}
        BY Zenon, <3>3 DEF Types, Thaw
      <4> QED
        BY Zenon, <3>1, <4>2, <4>3
    <3>4. CASE Wake(t, f)
      <4>1. Request[g] # Arrival[f]
        BY Zenon, FreezerBits
      <4>2. bits'[t] = bits[t] \ {Arrival[f]}
        BY Zenon, <3>4 DEF Types, Wake
      <4> QED
        BY Zenon, <3>1, <4>1, <4>2
    <3> QED
      BY Zenon, <3>2, <3>3, <3>4
  <2> QED
    BY Zenon, <1>1, <1>2, <2>1 DEF CpuInv, Stands
<1>6. Touched(c)'
  <2>1. InHook(c)' <=> InHook(c)
    BY Zenon, <1>1 DEF InHook
  <2>2. InHook(c) /\ bits'[t] # {} => t \in touched'[c]
    <3>1. CASE Freeze(t, f)
      BY Zenon, <3>1 DEF Freeze
    <3>2. CASE Arrive(t, f) \/ Thaw(t, f) \/ Wake(t, f)
      <4>1. bits[t] # {}
        BY Zenon, <3>2 DEF Arrive, Thaw, Wake
      <4> QED
        BY Zenon, <1>2, <4>1 DEF CpuInv, Touched
    <3> QED
      BY Zenon, <3>1, <3>2
  <2> QED
    BY Zenon, <1>1, <1>2, <2>1, <2>2 DEF CpuInv, Touched, Local
<1>7. Unread(c)'
  BY Zenon, <1>1, <1>2 DEF CpuInv, Unread
<1>8. Reported(c)'
  <2>1. Watched(call[c])' <=> Watched(call[c])
    BY Zenon, <1>1, WatchedStays
  <2> QED
    BY Zenon, <1>1, <1>2, <2>1 DEF CpuInv, Reported, Local, IsAsyncTrans
<1> QED
  BY Zenon, <1>3, <1>4, <1>5, <1>6, <1>7, <1>8 DEF CpuInv

(* A hook is entered. *)
LEMMA EnterInv ==
  ASSUME Types, NEW c \in Cpu, CpuInv(c), NEW k \in Calls, HookEnter(c, k)
  PROVE  CpuInv(c)'
<1>1. /\ call'[c] = k /\ life' = life /\ pid' = pid /\ bits' = bits /\ grace' = grace
      /\ task'[c] = IF k.hook \in {"alloc_buf", "network"} THEN NONE ELSE k.to
      /\ since'[c] = {r \in Task \X {"cgroup", "pm"} : Request[r[2]] \in bits[r[1]]}
      /\ touched'[c] = {t \in Task : bits[t] # {}}
      /\ Local(k) => life[k.from] = "running" /\ life[k.to] \notin {"unborn", "freed"}
  BY Zenon DEF Types, HookEnter, taskVars, Local
<1>2. at'[c] = CASE ~Watched(k)           -> "return"
                 [] k.hook = "network"    -> "send"
                 [] k.hook = "alloc_buf"  -> "find"
                 [] OTHER                 -> "frozen1"
  BY Zenon DEF Types, HookEnter, Goto
<1>3. \/ at'[c] = "return" /\ ~Watched(k)
      \/ at'[c] = "send" /\ ~Local(k) /\ task'[c] = NONE
      \/ at'[c] = "find" /\ Local(k) /\ task'[c] = NONE
      \/ at'[c] = "frozen1" /\ Local(k) /\ task'[c] = k.to
  BY SMT, <1>1, <1>2 DEF Local
<1>4. Local(k) => k.from \in Task /\ k.to \in Task
  BY Zenon, CallParts
<1>5. Held(c)'
  BY SMT, <1>1 DEF Held, Local, Born
<1>6. Looked(c)'
  BY SMT, <1>1, <1>3, <1>4 DEF Looked, Local, Target, Checking, Working
<1>7. Stands(c)'
  <2>1. ASSUME NEW t \in Task, NEW f \in Freezer, <<t, f>> \in since'[c]
        PROVE  Request[f] \in bits[t]
    <3>1. <<t, f>>[1] = t /\ <<t, f>>[2] = f
      BY SMT
    <3> QED
      BY Zenon, <1>1, <2>1, <3>1
  <2> QED
    BY Zenon, <1>1, <2>1 DEF Stands
<1>8. Touched(c)'
  BY SMT, <1>1, <1>3 DEF Touched, Local
<1>9. Unread(c)'
  BY SMT, <1>3 DEF Unread
<1>10. Reported(c)'
  <2>1. Watched(k)' <=> Watched(k)
    BY Zenon, <1>1, WatchedStays
  <2> QED
    BY SMT, <1>1, <1>3, <2>1 DEF Reported
<1> QED
  BY Zenon, <1>5, <1>6, <1>7, <1>8, <1>9, <1>10 DEF CpuInv

(* A request stands only on a process whose pid is hashed. *)
LEMMA StandingHashed ==
  ASSUME Bits, NEW c \in Cpu, CpuInv(c), NEW t \in Task, ~Hashed(t)
  PROVE  \A f \in Freezer : <<t, f>> \notin since[c]
<1>1. bits[t] = {}
  BY Zenon DEF Bits, Hashed
<1> QED
  BY Zenon, <1>1 DEF CpuInv, Stands

(* rkx_binder_alloc_new_buf_locked_vh looks the owner of the buffer up. *)
LEMMA FindInv ==
  ASSUME Types, Pids, Bits, NEW c \in Cpu, CpuInv(c), AllocBufFind(c)
  PROVE  CpuInv(c)'
<1> DEFINE to == call[c].to
           found == find_task_by_vpid(pid[to])
<1>1. /\ call' = call /\ life' = life /\ pid' = pid /\ bits' = bits /\ grace' = grace
      /\ since' = since /\ touched' = touched /\ at[c] = "find"
      /\ \/ found = {} /\ at'[c] = "return"
         \/ \E t \in found : task'[c] = t /\ at'[c] = "frozen1"
  BY Zenon DEF Types, AllocBufFind, Goto, taskVars, histVars
<1>2. /\ call[c] \in Calls /\ Local(call[c]) /\ to \in Task
      /\ Born(call[c].from) /\ life[to] \notin {"unborn", "freed"}
  <2>1. InHook(c)
    BY SMT, <1>1 DEF InHook
  <2>2. Local(call[c])
    BY Zenon, <1>1 DEF CpuInv, Looked
  <2> QED
    BY Zenon, <2>1, <2>2, CallParts DEF CpuInv, Held
<1>3. Hashed(to) => found = {to}
  BY Zenon, <1>2 DEF Pids, find_task_by_vpid
<1>4. Held(c)' /\ Stands(c)'
  BY Zenon, <1>1, <1>2 DEF CpuInv, Held, Stands, Local, Born
<1>5. CASE found = {} /\ at'[c] = "return"
  <2>1. \A f \in Freezer : <<to, f>> \notin since[c]
    BY Zenon, <1>2, <1>3, <1>5, StandingHashed
  <2>2. Reported(c)'
    BY Zenon, <1>1, <1>2, <2>1 DEF Reported, Local
  <2>3. Looked(c)' /\ Unread(c)' /\ Touched(c)'
    BY SMT, <1>1, <1>5 DEF CpuInv, Looked, Unread, Touched, InHook, Checking, Working
  <2> QED
    BY Zenon, <1>4, <2>2, <2>3 DEF CpuInv
<1>6. ASSUME NEW t \in found, task'[c] = t, at'[c] = "frozen1"
      PROVE  CpuInv(c)'
  <2>1. t \in Task /\ Hashed(t) /\ Born(t)
    BY SMT DEF find_task_by_vpid, Hashed, Born
  <2>2. Target(c)'
    BY Zenon, <1>1, <1>3, <1>6, <2>1 DEF Target, Kept, Hashed, Born
  <2>3. Looked(c)'
    BY SMT, <1>1, <1>2, <1>6, <2>1, <2>2 DEF Looked, Checking, Working, Local
  <2>4. Unread(c)' /\ Touched(c)' /\ Reported(c)'
    BY SMT, <1>1, <1>6 DEF CpuInv, Reported, Unread, Touched, InHook
  <2> QED
    BY Zenon, <1>4, <2>3, <2>4 DEF CpuInv
<1> QED
  BY Zenon, <1>1, <1>5, <1>6

(* rkx_is_frozen reads one bit after the other. *)
LEMMA ReadForms ==
  ASSUME NEW c \in Cpu, Types, NEW i \in 1 .. 4, ReadBit(c, i)
  PROVE  LET seen == at'[c] = IF IsAsyncTrans(call[c]) THEN "copy" ELSE "send" IN
         \/ at[c] \in Checking /\ seen /\ bits[task[c]] # {}
         \/ at[c] = "frozen1" /\ at'[c] = "frozen2"
         \/ at[c] = "frozen2" /\ at'[c] = "frozen3" /\ "trap_freeze" \notin bits[task[c]]
         \/ at[c] = "frozen3" /\ at'[c] = "frozen4"
         \/ at[c] = "frozen4" /\ at'[c] = "return" /\ "freezing" \notin bits[task[c]]
<1> DEFINE seen == IF IsAsyncTrans(call[c]) THEN "copy" ELSE "send"
<1>1. /\ FrozenAt[1] = "frozen1" /\ FrozenAt[2] = "frozen2"
      /\ FrozenAt[3] = "frozen3" /\ FrozenAt[4] = "frozen4"
      /\ rkx_is_frozen[2] = "trap_freeze" /\ rkx_is_frozen[4] = "freezing"
      /\ Len(rkx_is_frozen) = 4
  BY SMT DEF FrozenAt, rkx_is_frozen
<1>2. /\ at[c] = FrozenAt[i]
      /\ at'[c] = IF rkx_is_frozen[i] \in bits[task[c]] THEN seen
                  ELSE IF i < 4 THEN FrozenAt[i + 1] ELSE "return"
  BY Zenon, <1>1 DEF Types, ReadBit, Goto
<1> HIDE DEF seen
<1>3. i = 1 \/ i = 2 \/ i = 3 \/ i = 4
  BY SMT
<1>4. CASE rkx_is_frozen[i] \in bits[task[c]]
  <2>1. at[c] \in Checking
    BY SMT, <1>1, <1>2, <1>3 DEF Checking
  <2> QED
    BY Zenon, <1>2, <1>4, <2>1 DEF seen
<1>5. CASE rkx_is_frozen[i] \notin bits[task[c]]
  BY SMT, <1>1, <1>2, <1>3, <1>5
<1> QED
  BY Zenon, <1>4, <1>5

(* Reading a bit of rkx_is_frozen keeps what holds of the hook that reads. *)
LEMMA ReadInv ==
  ASSUME Types, Bits, NEW c \in Cpu, CpuInv(c), NEW i \in 1 .. 4, ReadBit(c, i)
  PROVE  CpuInv(c)'
<1>1. /\ call' = call /\ task' = task /\ life' = life /\ pid' = pid /\ bits' = bits
      /\ grace' = grace /\ since' = since /\ touched' = touched
  BY Zenon DEF ReadBit, taskVars, histVars
<1> DEFINE seen == at'[c] = IF IsAsyncTrans(call[c]) THEN "copy" ELSE "send"
<1>2. \/ at[c] \in Checking /\ seen /\ bits[task[c]] # {}
      \/ at[c] = "frozen1" /\ at'[c] = "frozen2"
      \/ at[c] = "frozen2" /\ at'[c] = "frozen3" /\ "trap_freeze" \notin bits[task[c]]
      \/ at[c] = "frozen3" /\ at'[c] = "frozen4"
      \/ at[c] = "frozen4" /\ at'[c] = "return" /\ "freezing" \notin bits[task[c]]
  BY Zenon, ReadForms
<1>3. at[c] \in Checking /\ at[c] \in Working /\ InHook(c)
  BY SMT, <1>2 DEF Checking, Working, InHook
<1>4. /\ call[c] \in Calls /\ Local(call[c]) /\ call[c].to \in Task /\ task[c] \in Task
      /\ Born(call[c].from) /\ life[call[c].to] \notin {"unborn", "freed"} /\ Target(c)
  <2>1. Local(call[c])
    BY Zenon, <1>3 DEF CpuInv, Looked
  <2> QED
    BY Zenon, <1>3, <2>1, CallParts DEF CpuInv, Held, Looked
<1>5. Held(c)' /\ Stands(c)'
  BY Zenon, <1>1, <1>4 DEF CpuInv, Held, Stands, Local, Born
<1>6. Target(c)'
  BY Zenon, <1>1, <1>4 DEF Target, Kept, Hashed, Born
<1>7. Looked(c)'
  <2>1. at'[c] = "copy" => IsAsyncTrans(call[c])
    BY SMT, <1>2
  <2>2. at'[c] # "find"
    BY SMT, <1>2
  <2> QED
    BY Zenon, <1>1, <1>4, <1>6, <2>1, <2>2 DEF Looked, Local, IsAsyncTrans
<1>8. Touched(c)'
  <2>1. bits[task[c]] # {} => task[c] \in touched[c]
    BY Zenon, <1>3, <1>4 DEF CpuInv, Touched
  <2>2. at'[c] \in {"copy", "send"} => bits[task[c]] # {}
    BY SMT, <1>2
  <2> QED
    BY Zenon, <1>1, <1>3, <2>1, <2>2 DEF CpuInv, Touched
<1>9. Unread(c)'
  <2>1. at[c] = "frozen3" => <<task[c], "cgroup">> \notin since[c]
    BY SMT DEF CpuInv, Unread
  <2>2. "trap_freeze" \notin bits[task[c]] => <<task[c], "cgroup">> \notin since[c]
    BY Zenon, <1>4, FreezerBits DEF CpuInv, Stands, Freezer
  <2>3. at'[c] \in {"frozen3", "frozen4"} => <<task[c], "cgroup">> \notin since[c]
    BY SMT, <1>2, <2>1, <2>2
  <2> QED
    BY Zenon, <1>1, <2>3 DEF Unread
<1>10. Reported(c)'
  <2> SUFFICES ASSUME at'[c] = "return"
               PROVE  \A f \in Freezer : <<call[c].to, f>> \notin since[c]
    BY Zenon, <1>1, <1>4 DEF Reported, Local
  <2>1. at[c] = "frozen4" /\ "freezing" \notin bits[task[c]]
    BY SMT, <1>2 
  <2>2. CASE task[c] = call[c].to
    <3>1. <<task[c], "cgroup">> \notin since[c]
      BY Zenon, <2>1 DEF CpuInv, Unread
    <3>2. <<task[c], "pm">> \notin since[c]
      BY Zenon, <1>4, <2>1, FreezerBits DEF CpuInv, Stands, Freezer
    <3> QED
      BY Zenon, <2>2, <3>1, <3>2 DEF Freezer
  <2>3. CASE ~Hashed(call[c].to)
    BY Zenon, <1>4, <2>3, StandingHashed
  <2> QED
    BY Zenon, <1>4, <2>2, <2>3 DEF Target
<1> QED
  BY Zenon, <1>5, <1>7, <1>8, <1>9, <1>10 DEF CpuInv

(* The interface token is copied, or there is no page to copy it from. *)
LEMMA CopyInv ==
  ASSUME Types, NEW c \in Cpu, CpuInv(c), CopyToken(c)
  PROVE  CpuInv(c)'
<1>1. /\ call' = call /\ task' = task /\ life' = life /\ pid' = pid /\ bits' = bits
      /\ grace' = grace /\ since' = since /\ touched' = touched /\ at[c] = "copy"
      /\ \/ at'[c] = "send"
         \/ at'[c] = "return" /\ outcome'[c] = "fault"
  BY Zenon DEF Types, CopyToken, Goto, taskVars, histVars
<1>2. InHook(c) /\ at[c] \in Working
  BY SMT, <1>1 DEF InHook, Working
<1>3. /\ call[c] \in Calls /\ Local(call[c]) /\ IsAsyncTrans(call[c])
      /\ task[c] \in Task /\ Target(c) /\ task[c] \in touched[c]
  BY Zenon, <1>1, <1>2 DEF CpuInv, Held, Looked, Touched
<1>4. Held(c)' /\ Stands(c)'
  BY Zenon, <1>1, <1>2 DEF CpuInv, Held, Stands, Local, Born
<1>5. Target(c)'
  BY Zenon, <1>1, <1>3 DEF Target, Kept, Hashed, Born
<1>6. Looked(c)' /\ Unread(c)'
  <2>1. at'[c] \notin {"find", "copy", "frozen3", "frozen4"}
    BY SMT, <1>1
  <2> QED
    BY Zenon, <1>1, <1>3, <1>5, <2>1 DEF Looked, Unread, Local
<1>7. Touched(c)'
  BY Zenon, <1>1, <1>2, <1>3 DEF CpuInv, Touched
<1>8. Reported(c)'
  <2>1. at'[c] = "return" => outcome'[c] = "fault"
    BY SMT, <1>1
  <2> QED
    BY Zenon, <1>1, <1>3, <2>1 DEF Reported, IsAsyncTrans
<1> QED
  BY Zenon, <1>4, <1>6, <1>7, <1>8 DEF CpuInv

(* The event is sent, or there is no memory for it; it is never too long. *)
LEMMA SendForms ==
  ASSUME Types, NEW c \in Cpu, CpuInv(c), rkx_send_message(c)
  PROVE  /\ call[c] \in Calls /\ at[c] = "send" /\ InHook(c)
         /\ \/ outcome'[c] = "no_memory" /\ UNCHANGED sockVars
            \/ /\ outcome'[c] = "sent"
               /\ Multicast([msg |-> Encode(Event(call[c], task[c])), about |-> About(c)])
<1>1. at[c] = "send" /\ InHook(c)
  BY SMT DEF rkx_send_message, InHook
<1>2. call[c] \in Calls
  BY Zenon, <1>1 DEF CpuInv, Held
<1>3. ~(MessageLen(Event(call[c], task[c])) > nla_total_size(256))
  BY Zenon, <1>2, EventTold
<1> QED
  BY Zenon, <1>1, <1>2, <1>3 DEF rkx_send_message, Types

(* rkx_send_message keeps what holds of the hook that sends. *)
LEMMA SendInv ==
  ASSUME Types, NEW c \in Cpu, CpuInv(c), rkx_send_message(c)
  PROVE  CpuInv(c)'
<1>1. /\ call' = call /\ task' = task /\ life' = life /\ pid' = pid /\ bits' = bits
      /\ grace' = grace /\ since' = since /\ touched' = touched /\ at'[c] = "return"
  BY Zenon DEF Types, rkx_send_message, Goto, taskVars, histVars
<1>2. InHook(c) /\ outcome'[c] \in {"no_memory", "sent"}
  BY Zenon, SendForms
<1>3. Held(c)' /\ Stands(c)'
  BY Zenon, <1>1, <1>2 DEF CpuInv, Held, Stands, Local, Born
<1>4. Touched(c)'
  BY SMT, <1>1, <1>2 DEF CpuInv, Touched
<1>5. Looked(c)' /\ Unread(c)'
  BY SMT, <1>1 DEF Looked, Unread, Checking, Working
<1>6. Reported(c)'
  BY Zenon, <1>2 DEF Reported
<1> QED
  BY Zenon, <1>3, <1>4, <1>5, <1>6 DEF CpuInv

(* The hook returns. *)
LEMMA ReturnInv ==
  ASSUME Types, NEW c \in Cpu, HookReturn(c)
  PROVE  CpuInv(c)'
<1>1. at'[c] = "idle" /\ since'[c] = {}
  BY Zenon DEF Types, HookReturn, Goto
<1>2. Held(c)' /\ Touched(c)' /\ Looked(c)' /\ Unread(c)' /\ Reported(c)'
  BY SMT, <1>1 DEF Held, Touched, InHook, Looked, Unread, Reported, Checking, Working
<1> QED
  BY Zenon, <1>1, <1>2 DEF CpuInv, Stands

(* The hooks leave the processes alone, but for the grace periods. *)
LEMMA HooksLeaveTasks ==
  ASSUME NEW d \in Cpu, HookStep(d) \/ \E k \in Calls : HookEnter(d, k)
  PROVE  /\ life' = life /\ pid' = pid /\ bits' = bits
         /\ grace' = grace \/ grace' = [t \in Task |-> grace[t] \ {d}]
<1>1. CASE HookReturn(d)
  BY Zenon, <1>1 DEF HookReturn
<1>2. CASE UNCHANGED taskVars
  BY Zenon, <1>2 DEF taskVars
<1> QED
  BY Zenon, <1>1, <1>2 DEF HookStep, HookEnter, AllocBufFind, ReadBit, CopyToken,
     rkx_send_message

(* A step of the hook on d, or its entry, keeps what holds on all CPUs. *)
LEMMA HooksKeepHooks ==
  ASSUME Types, Pids, Bits, \A c \in Cpu : CpuInv(c), NEW d \in Cpu,
         HookStep(d) \/ \E k \in Calls : HookEnter(d, k)
  PROVE  \A c \in Cpu : CpuInv(c)'
<1>1. CpuInv(d)'
  <2>1. CASE \E k \in Calls : HookEnter(d, k)
    BY Zenon, <2>1, EnterInv
  <2>2. CASE AllocBufFind(d)
    BY Zenon, <2>2, FindInv
  <2>3. CASE \E i \in 1 .. 4 : ReadBit(d, i)
    BY Zenon, <2>3, ReadInv
  <2>4. CASE CopyToken(d)
    BY Zenon, <2>4, CopyInv
  <2>5. CASE rkx_send_message(d)
    BY Zenon, <2>5, SendInv
  <2>6. CASE HookReturn(d)
    BY Zenon, <2>6, ReturnInv
  <2> QED
    BY Zenon, <2>1, <2>2, <2>3, <2>4, <2>5, <2>6 DEF HookStep
<1>2. /\ life' = life /\ pid' = pid /\ bits' = bits
      /\ grace' = grace \/ grace' = [t \in Task |-> grace[t] \ {d}]
  BY Zenon, HooksLeaveTasks
<1>3. ASSUME NEW c \in Cpu, c # d
      PROVE  /\ at'[c] = at[c] /\ call'[c] = call[c] /\ task'[c] = task[c]
             /\ outcome'[c] = outcome[c] /\ since'[c] = since[c] /\ touched'[c] = touched[c]
  <2>1. CASE \E k \in Calls : HookEnter(d, k)
    BY Zenon, <1>3, <2>1 DEF Types, HookEnter, Goto
  <2>2. CASE AllocBufFind(d)
    BY Zenon, <1>3, <2>2 DEF Types, AllocBufFind, Goto, histVars
  <2>3. CASE \E i \in 1 .. 4 : ReadBit(d, i)
    BY Zenon, <1>3, <2>3 DEF Types, ReadBit, Goto, histVars
  <2>4. CASE CopyToken(d)
    BY Zenon, <1>3, <2>4 DEF Types, CopyToken, Goto, histVars
  <2>5. CASE rkx_send_message(d)
    BY Zenon, <1>3, <2>5 DEF Types, rkx_send_message, Goto, histVars
  <2>6. CASE HookReturn(d)
    BY Zenon, <1>3, <2>6 DEF Types, HookReturn, Goto
  <2> QED
    BY Zenon, <2>1, <2>2, <2>3, <2>4, <2>5, <2>6 DEF HookStep
<1>4. ASSUME NEW c \in Cpu, c # d
      PROVE  CpuInv(c)'
  <2>1. \A t \in Task : c \in grace[t] => c \in grace'[t]
    BY Zenon, <1>2, <1>4
  <2> QED
    BY Zenon, <1>2, <1>3, <1>4, <2>1, OtherCpu
<1> QED
  BY Zenon, <1>1, <1>4

(* The socket's queue of messages. *)
LEMMA QueueAppend ==
  ASSUME NEW q, q \in Seq(Elements(q)), NEW m
  PROVE  /\ Append(q, m) \in Seq(Elements(Append(q, m)))
         /\ Elements(Append(q, m)) = Elements(q) \cup {m}
<1> DEFINE a == Append(q, m)
<1>1. /\ Len(q) \in Nat /\ DOMAIN q = 1 .. Len(q) /\ DOMAIN a = 1 .. Len(q) + 1
      /\ a[Len(q) + 1] = m /\ \A i \in 1 .. Len(q) : a[i] = q[i]
  BY SMT
<1>2. Elements(a) = Elements(q) \cup {m}
  <2>1. \A i \in 1 .. Len(q) + 1 : i \in 1 .. Len(q) \/ i = Len(q) + 1
    BY SMT, <1>1
  <2>2. Len(q) + 1 \in 1 .. Len(q) + 1 /\ 1 .. Len(q) \subseteq 1 .. Len(q) + 1
    BY SMT, <1>1
  <2> HIDE DEF a
  <2> QED
    BY Zenon, <1>1, <2>1, <2>2 DEF Elements
<1>3. a \in Seq(Elements(q) \cup {m})
  <2>1. q \in Seq(Elements(q) \cup {m})
    BY SMT, <1>1 DEF Elements
  <2> QED
    BY SMT, <2>1
<1> QED
  BY Zenon, <1>2, <1>3

(* recv takes the first message off and leaves the others. *)
LEMMA QueueTail ==
  ASSUME NEW q, q \in Seq(Elements(q)), q # <<>>
  PROVE  /\ Tail(q) \in Seq(Elements(Tail(q)))
         /\ Elements(Tail(q)) \subseteq Elements(q) /\ Head(q) \in Elements(q)
<1> DEFINE a == Tail(q)
<1>1. /\ Len(q) \in Nat \ {0} /\ DOMAIN q = 1 .. Len(q) /\ DOMAIN a = 1 .. Len(q) - 1
      /\ Head(q) = q[1] /\ \A i \in 1 .. Len(q) - 1 : a[i] = q[i + 1]
      /\ Len(a) = Len(q) - 1
  BY SMT
<1>2. Elements(a) \subseteq Elements(q) /\ Head(q) \in Elements(q)
  <2>1. 1 \in 1 .. Len(q) /\ \A i \in 1 .. Len(q) - 1 : i + 1 \in 1 .. Len(q)
    BY SMT, <1>1
  <2> HIDE DEF a
  <2> QED
    BY Zenon, <1>1, <2>1 DEF Elements
<1>3. a \in Seq(Elements(a))
  <2>1. a \in Seq(Elements(q))
    BY SMT
  <2> HIDE DEF a
  <2> QED
    <3>1. \A i \in 1 .. Len(a) : a[i] \in Elements(a)
      BY Zenon, <1>1 DEF Elements
    <3> QED
      BY SMT, <2>1, <3>1
<1> QED
  BY Zenon, <1>2, <1>3

(* The processes keep their types and pids, and the steps that do not      *)
(* concern them keep both.                                                 *)
LEMMA ProcessesKeep ==
  ASSUME Types, Pids, Bits, Processes
  PROVE  Types' /\ Pids' /\ Bits' /\ Grown /\ UNCHANGED sockVars
<1>1. PICK t \in Task : \/ Fork(t) \/ Exit(t) \/ Reap(t) \/ put_task_struct(t)
                        \/ \E f \in Freezers[t] : \/ Freeze(t, f) \/ Arrive(t, f)
                                                  \/ Thaw(t, f) \/ Wake(t, f)
  BY Zenon DEF Processes
<1>2. UNCHANGED sockVars /\ UNCHANGED hookVars /\ queue' = queue
  BY Zenon, <1>1 DEF Fork, Exit, Reap, put_task_struct, Freeze, Arrive, Thaw, Wake, sockVars
<1>3. /\ DOMAIN pid' = Task /\ DOMAIN bits' = Task /\ DOMAIN grace' = Task
      /\ DOMAIN since' = Cpu /\ DOMAIN touched' = Cpu
  BY Zenon, <1>1 DEF Types, Fork, Exit, Reap, put_task_struct, Freeze, Arrive, Thaw, Wake,
     histVars
<1>4. /\ life' \in [Task -> Lives] /\ \A u \in Task \ {t} : life'[u] = life[u]
      /\ \/ life'[t] = life[t]
         \/ life[t] = "unborn" /\ life'[t] = "running"
         \/ life[t] = "running" /\ life'[t] = "zombie"
         \/ life[t] = "zombie" /\ life'[t] = "reaped"
         \/ life[t] = "reaped" /\ life'[t] = "freed"
  <2>1. ASSUME NEW l \in Lives, life' = [life EXCEPT ![t] = l]
        PROVE  life' \in [Task -> Lives] /\ (\A u \in Task \ {t} : life'[u] = life[u]) /\ life'[t] = l
    BY Zenon, <2>1 DEF Types
  <2>2. CASE life' = life
    BY Zenon, <2>2 DEF Types
  <2>3. CASE Fork(t)
    BY Zenon, <2>1, <2>3 DEF Fork, Lives
  <2>4. CASE Exit(t)
    BY Zenon, <2>1, <2>4 DEF Exit, Lives
  <2>5. CASE Reap(t)
    BY Zenon, <2>1, <2>5 DEF Reap, Lives
  <2>6. CASE put_task_struct(t)
    BY Zenon, <2>1, <2>6 DEF put_task_struct, Lives
  <2> QED
    BY Zenon, <1>1, <2>2, <2>3, <2>4, <2>5, <2>6 DEF Freeze, Arrive, Thaw, Wake
<1>5. /\ \A u \in Task \ {t} : pid'[u] = pid[u]
      /\ \/ pid' = pid /\ (Hashed(t)' => Hashed(t))
         \/ life[t] = "unborn" /\ \A u \in Task : Hashed(u) => pid[u] # pid'[t]
  <2>1. CASE Fork(t)
    BY Zenon, <2>1 DEF Types, Fork
  <2>2. CASE ~Fork(t)
    <3>1. pid' = pid
      BY Zenon, <1>1, <2>2 DEF Exit, Reap, put_task_struct, Freeze, Arrive, Thaw, Wake
    <3>2. life'[t] = life[t] \/ life[t] # "unborn"
      BY Zenon, <1>1, <2>2 DEF Exit, Reap, put_task_struct, Freeze, Arrive, Thaw, Wake
    <3>3. Hashed(t)' => Hashed(t)
      BY SMT, <1>4, <3>2 DEF Hashed
    <3> QED
      BY Zenon, <3>1, <3>3
  <2> QED
    BY Zenon, <2>1, <2>2
<1>6. Types'
  BY Zenon, <1>2, <1>3, <1>4 DEF Types, hookVars
<1>7. Grown
  BY SMT, <1>4, <1>5 DEF Grown, Born, Hashed
<1>8. Pids'
  <2> SUFFICES ASSUME NEW u \in Task, NEW v \in Task, Hashed(u)', Hashed(v)', pid'[u] = pid'[v], u # v
               PROVE  FALSE
    BY Zenon DEF Pids
  <2>1. (u # t => Hashed(u)) /\ (v # t => Hashed(v))
    BY Zenon, <1>4 DEF Hashed
  <2>2. CASE pid' = pid /\ (Hashed(t)' => Hashed(t))
    BY Zenon, <2>1, <2>2 DEF Pids
  <2>3. CASE \A w \in Task : Hashed(w) => pid[w] # pid'[t]
    BY Zenon, <1>5, <2>1, <2>3 DEF Pids
  <2> QED
    BY Zenon, <1>5, <2>2, <2>3
<1>9. Bits'
  <2>1. \A u \in Task \ {t} : bits'[u] = bits[u]
    BY Zenon, <1>1 DEF Types, Fork, Exit, Reap, put_task_struct, Freeze, Arrive, Thaw, Wake
  <2>2. \/ bits'[t] = {}
        \/ bits' = bits /\ life[t] # "running"
        \/ bits' = bits /\ life' = life
        \/ life'[t] = "running"
    BY Zenon, <1>1 DEF Types, Bits, Fork, Exit, Reap, put_task_struct, Freeze, Arrive, Thaw,
       Wake
  <2> QED
    BY Zenon, <1>4, <2>1, <2>2 DEF Bits
<1> QED
  BY Zenon, <1>2, <1>6, <1>7, <1>8, <1>9

(* A step that leaves the processes alone keeps what holds of them. *)
LEMMA StillGrown ==
  ASSUME Pids, Bits, life' = life, pid' = pid, bits' = bits
  PROVE  Pids' /\ Bits' /\ Grown
BY Zenon DEF Pids, Bits, Grown, Born, Hashed

(* The steps of the hooks keep the types ... *)
LEMMA HooksKeepTypes ==
  ASSUME Types, \A c \in Cpu : CpuInv(c), NEW d \in Cpu,
         HookStep(d) \/ \E k \in Calls : HookEnter(d, k)
  PROVE  Types'
<1> DEFINE Place == Working \cup {"idle", "find", "return"}
<1>1. /\ life' = life /\ pid' = pid /\ bits' = bits
      /\ grace' = grace \/ grace' = [t \in Task |-> grace[t] \ {d}]
  BY Zenon, HooksLeaveTasks
<1>2. \E l \in Place : at' = [at EXCEPT ![d] = l]
  <2>1. CASE \E k \in Calls : HookEnter(d, k)
    <3>1. PICK k \in Calls : HookEnter(d, k)
      BY Zenon, <2>1
    <3> DEFINE l == CASE ~Watched(k)           -> "return"
                      [] k.hook = "network"    -> "send"
                      [] k.hook = "alloc_buf"  -> "find"
                      [] OTHER                 -> "frozen1"
    <3>2. l \in Place
      BY SMT DEF Working, Checking
    <3> QED
      BY Zenon, <3>1, <3>2 DEF HookEnter, Goto
  <2>2. CASE AllocBufFind(d)
    BY Zenon, <2>2 DEF AllocBufFind, Goto, Working, Checking
  <2>3. CASE \E i \in 1 .. 4 : ReadBit(d, i)
    <3>1. PICK i \in 1 .. 4 : ReadBit(d, i)
      BY Zenon, <2>3
    <3> DEFINE l == IF rkx_is_frozen[i] \in bits[task[d]]
                    THEN IF IsAsyncTrans(call[d]) THEN "copy" ELSE "send"
                    ELSE IF i < Len(rkx_is_frozen) THEN FrozenAt[i + 1] ELSE "return"
    <3>2. l \in Place
      BY SMT DEF FrozenAt, rkx_is_frozen, Working, Checking
    <3> QED
      BY Zenon, <3>1, <3>2 DEF ReadBit, Goto
  <2>4. CASE CopyToken(d)
    BY Zenon, <2>4 DEF CopyToken, Goto, Working
  <2>5. CASE rkx_send_message(d)
    BY Zenon, <2>5 DEF rkx_send_message, Goto
  <2>6. CASE HookReturn(d)
    BY Zenon, <2>6 DEF HookReturn, Goto
  <2> QED
    BY Zenon, <2>1, <2>2, <2>3, <2>4, <2>5, <2>6 DEF HookStep
<1>3. /\ DOMAIN call' = Cpu /\ DOMAIN task' = Cpu /\ DOMAIN outcome' = Cpu
      /\ DOMAIN since' = Cpu /\ DOMAIN touched' = Cpu
  BY Zenon DEF Types, HookStep, HookEnter, AllocBufFind, ReadBit, CopyToken, rkx_send_message,
               HookReturn, histVars
<1>4. queue' \in Seq(Elements(queue'))
  <2>1. CASE queue' = queue
    BY Zenon, <2>1 DEF Types
  <2>2. ASSUME NEW m, queue' = Append(queue, m)
        PROVE  queue' \in Seq(Elements(queue'))
    BY Zenon, <2>2, QueueAppend DEF Types
  <2>3. CASE rkx_send_message(d)
    <3>1. CASE UNCHANGED sockVars
      BY Zenon, <2>1, <3>1 DEF sockVars
    <3>2. CASE Multicast([msg |-> Encode(Event(call[d], task[d])), about |-> About(d)])
      BY Zenon, <2>1, <2>2, <3>2 DEF Multicast
    <3> QED
      BY Zenon, <2>3, <3>1, <3>2, SendForms
  <2> QED
    BY Zenon, <2>1, <2>3 DEF HookStep, HookEnter, AllocBufFind, ReadBit, CopyToken, HookReturn,
       sockVars
<1>5. life' \in [Task -> Lives] /\ DOMAIN pid' = Task /\ DOMAIN bits' = Task /\ DOMAIN grace' = Task
  BY Zenon, <1>1 DEF Types
<1>6. at' \in [Cpu -> Place]
  BY Zenon, <1>2 DEF Types
<1> QED
  BY Zenon, <1>3, <1>4, <1>5, <1>6 DEF Types

(* ... and what is said about the calls: what rkx_send_message sends is    *)
(* true, of a task that had a freezer bit since the hook came in.          *)
LEMMA HooksKeepMessages ==
  ASSUME Types, Messages, \A c \in Cpu : CpuInv(c), NEW d \in Cpu, Grown,
         HookStep(d) \/ \E k \in Calls : HookEnter(d, k)
  PROVE  Messages'
<1>1. CASE UNCHANGED sockVars
  BY Zenon, <1>1, MessagesStay
<1>2. CASE rkx_send_message(d)
  <2> DEFINE m == [msg |-> Encode(Event(call[d], task[d])), about |-> About(d)]
  <2>1. /\ call[d] \in Calls /\ at[d] = "send" /\ InHook(d)
        /\ UNCHANGED sockVars \/ Multicast(m)
    BY Zenon, <1>2, SendForms
  <2>2. TrueOf(m.about, handle_event(m.msg))
    <3>1. m.about = About(d) /\ m.msg = Encode(Event(call[d], task[d]))
      BY Zenon
    <3>2. /\ About(d).call = call[d] /\ About(d).task = task[d]
          /\ About(d).frozen = (task[d] \in touched[d])
          /\ About(d).owner = (call[d].hook # "network" => task[d] = call[d].to \/ ~Hashed(call[d].to))
      BY Zenon DEF About
    <3>3. handle_event(Encode(Event(call[d], task[d]))) = {Told(call[d], task[d])}
      BY Zenon, <2>1, EventTold
    <3>4. ASSUME Local(call[d])
          PROVE  /\ task[d] \in touched[d] /\ (task[d] = call[d].to \/ ~Hashed(call[d].to))
                 /\ call[d].from \in Task /\ task[d] \in Task
                 /\ Born(call[d].from) /\ Born(task[d])
      <4>1. at[d] \in Working
        BY SMT, <2>1 DEF Working
      <4>2. task[d] \in touched[d]
        BY Zenon, <2>1, <3>4 DEF CpuInv, Touched
      <4>3. task[d] \in Task /\ Target(d)
        BY Zenon, <3>4, <4>1 DEF CpuInv, Looked
      <4>4. Born(call[d].from) /\ Born(call[d].to)
        BY Zenon, <2>1, <3>4 DEF CpuInv, Held, Born
      <4>5. call[d].from \in Task
        BY Zenon, <2>1, <3>4, CallParts
      <4> QED
        BY Zenon, <4>2, <4>3, <4>4, <4>5 DEF Target
    <3>5. Settled(About(d))
      BY Zenon, <2>1, <3>2, <3>4 DEF Settled, Local
    <3> HIDE DEF m
    <3> QED
      BY Zenon, <3>1, <3>2, <3>3, <3>5 DEF TrueOf
  <2> HIDE DEF m
  <2>3. CASE Multicast(m)
    <3>1. heard' = heard /\ (queue' = queue \/ queue' = Append(queue, m))
      BY Zenon, <2>3 DEF Multicast
    <3>2. Elements(queue') \subseteq Elements(queue) \cup {m}
      BY Zenon, <3>1, QueueAppend DEF Types
    <3>3. ASSUME NEW n \in Elements(queue')
          PROVE  TrueOf(n.about, handle_event(n.msg))'
      <4>1. TrueOf(n.about, handle_event(n.msg))
        BY Zenon, <2>2, <3>2 DEF Messages
      <4> QED
        BY Zenon, <4>1, SaidStays
    <3>4. ASSUME heard # NONE
          PROVE  TrueOf(heard.about, heard.called)'
      BY Zenon, <3>1, <3>4, SaidStays DEF Messages
    <3> QED
      BY Zenon, <3>1, <3>3, <3>4 DEF Messages, Elements
  <2> QED
    BY Zenon, <1>1, <2>1, <2>3
<1> QED
  BY Zenon, <1>1, <1>2 DEF HookStep, HookEnter, AllocBufFind, ReadBit, CopyToken, HookReturn

(* The client receives, calls back, joins or leaves. *)
LEMMA ClientKeeps ==
  ASSUME EInv, PollRecv \/ CallbackReturn \/ Join \/ Leave
  PROVE  EInv'
<1>1. UNCHANGED <<taskVars, hookVars, histVars>>
  BY Zenon DEF PollRecv, CallbackReturn, Join, Leave
<1>2. /\ life' = life /\ pid' = pid /\ bits' = bits /\ grace' = grace /\ at' = at /\ call' = call
      /\ task' = task /\ outcome' = outcome /\ since' = since /\ touched' = touched
  BY Zenon, <1>1 DEF taskVars, hookVars, histVars
<1>3. Pids' /\ Bits' /\ Grown
  BY Zenon, <1>2, StillGrown DEF EInv
<1>4. ASSUME NEW c \in Cpu
      PROVE  CpuInv(c)'
  BY Zenon, <1>2, OtherCpu DEF EInv
<1>5. \/ queue' = queue /\ (heard' = heard \/ heard' = NONE)
      \/ /\ queue # <<>> /\ queue' = Tail(queue)
         /\ heard' = [called |-> handle_event(Head(queue).msg), about |-> Head(queue).about]
      \/ queue' = <<>> /\ heard' = heard
  BY Zenon DEF PollRecv, CallbackReturn, Join, Leave
<1>6. queue' \in Seq(Elements(queue')) /\ Elements(queue') \subseteq Elements(queue)
  <2>1. CASE queue' = queue
    BY Zenon, <2>1 DEF EInv, Types
  <2>2. CASE queue # <<>> /\ queue' = Tail(queue)
    BY Zenon, <2>2, QueueTail DEF EInv, Types
  <2>3. CASE queue' = <<>>
    <3>1. <<>> \in Seq(Elements(<<>>)) /\ Elements(<<>>) = {}
      BY SMT DEF Elements
    <3> QED
      BY Zenon, <2>3, <3>1
  <2> QED
    BY Zenon, <1>5, <2>1, <2>2, <2>3
<1>7. Types'
  BY Zenon, <1>2, <1>6 DEF EInv, Types
<1>8. ASSUME NEW m \in Elements(queue')
      PROVE  TrueOf(m.about, handle_event(m.msg))'
  <2>1. TrueOf(m.about, handle_event(m.msg))
    BY Zenon, <1>6 DEF EInv, Messages
  <2> QED
    BY Zenon, <1>3, <2>1, SaidStays
<1>9. ASSUME heard' # NONE
      PROVE  TrueOf(heard'.about, heard'.called)
  <2>1. CASE heard' = heard
    BY Zenon, <1>9, <2>1 DEF EInv, Messages
  <2>2. CASE /\ queue # <<>>
             /\ heard' = [called |-> handle_event(Head(queue).msg), about |-> Head(queue).about]
    <3>1. Head(queue) \in Elements(queue)
      BY Zenon, <2>2, QueueTail DEF EInv, Types
    <3>2. heard'.called = handle_event(Head(queue).msg) /\ heard'.about = Head(queue).about
      BY Zenon, <2>2
    <3> QED
      BY Zenon, <3>1, <3>2 DEF EInv, Messages
  <2> QED
    BY Zenon, <1>5, <1>9, <2>1, <2>2
<1>10. ASSUME heard' # NONE
       PROVE  TrueOf(heard.about, heard.called)'
  <2>1. PICK h : h = heard'
    BY Zenon
  <2>2. TrueOf(h.about, h.called)'
    BY Zenon, <1>3, <1>9, <1>10, <2>1, SaidStays
  <2> QED
    BY Zenon, <2>1, <2>2
<1>11. Messages'
  BY Zenon, <1>8, <1>10 DEF Messages, Elements
<1> QED
  BY Zenon, <1>3, <1>4, <1>7, <1>11 DEF EInv

(* The invariant holds at first ... *)
LEMMA InitInv == Init => EInv
<1> SUFFICES ASSUME Init
             PROVE  EInv
  OBVIOUS
<1>1. /\ at = [c \in Cpu |-> "idle"] /\ call = [c \in Cpu |-> NONE]
      /\ task = [c \in Cpu |-> NONE] /\ outcome = [c \in Cpu |-> NONE]
      /\ since = [c \in Cpu |-> {}] /\ touched = [c \in Cpu |-> {}]
      /\ queue = <<>> /\ heard = NONE
      /\ bits = [t \in Task |-> {}] /\ grace = [t \in Task |-> {}]
  BY Zenon DEF Init
<1>2. PICK first \in SUBSET Task :
        /\ life = [t \in Task |-> IF t \in first THEN "running" ELSE "unborn"]
        /\ pid \in [Task -> Pid \cup {NONE}]
        /\ \A t, u \in first : t # u => pid[t] # pid[u]
  BY Zenon DEF Init
<1>3. <<>> \in Seq(Elements(<<>>)) /\ Elements(<<>>) = {}
  BY SMT DEF Elements
<1>4. Types
  <2>1. life \in [Task -> Lives]
    BY SMT, <1>2 DEF Lives
  <2>2. at \in [Cpu -> Working \cup {"idle", "find", "return"}]
    BY Zenon, <1>1
  <2>3. DOMAIN pid = Task
    BY Zenon, <1>2
  <2> QED
    BY Zenon, <1>1, <1>3, <2>1, <2>2, <2>3 DEF Types
<1>5. Pids
  <2>1. \A t \in Task : Hashed(t) => t \in first
    BY SMT, <1>2 DEF Hashed
  <2> QED
    BY Zenon, <1>2, <2>1 DEF Pids
<1>6. Bits
  BY Zenon, <1>1 DEF Bits
<1>7. ASSUME NEW c \in Cpu
      PROVE  CpuInv(c)
  <2>1. at[c] = "idle" /\ since[c] = {}
    BY Zenon, <1>1
  <2> QED
    BY SMT, <2>1 DEF CpuInv, Held, InHook, Looked, Stands, Touched, Unread, Reported, Checking,
       Working
<1>8. Messages
  BY Zenon, <1>1, <1>3 DEF Messages
<1> QED
  BY Zenon, <1>4, <1>5, <1>6, <1>7, <1>8 DEF EInv

(* ... and every step keeps it. *)
LEMMA StepInv == EInv /\ [Next]_vars => EInv'
<1> SUFFICES ASSUME EInv, [Next]_vars
             PROVE  EInv'
  OBVIOUS
<1>1. CASE Processes
  <2>1. Types' /\ Pids' /\ Bits' /\ Grown /\ UNCHANGED sockVars
    BY Zenon, <1>1, ProcessesKeep DEF EInv
  <2>2. Messages'
    BY Zenon, <2>1, MessagesStay DEF EInv
  <2>3. ASSUME NEW c \in Cpu
        PROVE  CpuInv(c)'
    <3>1. \A t \in Task : Freezers[t] \subseteq Freezer
      BY Zenon, TaskAssumption DEF Freezer
    <3> QED
      BY Zenon, <1>1, <3>1, LifeKeepsHooks, FreezerKeepsHooks DEF Processes, EInv
  <2> QED
    BY Zenon, <2>1, <2>2, <2>3 DEF EInv
<1>2. ASSUME NEW d \in Cpu, HookStep(d) \/ \E k \in Calls : HookEnter(d, k)
      PROVE  EInv'
  <2>1. life' = life /\ pid' = pid /\ bits' = bits
    BY Zenon, <1>2, HooksLeaveTasks
  <2>2. Pids' /\ Bits' /\ Grown
    BY Zenon, <2>1, StillGrown DEF EInv
  <2>3. Types'
    BY Zenon, <1>2, HooksKeepTypes DEF EInv
  <2>4. \A c \in Cpu : CpuInv(c)'
    BY Zenon, <1>2, HooksKeepHooks DEF EInv
  <2>5. Messages'
    BY Zenon, <1>2, <2>2, HooksKeepMessages DEF EInv
  <2> QED
    BY Zenon, <2>2, <2>3, <2>4, <2>5 DEF EInv
<1>3. CASE PollRecv \/ CallbackReturn \/ Join \/ Leave
  BY Zenon, <1>3, ClientKeeps
<1>4. CASE UNCHANGED vars
  <2>1. /\ life' = life /\ pid' = pid /\ bits' = bits /\ grace' = grace /\ at' = at /\ call' = call
        /\ task' = task /\ outcome' = outcome /\ since' = since /\ touched' = touched
        /\ queue' = queue /\ UNCHANGED sockVars
    BY Zenon, <1>4 DEF vars, taskVars, hookVars, histVars, sockVars
  <2>2. Pids' /\ Bits' /\ Grown
    BY Zenon, <2>1, StillGrown DEF EInv
  <2>3. Types'
    BY Zenon, <2>1 DEF EInv, Types
  <2>4. Messages'
    BY Zenon, <2>1, <2>2, MessagesStay DEF EInv
  <2>5. \A c \in Cpu : CpuInv(c)'
    BY Zenon, <2>1, OtherCpu DEF EInv
  <2> QED
    BY Zenon, <2>2, <2>3, <2>4, <2>5 DEF EInv
<1> QED
  BY Zenon, <1>1, <1>2, <1>3, <1>4 DEF Next

-----------------------------------------------------------------------------

(* The invariant of the processes, the hooks and the client's socket. *)
THEOREM EventInvariant == Spec => []EInv
BY InitInv, StepInv, PTL DEF Spec

(* rkx_is_frozen and the hooks never read a task that was freed, although  *)
(* the task that was found by a pid is used after rcu_read_unlock.         *)
THEOREM HookTaskLive == Spec => []TaskLive
<1>1. EInv => TaskLive
  <2> SUFFICES ASSUME EInv, NEW c \in Cpu, at[c] \notin {"idle", "return"}, task[c] # NONE
               PROVE  life[task[c]] # "freed"
    BY Zenon DEF TaskLive
  <2>1. CpuInv(c) /\ at[c] \in Working \cup {"idle", "find", "return"}
    BY Zenon DEF EInv, Types
  <2>2. at[c] \in Working /\ Local(call[c])
    BY SMT, <2>1 DEF CpuInv, Looked, Working, Checking
  <2>3. Target(c) /\ InHook(c)
    BY Zenon, <2>1, <2>2 DEF CpuInv, Looked, InHook
  <2>4. life[call[c].to] # "freed"
    BY Zenon, <2>1, <2>2, <2>3 DEF CpuInv, Held
  <2> QED
    BY SMT, <2>3, <2>4 DEF Target, Kept, Hashed
<1> QED
  BY <1>1, EventInvariant, PTL

(* The callback is told of a call that was made, with its numbers and its  *)
(* name, on a task that was frozen or being frozen: decoding in            *)
(* handle_event undoes the encoding of rkx_send_message.                   *)
THEOREM EventsTrue == Spec => []EventTrue
<1>1. EInv => EventTrue
  BY Zenon DEF EInv, Messages, TrueOf, Settled, Local, EventTrue
<1> QED
  BY <1>1, EventInvariant, PTL

(* A call on a process that was frozen all the while is reported, whatever *)
(* else the freezers do between the reads of rkx_is_frozen.                *)
THEOREM FrozenCallsReported == Spec => []FrozenReported
<1>1. EInv => FrozenReported
  BY Zenon DEF EInv, CpuInv, Reported, Local, FrozenReported, Freezer
<1> QED
  BY <1>1, EventInvariant, PTL
=============================================================================
