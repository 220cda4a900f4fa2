------------------------- MODULE ConfigStoreProofs -------------------------
(***************************************************************************)
(* Proofs about the configuration in use, for any configurations, Boots,   *)
(* numbers of globals, requests and changes.                               *)
(***************************************************************************)
EXTENDS ConfigStore, TLAPS

LoadType == [content: Contents, arrays: [Range1 -> Seq(Mount \union {None})]]

RequestType == [stage: RequestStages, text: Texts, load: Loads \union {0},
                next: Range1, waiting: BOOLEAN, alone: BOOLEAN]

PassType == [stage: {"idle", "append", "decode", "send"}, load: Loads \union {0},
             global: Range1, length: Nat, own: Seq(Mount) \union {None}]

----------------------------------------------------------------------------
(* Lemmas about the data *)

\* An array begins with the slice it is made for.
LEMMA ArrayExtends ==
    ASSUME NEW s \in Seq(Mount), Len(s) <= Capacity
    PROVE  /\ Array(s) \in Seq(Mount \union {None})
           /\ Len(s) <= Len(Array(s))
           /\ \A i \in 1..Len(s) : Array(s)[i] = s[i]
  <1> DEFINE room == [i \in 1..(Capacity - Len(s)) |-> None]
  <1>1. Len(s) \in Nat /\ Capacity - Len(s) \in Nat
    BY DEF Capacity
  <1>2. room \in Seq({None}) /\ Len(room) = Capacity - Len(s)
    BY <1>1
  <1>3. CASE s = <<>>
    BY <1>3 DEF Array
  <1>4. CASE s # <<>>
    <2>1. Array(s) = s \o room
      BY <1>4 DEF Array
    <2>2. s \in Seq(Mount \union {None}) /\ room \in Seq(Mount \union {None})
      BY <1>2
    <2> QED BY <1>2, <2>1, <2>2, <1>1
  <1> QED BY <1>3, <1>4

\* A configuration's load has its mounts.
LEMMA LoadFilled ==
    ASSUME NEW c \in Contents
    PROVE  /\ Load(c) \in LoadType
           /\ Load(c).content = c
           /\ \A g \in Range1 :
                 /\ Len(MountsIn[c][g]) <= Len(Load(c).arrays[g])
                 /\ \A i \in 1..Len(MountsIn[c][g]) : Load(c).arrays[g][i] # None
  <1>1. \A g \in Range1 : MountsIn[c][g] \in Seq(Mount) /\ Len(MountsIn[c][g]) <= Capacity
    BY ConfigAssumption DEF Range1
  <1>2. \A g \in Range1 :
           /\ Array(MountsIn[c][g]) \in Seq(Mount \union {None})
           /\ Len(MountsIn[c][g]) <= Len(Array(MountsIn[c][g]))
           /\ \A i \in 1..Len(MountsIn[c][g]) :
                 Array(MountsIn[c][g])[i] = MountsIn[c][g][i]
    BY <1>1, ArrayExtends
  <1>3. \A g \in Range1 : \A i \in 1..Len(MountsIn[c][g]) : MountsIn[c][g][i] \in Mount
    BY <1>1
  <1>4. \A g \in Range1 : Load(c).arrays[g] = Array(MountsIn[c][g])
    BY DEF Load
  <1>5. Load(c) \in LoadType /\ Load(c).content = c
    BY <1>2 DEF Load, LoadType
  <1>6. \A g \in Range1 : \A i \in 1..Len(MountsIn[c][g]) : Array(MountsIn[c][g])[i] # None
    BY <1>2, <1>3, BootAssumption
  <1> QED BY <1>2, <1>4, <1>5, <1>6

\* Another load, and the others as they were.
LEMMA LoadAppended ==
    ASSUME NEW ls \in Seq(LoadType), NEW c \in Contents
    PROVE  /\ Append(ls, Load(c)) \in Seq(LoadType)
           /\ Len(Append(ls, Load(c))) = Len(ls) + 1
           /\ \A l \in 1..Len(ls) : Append(ls, Load(c))[l] = ls[l]
           /\ Append(ls, Load(c))[Len(ls) + 1] = Load(c)
  BY LoadFilled

\* Decoding makes a mount of a mount.
LEMMA DecodedIsMount ==
    ASSUME NEW b \in Boots, NEW m \in Mount
    PROVE  Decoded(b, m) \in Mount
  BY DEF Decoded, Mount

InPlace(array, claims, given) ==
    [i \in DOMAIN array |->
        IF i \in (given + 1)..(given + Len(claims)) THEN claims[i - given] ELSE array[i]]

DecodedFirst(b, array, length) ==
    [i \in DOMAIN array |-> IF i <= length THEN Decoded(b, array[i]) ELSE array[i]]

\* Claims put behind the given mounts of an array, in their room.
LEMMA ClaimsInPlace ==
    ASSUME NEW array \in Seq(Mount \union {None}), NEW claims \in Seq(Mount), NEW given \in Nat,
           given + Len(claims) <= Len(array), \A i \in 1..given : array[i] # None
    PROVE  /\ InPlace(array, claims, given) \in Seq(Mount \union {None})
           /\ Len(InPlace(array, claims, given)) = Len(array)
           /\ \A i \in 1..Len(array) : array[i] # None => InPlace(array, claims, given)[i] # None
           /\ \A i \in 1..(given + Len(claims)) : InPlace(array, claims, given)[i] # None
  <1> DEFINE a == InPlace(array, claims, given)
             length == given + Len(claims)
  <1>1. Len(claims) \in Nat /\ Len(array) \in Nat /\ length \in Nat
    OBVIOUS
  <1>2. \A i \in (given + 1)..length : i - given \in 1..Len(claims)
    BY <1>1
  <1>3. \A i \in (given + 1)..length : claims[i - given] \in Mount
    BY <1>2
  <1>4. \A i \in 1..Len(array) : array[i] \in Mount \union {None}
    OBVIOUS
  <1>5. /\ DOMAIN a = 1..Len(array)
        /\ \A i \in 1..Len(array) :
              a[i] = IF i \in (given + 1)..length THEN claims[i - given] ELSE array[i]
    BY DEF InPlace
  <1>6. \A i \in 1..Len(array) : a[i] \in Mount \union {None}
    BY <1>3, <1>4, <1>5
  <1>7. a \in [1..Len(array) -> Mount \union {None}]
    BY <1>6 DEF InPlace
  <1>8. a \in Seq(Mount \union {None}) /\ Len(a) = Len(array)
    BY <1>1, <1>7
  <1>9. \A i \in 1..length : i \in 1..given \/ i \in (given + 1)..length
    BY <1>1
  <1>10. \A i \in 1..length : i \in 1..Len(array)
    BY <1>1
  <1>11. \A i \in 1..length : a[i] # None
    BY <1>3, <1>5, <1>9, <1>10, BootAssumption
  <1> QED BY <1>3, <1>5, <1>8, <1>11, BootAssumption

\* The given mounts, copied to an array of their own, and the claims.
LEMMA ClaimsElsewhere ==
    ASSUME NEW array \in Seq(Mount \union {None}), NEW claims \in Seq(Mount), NEW given \in Nat,
           given <= Len(array), \A i \in 1..given : array[i] # None
    PROVE  SubSeq(array, 1, given) \o claims \in Seq(Mount)
  <1>1. \A i \in 1..given : i \in 1..Len(array)
    OBVIOUS
  <1>2. \A i \in 1..given : array[i] \in Mount
    BY <1>1
  <1>3. SubSeq(array, 1, given) = [i \in 1..given |-> array[i]]
    BY <1>1
  <1>4. SubSeq(array, 1, given) \in Seq(Mount)
    BY <1>2, <1>3
  <1> QED BY <1>4

\* The first names of an array decoded in place.
LEMMA DecodedInPlace ==
    ASSUME NEW b \in Boots, NEW array \in Seq(Mount \union {None}), NEW length \in Nat,
           length <= Len(array), \A i \in 1..length : array[i] # None
    PROVE  /\ DecodedFirst(b, array, length) \in Seq(Mount \union {None})
           /\ Len(DecodedFirst(b, array, length)) = Len(array)
           /\ \A i \in 1..Len(array) : array[i] # None => DecodedFirst(b, array, length)[i] # None
           /\ \A i \in 1..length : DecodedFirst(b, array, length)[i] # None
  <1> DEFINE a == DecodedFirst(b, array, length)
  <1>1. \A i \in 1..length : i \in 1..Len(array)
    OBVIOUS
  <1>2. \A i \in 1..Len(array) : array[i] \in Mount \union {None}
    OBVIOUS
  <1>3. \A i \in 1..length : Decoded(b, array[i]) \in Mount
    BY <1>1, <1>2, DecodedIsMount
  <1>4. /\ DOMAIN a = 1..Len(array)
        /\ \A i \in 1..Len(array) : a[i] = IF i <= length THEN Decoded(b, array[i]) ELSE array[i]
    BY DEF DecodedFirst
  <1>5. \A i \in 1..Len(array) : i <= length => i \in 1..length
    OBVIOUS
  <1>6. \A i \in 1..Len(array) : a[i] \in Mount \union {None}
    BY <1>2, <1>3, <1>4, <1>5
  <1>7. a \in [1..Len(array) -> Mount \union {None}]
    <2>1. a = [i \in 1..Len(array) |-> a[i]]
      BY <1>4 DEF DecodedFirst
    <2> HIDE DEF a
    <2> QED BY <1>6, <2>1
  <1>8. a \in Seq(Mount \union {None}) /\ Len(a) = Len(array)
    BY <1>7
  <1>9. \A i \in 1..length : a[i] # None
    BY <1>1, <1>3, <1>4, <1>5, BootAssumption
  <1> QED BY <1>3, <1>4, <1>5, <1>8, <1>9, BootAssumption

----------------------------------------------------------------------------
(* Types, and slices that read mounts *)

Types == TypeOK /\ SlicesFilled

LEMMA TypesInit ==
    ASSUME Init
    PROVE  Types
  <1>1. stored \in Contents /\ Load(stored) \in LoadType
    BY LoadFilled DEF Init
  <1>2. loads \in Seq(LoadType) /\ Len(loads) = 1 /\ loads[1] = Load(stored)
    BY <1>1 DEF Init
  <1>3. 1 \in Range1
    BY ConfigAssumption DEF Range1
  <1>4. NoRequest \in RequestType /\ NoPass \in PassType
    BY <1>3 DEF NoRequest, NoPass, RequestType, PassType, RequestStages, Texts
  <1>5. TypeOK
    BY <1>1, <1>2, <1>3, <1>4 DEF Init, TypeOK, Texts, Loads, LoadType, RequestType, PassType
  <1>6. SlicesFilled
    BY <1>1, <1>2, LoadFilled DEF Init, SlicesFilled, Loads, NoPass
  <1> QED BY <1>5, <1>6 DEF Types

\* The loads only gain one.
LEMMA AppendKeepsTypes ==
    ASSUME Types, NEW c \in Contents, loads' = Append(loads, Load(c)),
           globals' \in [Range1 -> Loads'], request' \in [Requests -> RequestType'],
           stored' = stored, mounted' = mounted, standby' \in Contents \union {None},
           since' \subseteq {"overlap", "refused", "overlooked", "takeover"}, requests' = requests,
           pass' = pass \/ pass' = [b \in Boots |-> NoPass]
    PROVE  Types'
  <1>1. loads \in Seq(LoadType)
    BY DEF Types, TypeOK, LoadType
  <1>2. /\ loads' \in Seq(LoadType)
        /\ Len(loads') = Len(loads) + 1
        /\ \A l \in 1..Len(loads) : loads'[l] = loads[l]
        /\ loads'[Len(loads) + 1] = Load(c)
    BY <1>1, LoadAppended
  <1>3. Loads \subseteq Loads' /\ Loads' = Loads \union {Len(loads) + 1}
    BY <1>1, <1>2 DEF Loads
  <1>4. 1 \in Range1
    BY ConfigAssumption DEF Range1
  <1>5. pass' \in [Boots -> PassType']
    BY <1>3, <1>4 DEF Types, TypeOK, PassType, NoPass, Range1
  <1>6. TypeOK'
    BY <1>2, <1>5 DEF Types, TypeOK, LoadType, RequestType, PassType
  <1>7. ASSUME NEW l \in Loads', NEW g \in Range1
        PROVE  LET given == Len(MountsIn[loads'[l].content][g])
               IN /\ given <= Len(loads'[l].arrays[g])
                  /\ \A i \in 1..given : loads'[l].arrays[g][i] # None
    <2>1. CASE l \in Loads
      BY <2>1, <1>2 DEF Types, SlicesFilled, Loads
    <2>2. CASE l = Len(loads) + 1
      BY SMTT(30), <2>2, <1>2, LoadFilled
    <2> QED BY <1>3, <2>1, <2>2
  <1>8. ASSUME NEW b \in Boots
        PROVE  /\ pass'[b].stage # "idle" => pass'[b].load \in Loads'
               /\ pass'[b].stage \in {"decode", "send"} /\ pass'[b].own = None =>
                     LET array == loads'[pass'[b].load].arrays[pass'[b].global]
                     IN pass'[b].length <= Len(array) /\ \A i \in 1..pass'[b].length : array[i] # None
    <2>1. CASE pass' = pass
      <3>1. CASE pass[b].stage = "idle"
        BY <2>1, <3>1
      <3>2. CASE pass[b].stage # "idle"
        <4>1. pass[b].load \in Loads /\ loads'[pass[b].load] = loads[pass[b].load]
          BY <3>2, <1>2 DEF Types, SlicesFilled, Loads
        <4> QED BY <2>1, <3>2, <4>1, <1>3 DEF Types, SlicesFilled
      <3> QED BY <3>1, <3>2
    <2>2. CASE pass' = [x \in Boots |-> NoPass]
      BY <2>2 DEF NoPass
    <2> QED BY <2>1, <2>2
  <1>9. SlicesFilled'
    BY <1>7, <1>8 DEF SlicesFilled
  <1> QED BY <1>6, <1>9 DEF Types

LEMMA RequestsKeepTypes ==
    ASSUME Types, InstallsInOrder, NEW r \in Requests,
           (\E text \in Texts : Submit(r, text)) \/ Deny(r) \/ Validate(r) \/ Assign(r)
               \/ Answer(r) \/ Overlook(r) \/ Drop(r)
    PROVE  Types'
  <1>1. /\ request[r] \in RequestType /\ request \in [Requests -> RequestType]
        /\ stored \in Texts /\ globals \in [Range1 -> Loads] /\ loads \in Seq(LoadType)
        /\ 1 \in Range1 /\ NoRequest \in RequestType /\ requests \in Nat
    BY ConfigAssumption, SMTT(30) DEF Types, TypeOK, RequestType, LoadType, Range1, NoRequest, RequestStages, Texts
  <1>2. ASSUME loads' = loads, pass' = pass, mounted' = mounted, standby' = standby,
               stored' \in Texts, globals' \in [Range1 -> Loads],
               request' \in [Requests -> RequestType], requests' \in Nat,
               since' \subseteq {"overlap", "refused", "overlooked", "takeover"}
        PROVE  Types'
    BY <1>2, SMTT(30) DEF Types, TypeOK, SlicesFilled, RequestType, Loads
  <1>3. ASSUME NEW text \in Texts, Submit(r, text)
        PROVE  Types'
    <2>1. [NoRequest EXCEPT !.stage = "called", !.text = text, !.waiting = TRUE] \in RequestType
      BY <1>1 DEF RequestType, RequestStages, NoRequest
    <2>2. request' \in [Requests -> RequestType]
      BY <1>1, <1>3, <2>1 DEF Submit
    <2>3. requests' = requests + 1
      BY <1>3 DEF Submit
    <2>4. requests' \in Nat
      BY <1>1, <2>3
    <2> QED BY <1>1, <1>2, <1>3, <2>2, <2>4 DEF Submit, Types, TypeOK
  <1>4. CASE Deny(r) \/ Drop(r)
    BY <1>1, <1>2, <1>4, ZenonT(60) DEF Deny, Drop, Types, TypeOK
  <1>5. CASE Validate(r)
    <2>1. request[r].text \in Contents
      BY <1>1, <1>5 DEF Validate, Installing, RequestType, Texts
    <2>2. loads' = Append(loads, Load(request[r].text))
      BY <1>5 DEF Validate, Installing
    <2>3. Loads' = Loads \union {Len(loads) + 1} /\ Len(loads) + 1 \in Loads'
      BY <2>1, <2>2, <1>1, LoadAppended DEF Loads
    <2>4. request' \in [Requests -> RequestType']
      <3>1. ASSUME NEW o \in Requests
            PROVE  request'[o] \in RequestType'
        <4>1. request[o] \in RequestType
          BY <1>1
        <4>2. CASE o = r
          BY <1>5, <2>3, <4>1, <4>2 DEF Validate, Installing, RequestType, RequestStages
        <4>3. CASE o # r
          BY <1>5, <2>3, <4>1, <4>3 DEF Validate, Installing, RequestType
        <4> QED BY <4>2, <4>3
      <3> QED BY <1>5, <3>1 DEF Validate, Installing
    <2>5. globals' \in [Range1 -> Loads']
      BY <1>1, <1>5, <2>3 DEF Validate, Installing
    <2> QED BY <2>1, <2>2, <2>4, <2>5, <1>5, AppendKeepsTypes
            DEF Validate, Installing, Types, TypeOK
  <1>6. CASE Assign(r)
    <2>1. request[r].load \in Loads /\ request[r].next \in Range1
      BY <1>1, <1>6 DEF Assign, InstallsInOrder, InProgress, RequestType
    <2>2. globals' \in [Range1 -> Loads]
      BY <1>1, <1>6, <2>1 DEF Assign
    <2>3. request[r].next # Globals => request[r].next + 1 \in Range1
      BY <2>1, ConfigAssumption DEF Range1
    <2>4. [request[r] EXCEPT !.stage = IF request[r].next = Globals THEN "allowed" ELSE @,
                             !.next = IF request[r].next = Globals THEN @ ELSE request[r].next + 1]
             \in RequestType
      BY <1>1, <2>1, <2>3 DEF RequestType, RequestStages
    <2>5. request' \in [Requests -> RequestType]
      BY <1>1, <1>6, <2>4 DEF Assign
    <2> QED BY <1>2, <1>6, <2>2, <2>5 DEF Assign, Types, TypeOK
  <1>7. CASE Answer(r)
    BY <1>1, <1>2, <1>7, ZenonT(60) DEF Answer, RequestType, Types, TypeOK
  <1>8. CASE Overlook(r)
    <2>1. request' \in [Requests -> RequestType]
      BY <1>1, <1>8 DEF Overlook, RequestType
    <2> QED BY <1>1, <1>2, <1>8, <2>1 DEF Overlook, RequestType, Types, TypeOK
  <1> QED BY <1>3, <1>4, <1>5, <1>6, <1>7, <1>8

LEMMA ProcessesKeepTypes ==
    ASSUME Types, Remount \/ InitByFile \/ TakeOver
    PROVE  Types'
  <1>1. CASE Remount \/ InitByFile
    <2>1. mounted' \in Texts /\ standby' \in Contents \union {None}
      BY <1>1 DEF Remount, InitByFile, Types, TypeOK, Texts
    <2>2. UNCHANGED <<stored, loads, globals, request, pass, since, requests>>
      BY <1>1 DEF Remount, InitByFile
    <2>3. /\ stored' \in Texts /\ loads' \in Seq(LoadType) /\ globals' \in [Range1 -> Loads]
          /\ request' \in [Requests -> RequestType] /\ pass' \in [Boots -> PassType]
          /\ since' \subseteq {"overlap", "refused", "overlooked", "takeover"} /\ requests' \in Nat
      BY <2>2 DEF Types, TypeOK, LoadType, RequestType, PassType
    <2>4. Loads' = Loads
      BY <2>2 DEF Loads
    <2>5. TypeOK'
      BY <2>1, <2>3, <2>4 DEF TypeOK, LoadType, RequestType, PassType
    <2>6. SlicesFilled'
      <3>1. SlicesFilled
        BY DEF Types
      <3> QED BY <2>2, <2>4, <3>1 DEF SlicesFilled
    <2> QED BY <2>5, <2>6 DEF Types
  <1>2. CASE TakeOver
    <2>1. standby \in Contents /\ loads \in Seq(LoadType) /\ request \in [Requests -> RequestType]
      BY <1>2 DEF TakeOver, Types, TypeOK, LoadType, RequestType
    <2>2. loads' = Append(loads, Load(standby))
      BY <1>2 DEF TakeOver
    <2>7. Len(loads) + 1 \in Loads'
      BY <2>1, <2>2, LoadAppended DEF Loads
    <2>3. globals' \in [Range1 -> Loads']
      BY <1>2, <2>7 DEF TakeOver
    <2>4. 1 \in Range1
      BY ConfigAssumption DEF Range1
    <2>5. request' \in [Requests -> RequestType']
      <3>1. NoRequest \in RequestType'
        BY <2>4 DEF RequestType, NoRequest, RequestStages, Texts
      <3>2. ASSUME NEW r \in Requests
            PROVE  [NoRequest EXCEPT !.stage = "lost", !.text = request[r].text, !.waiting = TRUE]
                       \in RequestType'
        BY <2>1, <2>4, <3>1 DEF RequestType, NoRequest, RequestStages
      <3> QED BY <1>2, <3>1, <3>2 DEF TakeOver
    <2>6. since' \subseteq {"overlap", "refused", "overlooked", "takeover"}
      BY <1>2 DEF TakeOver
    <2> QED BY <1>2, <2>1, <2>2, <2>3, <2>5, <2>6, AppendKeepsTypes DEF TakeOver
  <1> QED BY <1>1, <1>2

\* A pass that changes an array puts mounts in the place of mounts, or of nothing.
LEMMA WriteKeepsTypes ==
    ASSUME Types, NEW b \in Boots, NEW q, pass' = [pass EXCEPT ![b] = q],
           NEW l \in Loads, NEW g \in Range1, NEW a \in Seq(Mount \union {None}),
           loads' = [loads EXCEPT ![l].arrays[g] = a],
           Len(a) = Len(loads[l].arrays[g]),
           \A i \in 1..Len(loads[l].arrays[g]) : loads[l].arrays[g][i] # None => a[i] # None,
           q \in PassType, q.load = l, q.global = g,
           q.own = None => q.length <= Len(a) /\ \A i \in 1..q.length : a[i] # None,
           UNCHANGED <<stored, mounted, standby, globals, request, since, requests>>
    PROVE  Types'
  <1>1. loads \in Seq(LoadType)
    BY DEF Types, TypeOK, LoadType
  <1>12. /\ \A m \in Loads : loads[m] \in LoadType
         /\ loads[l].arrays \in [Range1 -> Seq(Mount \union {None})]
    <2>1. \A m \in Loads : loads[m] \in LoadType
      BY <1>1 DEF Loads
    <2> QED BY <2>1 DEF LoadType
  <1>2. [loads[l] EXCEPT !.arrays[g] = a] \in LoadType
    BY <1>12 DEF LoadType
  <1>3. loads' = [loads EXCEPT ![l] = [loads[l] EXCEPT !.arrays[g] = a]]
    BY <1>1 DEF Loads
  <1>4. loads' \in Seq(LoadType) /\ Len(loads') = Len(loads)
    BY <1>1, <1>12, <1>2, <1>3 DEF Loads
  <1>5. Loads' = Loads
    BY <1>4 DEF Loads
  <1>6. ASSUME NEW m \in Loads, NEW h \in Range1
        PROVE  /\ loads'[m].content = loads[m].content
               /\ loads'[m].arrays[h] = IF m = l /\ h = g THEN a ELSE loads[m].arrays[h]
    BY <1>1, <1>12, <1>3 DEF Loads, LoadType
  <1>7. pass' \in [Boots -> PassType]
    BY DEF Types, TypeOK, PassType
  <1>8. TypeOK'
    BY <1>4, <1>5, <1>7 DEF Types, TypeOK, LoadType, PassType, RequestType
  <1>9. ASSUME NEW m \in Loads, NEW h \in Range1
        PROVE  LET given == Len(MountsIn[loads'[m].content][h])
               IN /\ given <= Len(loads'[m].arrays[h])
                  /\ \A i \in 1..given : loads'[m].arrays[h][i] # None
    <2> DEFINE given == Len(MountsIn[loads[m].content][h])
    <2>1. given <= Len(loads[m].arrays[h]) /\ \A i \in 1..given : loads[m].arrays[h][i] # None
      BY DEF Types, SlicesFilled
    <2>2. loads[m].content \in Contents
      BY <1>12 DEF LoadType
    <2>3. given \in Nat
      BY <2>2, ConfigAssumption, SMTT(30) DEF Range1
    <2>4. CASE m = l /\ h = g
      BY <1>6, <2>1, <2>3, <2>4
    <2>5. CASE ~(m = l /\ h = g)
      BY <1>6, <2>1, <2>5
    <2> QED BY <2>4, <2>5
  <1>10. ASSUME NEW c \in Boots
         PROVE  /\ pass'[c].stage # "idle" => pass'[c].load \in Loads
                /\ pass'[c].stage \in {"decode", "send"} /\ pass'[c].own = None =>
                      LET array == loads'[pass'[c].load].arrays[pass'[c].global]
                      IN pass'[c].length <= Len(array) /\ \A i \in 1..pass'[c].length : array[i] # None
    <2>1. CASE c = b
      <3>1. pass'[c] = q
        BY <2>1 DEF Types, TypeOK
      <3>2. loads'[l].arrays[g] = a
        BY <1>6
      <3> QED BY <3>1, <3>2
    <2>2. CASE c # b
      <3>1. pass'[c] = pass[c] /\ pass[c] \in PassType
        BY SMTT(30), <2>2 DEF Types, TypeOK, PassType
      <3>2. CASE pass[c].stage \in {"decode", "send"} /\ pass[c].own = None
        <4> DEFINE array == loads[pass[c].load].arrays[pass[c].global]
        <4>1. /\ pass[c].load \in Loads /\ pass[c].length <= Len(array)
              /\ \A i \in 1..pass[c].length : array[i] # None
          BY <3>2 DEF Types, SlicesFilled
        <4>2. pass[c].global \in Range1 /\ pass[c].length \in Nat
          BY <3>1 DEF PassType
        <4>3. CASE pass[c].load = l /\ pass[c].global = g
          BY <1>6, <3>1, <4>1, <4>2, <4>3
        <4>4. CASE ~(pass[c].load = l /\ pass[c].global = g)
          <5>1. loads'[pass[c].load].arrays[pass[c].global] = array
            BY SMTT(30), <1>6, <4>1, <4>2, <4>4
          <5> QED BY <3>1, <4>1, <5>1, Zenon
        <4> QED BY <4>3, <4>4
      <3>3. CASE ~(pass[c].stage \in {"decode", "send"} /\ pass[c].own = None)
        BY SMTT(30), <3>1, <3>3 DEF Types, SlicesFilled
      <3> QED BY <3>2, <3>3
    <2> QED BY <2>1, <2>2
  <1>11. SlicesFilled'
    BY <1>5, <1>9, <1>10 DEF SlicesFilled
  <1> QED BY <1>8, <1>11 DEF Types

\* A pass moves on, and no array changes.
LEMMA MoveKeepsTypes ==
    ASSUME Types, NEW b \in Boots, NEW q \in PassType, pass' = [pass EXCEPT ![b] = q],
           q.stage # "idle" => q.load \in Loads,
           q.stage \in {"decode", "send"} /\ q.own = None =>
               LET array == loads[q.load].arrays[q.global]
               IN q.length <= Len(array) /\ \A i \in 1..q.length : array[i] # None,
           UNCHANGED <<stored, mounted, standby, loads, globals, request, since, requests>>
    PROVE  Types'
  <1>1. pass' \in [Boots -> PassType]
    BY DEF Types, TypeOK, PassType
  <1>2. TypeOK'
    BY <1>1 DEF Types, TypeOK, PassType, Loads
  <1>3. \A c \in Boots : pass'[c] = IF c = b THEN q ELSE pass[c]
    BY DEF Types, TypeOK
  <1>4. SlicesFilled'
    BY <1>3 DEF Types, SlicesFilled, Loads
  <1> QED BY <1>2, <1>4 DEF Types

\* What a pass knows of the array its container's mounts begin in.
LEMMA PassArray ==
    ASSUME Types, NEW b \in Boots, pass[b].stage # "idle"
    PROVE  /\ pass[b] \in PassType /\ pass[b].load \in Loads /\ pass[b].global \in Range1
           /\ loads[pass[b].load].content \in Contents
           /\ loads[pass[b].load].arrays[pass[b].global] \in Seq(Mount \union {None})
           /\ MountsIn[loads[pass[b].load].content][pass[b].global] \in Seq(Mount)
  <1>1. pass[b] \in PassType /\ pass[b].load \in Loads
    BY DEF Types, TypeOK, PassType, SlicesFilled
  <1>2. loads \in Seq(LoadType)
    BY DEF Types, TypeOK, LoadType
  <1>3. loads[pass[b].load] \in LoadType
    BY <1>1, <1>2 DEF Loads
  <1>4. pass[b].global \in Range1
    BY <1>1 DEF PassType
  <1>5. /\ loads[pass[b].load].content \in Contents
        /\ loads[pass[b].load].arrays \in [Range1 -> Seq(Mount \union {None})]
    BY <1>3 DEF LoadType
  <1>6. MountsIn[loads[pass[b].load].content] \in [Range1 -> Seq(Mount)]
    BY <1>5, ConfigAssumption DEF Range1
  <1> QED BY <1>1, <1>4, <1>5, <1>6

LEMMA AppendClaimsKeepsTypes ==
    ASSUME Types, NEW b \in Boots, AppendClaims(b)
    PROVE  Types'
  <1> DEFINE p == pass[b]
             array == loads[p.load].arrays[p.global]
             mounts == MountsIn[loads[p.load].content][p.global]
             given == Len(mounts)
             claims == ClaimsOf[b]
             length == given + Len(claims)
             stage == IF claims = <<>> THEN "send" ELSE "decode"
  <1>1. p.stage = "append"
    BY Zenon DEF AppendClaims
  <1>2. /\ p \in PassType /\ p.load \in Loads /\ p.global \in Range1
        /\ array \in Seq(Mount \union {None}) /\ mounts \in Seq(Mount)
    BY SMTT(30), <1>1, PassArray
  <1>3. claims \in Seq(Mount)
    BY BootAssumption
  <1>4. given \in Nat /\ Len(claims) \in Nat /\ length \in Nat
    <2> HIDE DEF array, mounts, claims
    <2> QED BY <1>2, <1>3
  <1>5. given <= Len(array) /\ \A i \in 1..given : array[i] # None
    BY <1>2 DEF Types, SlicesFilled
  <1>6. CASE length <= Len(array)
    <2> DEFINE a == InPlace(array, claims, given)
               q == [p EXCEPT !.stage = stage, !.length = length, !.own = None]
    <2>1. pass' = [pass EXCEPT ![b] = q]
      BY <1>6, Zenon DEF AppendClaims
    <2>2. loads' = [loads EXCEPT ![p.load].arrays[p.global] = a]
      BY <1>6, Zenon DEF AppendClaims, InPlace
    <2>4. /\ a \in Seq(Mount \union {None}) /\ Len(a) = Len(array)
          /\ \A i \in 1..Len(array) : array[i] # None => a[i] # None
          /\ \A i \in 1..length : a[i] # None
      <3> HIDE DEF array, claims, given
      <3> QED BY <1>2, <1>3, <1>4, <1>5, <1>6, ClaimsInPlace
    <2>7. q \in PassType /\ q.load = p.load /\ q.global = p.global /\ q.length = length
      BY <1>2, <1>4 DEF PassType
    <2>8. UNCHANGED <<stored, mounted, standby, globals, request, since, requests>>
      BY Zenon DEF AppendClaims
    <2>9. q.length <= Len(a) /\ \A i \in 1..q.length : a[i] # None
      BY <1>6, <2>4, <2>7, Zenon
    <2> HIDE DEF a, q, p, length
    <2> QED BY <1>2, <2>1, <2>2, <2>4, <2>7, <2>8, <2>9, WriteKeepsTypes
  <1>7. CASE ~(length <= Len(array))
    <2> DEFINE q == [p EXCEPT !.stage = stage, !.length = length,
                              !.own = SubSeq(array, 1, given) \o claims]
    <2>1. pass' = [pass EXCEPT ![b] = q] /\ loads' = loads
      BY <1>7, Zenon DEF AppendClaims
    <2>4. SubSeq(array, 1, given) \o claims \in Seq(Mount)
      <3> HIDE DEF array, claims, given
      <3> QED BY <1>2, <1>3, <1>4, <1>5, ClaimsElsewhere
    <2>5. q \in PassType /\ q.load = p.load /\ q.own # None
      BY <1>2, <1>4, <2>4, BootAssumption, Zenon DEF PassType
    <2>6. UNCHANGED <<stored, mounted, standby, globals, request, since, requests>>
      BY DEF AppendClaims
    <2> HIDE DEF q, p
    <2> QED BY <1>2, <2>1, <2>5, <2>6, MoveKeepsTypes
  <1> QED BY <1>6, <1>7

LEMMA DecodeKeepsTypes ==
    ASSUME Types, NEW b \in Boots, DecodeVolumeMounts(b)
    PROVE  Types'
  <1> DEFINE p == pass[b]
             array == loads[p.load].arrays[p.global]
  <1>1. p.stage = "decode"
    BY Zenon DEF DecodeVolumeMounts
  <1>2. /\ p \in PassType /\ p.load \in Loads /\ p.global \in Range1
        /\ array \in Seq(Mount \union {None})
    BY <1>1, PassArray
  <1>3. CASE p.own = None
    <2> DEFINE a == DecodedFirst(b, array, p.length)
               q == [p EXCEPT !.stage = "send"]
    <2>1. p.length \in Nat /\ p.length <= Len(array) /\ \A i \in 1..p.length : array[i] # None
      BY <1>1, <1>2, <1>3 DEF Types, SlicesFilled, PassType
    <2>3. /\ a \in Seq(Mount \union {None}) /\ Len(a) = Len(array)
          /\ \A i \in 1..Len(array) : array[i] # None => a[i] # None
          /\ \A i \in 1..p.length : a[i] # None
      <3> HIDE DEF array, p
      <3> QED BY <1>2, <2>1, DecodedInPlace
    <2>6. q \in PassType /\ q.load = p.load /\ q.global = p.global /\ q.length = p.length
      BY SMTT(30), <1>2 DEF PassType
    <2>7. pass' = [pass EXCEPT ![b] = q]
      BY <1>3 DEF DecodeVolumeMounts, Types, TypeOK
    <2>8. loads' = [loads EXCEPT ![p.load].arrays[p.global] = a]
      BY <1>3, Zenon DEF DecodeVolumeMounts, DecodedFirst
    <2>9. UNCHANGED <<stored, mounted, standby, globals, request, since, requests>>
      BY Zenon DEF DecodeVolumeMounts
    <2>10. q.length <= Len(a) /\ \A i \in 1..q.length : a[i] # None
      BY <2>1, <2>3, <2>6, Zenon
    <2> HIDE DEF a, q, p
    <2> QED BY <1>2, <2>3, <2>6, <2>7, <2>8, <2>9, <2>10, WriteKeepsTypes
  <1>4. CASE p.own # None
    <2> DEFINE q == [p EXCEPT !.stage = "send", !.own = [i \in DOMAIN p.own |-> Decoded(b, p.own[i])]]
    <2>1. p.own \in Seq(Mount)
      BY <1>2, <1>4 DEF PassType
    <2>2. \A i \in 1..Len(p.own) : Decoded(b, p.own[i]) \in Mount
      BY <2>1, DecodedIsMount
    <2>3. [i \in DOMAIN p.own |-> Decoded(b, p.own[i])] \in Seq(Mount)
      BY <2>1, <2>2
    <2>4. q \in PassType /\ q.load = p.load /\ q.own # None
      BY <1>2, <2>3, BootAssumption DEF PassType
    <2>5. pass' = [pass EXCEPT ![b] = q] /\ loads' = loads
      BY <1>4 DEF DecodeVolumeMounts, Types, TypeOK
    <2>6. UNCHANGED <<stored, mounted, standby, globals, request, since, requests>>
      BY DEF DecodeVolumeMounts
    <2> HIDE DEF q, p
    <2> QED BY <1>2, <2>4, <2>5, <2>6, MoveKeepsTypes
  <1> QED BY <1>3, <1>4

LEMMA WorkersKeepTypes ==
    ASSUME Types, NEW b \in Boots,
           Start(b) \/ AppendClaims(b) \/ DecodeVolumeMounts(b) \/ Send(b)
    PROVE  Types'
  <1>1. CASE Start(b)
    <2> DEFINE q == [NoPass EXCEPT !.stage = "append", !.load = globals[ConfigOf(b)],
                                   !.global = ConfigOf(b)]
    <2>1. ConfigOf(b) \in Range1
      BY BootAssumption, ConfigAssumption DEF ConfigOf, Range1
    <2>2. globals[ConfigOf(b)] \in Loads
      BY <2>1 DEF Types, TypeOK
    <2>3. q \in PassType /\ q.stage = "append" /\ q.load \in Loads
      BY <2>1, <2>2 DEF NoPass, PassType
    <2>4. pass' = [pass EXCEPT ![b] = q]
      BY <1>1 DEF Start
    <2>5. UNCHANGED <<stored, mounted, standby, loads, globals, request, since, requests>>
      BY <1>1 DEF Start
    <2> HIDE DEF q
    <2> QED BY <2>3, <2>4, <2>5, MoveKeepsTypes
  <1>2. CASE Send(b)
    <2>1. NoPass \in PassType /\ NoPass.stage = "idle"
      BY ConfigAssumption DEF NoPass, PassType, Range1
    <2> QED BY <1>2, <2>1, MoveKeepsTypes DEF Send
  <1> QED BY <1>1, <1>2, AppendClaimsKeepsTypes, DecodeKeepsTypes

----------------------------------------------------------------------------
(* Requests *)

\* What is in use is what is stored.
InUse ==
    (\A r \in Requests : ~InProgress(r)) /\ since = {}
        => \A g \in Range1 : loads[globals[g]].content = stored

LEMMA IInvParts ==
    IInv <=> Types /\ InstallsInOrder /\ OverlapIsNoted /\ OneConfiguration /\ InUse
  BY DEF IInv, Types, InUse

\* A load keeps its name while arrays change.
LEMMA ContentStays ==
    ASSUME Types, NEW b \in Boots,
           Start(b) \/ AppendClaims(b) \/ DecodeVolumeMounts(b) \/ Send(b)
    PROVE  Loads' = Loads /\ \A l \in Loads : loads'[l].content = loads[l].content
  <1>1. loads \in Seq(LoadType)
    BY DEF Types, TypeOK, LoadType
  <1>2. ASSUME NEW m \in Loads, NEW g, NEW a, loads' = [loads EXCEPT ![m].arrays[g] = a]
        PROVE  Loads' = Loads /\ \A l \in Loads : loads'[l].content = loads[l].content
    <2>1. \A l \in Loads : loads[l] \in LoadType
      BY <1>1 DEF Loads
    <2>2. Len(loads') = Len(loads)
      BY <1>1, <1>2
    <2>3. \A l \in Loads : loads'[l].content = loads[l].content
      BY <1>1, <1>2, <2>1 DEF Loads, LoadType
    <2> QED BY <2>2, <2>3 DEF Loads
  <1>3. CASE loads' = loads
    BY <1>3 DEF Loads
  <1>4. CASE AppendClaims(b) /\ loads' # loads
    <2>1. pass[b].load \in Loads
      BY <1>4, Zenon DEF AppendClaims, Types, SlicesFilled
    <2> QED BY <1>2, <1>4, <2>1, Zenon DEF AppendClaims
  <1>5. CASE DecodeVolumeMounts(b) /\ loads' # loads
    <2>1. pass[b].load \in Loads
      BY <1>5, Zenon DEF DecodeVolumeMounts, Types, SlicesFilled
    <2> QED BY <1>2, <1>5, <2>1, ZenonT(60) DEF DecodeVolumeMounts
  <1> QED BY <1>3, <1>4, <1>5 DEF Start, Send

\* Steps that concern no request, and no global.
LEMMA OthersKeepRequests ==
    ASSUME IInv, Loads' = Loads, \A l \in Loads : loads'[l].content = loads[l].content,
           UNCHANGED <<stored, globals, request, since>>
    PROVE  (InstallsInOrder /\ OverlapIsNoted /\ OneConfiguration /\ InUse)'
  <1>1. globals \in [Range1 -> Loads]
    BY DEF IInv, TypeOK
  <1>2. InstallsInOrder'
    BY DEF IInv, InstallsInOrder, InProgress
  <1>3. OverlapIsNoted' /\ OneConfiguration'
    BY DEF IInv, OverlapIsNoted, OneConfiguration, InProgress
  <1>4. InUse'
    BY <1>1, IInvParts DEF InUse, InProgress
  <1> QED BY <1>2, <1>3, <1>4

\* A request that is not being installed comes, goes, or changes what it is.
LEMMA CallsKeepRequests ==
    ASSUME IInv, NEW r \in Requests, ~InProgress(r), NEW q, q.stage \notin {"install", "allowed"},
           q.stage = "called" => q.next = 1,
           request' = [request EXCEPT ![r] = q],
           UNCHANGED <<loads, globals>>, since \subseteq since',
           stored' = stored \/ since' # {}
    PROVE  (InstallsInOrder /\ OverlapIsNoted /\ OneConfiguration /\ InUse)'
  <1>1. /\ request'[r] = q
        /\ \A o \in Requests \ {r} : request'[o] = request[o]
    BY DEF IInv, TypeOK
  <1>2. \A o \in Requests : InProgress(o)' <=> InProgress(o)
    BY <1>1 DEF InProgress
  <1>3. InstallsInOrder'
    <2>1. \A o \in Requests : InProgress(o) => request'[o] = request[o]
      BY <1>1
    <2>2. \A o \in Requests : request'[o].stage = "called" => request'[o].next = 1
      BY <1>1 DEF IInv, InstallsInOrder
    <2> QED BY <1>2, <2>1, <2>2 DEF IInv, InstallsInOrder, Loads
  <1>4. OverlapIsNoted'
    BY <1>1, <1>2 DEF IInv, OverlapIsNoted
  <1>5. OneConfiguration'
    BY <1>1 DEF IInv, OneConfiguration, InProgress
  <1>6. InUse'
    BY <1>2, IInvParts DEF InUse
  <1> QED BY <1>3, <1>4, <1>5, <1>6

LEMMA ValidateKeepsRequests ==
    ASSUME IInv, NEW r \in Requests, Validate(r)
    PROVE  (InstallsInOrder /\ OverlapIsNoted /\ OneConfiguration /\ InUse)'
  <1> DEFINE others == {o \in Requests \ {r} : InProgress(o)}
             text == request[r].text
  <1>1. /\ loads \in Seq(LoadType) /\ text \in Contents
        /\ request \in [Requests -> RequestType] /\ globals \in [Range1 -> Loads]
    BY DEF IInv, TypeOK, LoadType, RequestType, Validate, Installing, Texts
  <1>2. loads' = Append(loads, Load(text)) /\ globals' = globals
    BY DEF Validate, Installing
  <1>3. /\ Len(loads) + 1 \in Loads' /\ Loads \subseteq Loads'
        /\ loads'[Len(loads) + 1].content = text
        /\ \A l \in Loads : loads'[l].content = loads[l].content
    BY <1>1, <1>2, LoadAppended, LoadFilled DEF Loads
  <1>4. /\ request'[r].stage = "install" /\ request'[r].load = Len(loads) + 1
        /\ request'[r].text = text /\ request'[r].next = request[r].next
        /\ request'[r].waiting = request[r].waiting /\ request'[r].alone = (others = {})
    BY <1>1 DEF Validate, Installing, RequestType
  <1>5. ASSUME NEW o \in Requests \ {r}
        PROVE  /\ request'[o].stage = request[o].stage /\ request'[o].load = request[o].load
               /\ request'[o].text = request[o].text /\ request'[o].next = request[o].next
               /\ request'[o].waiting = request[o].waiting
               /\ request'[o].alone = (request[o].alone /\ o \notin others)
    BY <1>1, ZenonT(60) DEF Validate, Installing, RequestType
  <1>6. since' = since \union (IF others # {} THEN {"overlap"} ELSE {})
                       \union (IF request[r].waiting THEN {} ELSE {"overlooked"})
    BY DEF Validate, Installing
  <1> HIDE DEF text
  <1>7. InProgress(r)' /\ \A o \in Requests \ {r} : InProgress(o)' <=> InProgress(o)
    BY <1>4, <1>5 DEF InProgress
  <1>8. request[r].next = 1 /\ \A g \in Range1 : ~(g < 1)
    <2>1. request[r].stage = "called"
      BY DEF Validate, Installing
    <2>2. \A g \in Range1 : ~(g < 1)
      BY DEF Range1
    <2> QED BY <2>1, <2>2 DEF IInv, InstallsInOrder
  <1>9. InstallsInOrder'
    <2>1. ASSUME NEW o \in Requests, request'[o].stage = "called"
          PROVE  request'[o].next = 1
      BY <1>4, <1>5, <2>1 DEF IInv, InstallsInOrder
    <2>2. ASSUME NEW o \in Requests, InProgress(o)'
          PROVE  /\ request'[o].load \in Loads'
                 /\ loads'[request'[o].load].content = request'[o].text
                 /\ request'[o].waiting \/ since' # {}
      BY <1>3, <1>4, <1>5, <1>6, <1>7, <2>2 DEF IInv, InstallsInOrder
    <2>3. ASSUME NEW o \in Requests, InProgress(o)', request'[o].alone
          PROVE  /\ \A x \in Requests \ {o} : ~InProgress(x)'
                 /\ \A g \in Range1 : request'[o].stage = "allowed" \/ g < request'[o].next
                                        => globals'[g] = request'[o].load
      <3>1. CASE o = r
        BY <1>4, <1>7, <1>8, <2>3, <3>1
      <3>2. CASE o # r
        BY <1>5, <1>7, <2>3, <3>2
      <3> QED BY <3>1, <3>2
    <2> QED BY <2>1, <2>2, <2>3 DEF InstallsInOrder
  <1>10. OverlapIsNoted'
    <2>1. CASE others = {}
      <3>1. \A o \in Requests \ {r} : ~InProgress(o)'
        BY <1>7, <2>1
      <3> QED BY <1>4, <2>1, <3>1 DEF OverlapIsNoted
    <2>2. CASE others # {}
      BY <1>6, <2>2 DEF OverlapIsNoted
    <2> QED BY <2>1, <2>2
  <1>11. OneConfiguration' /\ InUse'
    BY <1>4, <1>7 DEF OneConfiguration, InUse
  <1> QED BY <1>9, <1>10, <1>11

LEMMA AssignKeepsRequests ==
    ASSUME IInv, NEW r \in Requests, Assign(r)
    PROVE  (InstallsInOrder /\ OverlapIsNoted /\ OneConfiguration /\ InUse)'
  <1> DEFINE next == request[r].next
             last == next = Globals
  <1>1. /\ request \in [Requests -> RequestType] /\ globals \in [Range1 -> Loads]
        /\ request[r].stage = "install" /\ next \in Range1
    BY DEF IInv, TypeOK, RequestType, Assign
  <1>2. /\ loads' = loads /\ Loads' = Loads /\ stored' = stored /\ since' = since
        /\ \A g \in Range1 : globals'[g] = IF g = next THEN request[r].load ELSE globals[g]
    BY <1>1 DEF Assign, Loads
  <1>3. /\ \A o \in Requests \ {r} : request'[o] = request[o]
        /\ request'[r].stage = IF last THEN "allowed" ELSE "install"
        /\ request'[r].next = IF last THEN next ELSE next + 1
        /\ request'[r].load = request[r].load /\ request'[r].text = request[r].text
        /\ request'[r].waiting = request[r].waiting /\ request'[r].alone = request[r].alone
    BY <1>1 DEF Assign, RequestType
  <1>4. \A o \in Requests : InProgress(o)' <=> InProgress(o)
    BY <1>1, <1>3 DEF InProgress
  <1>5. InProgress(r)
    BY <1>1 DEF InProgress
  <1>6. ASSUME request[r].alone, NEW g \in Range1, last \/ g < next + 1
        PROVE  globals'[g] = request[r].load
    <2>1. g \in Nat /\ next \in Nat /\ Globals \in Nat /\ g <= Globals
      BY <1>1, ConfigAssumption DEF Range1
    <2>2. g = next \/ g < next
      BY <1>6, <2>1
    <2>3. g < next => globals[g] = request[r].load
      BY <1>5, <1>6 DEF IInv, InstallsInOrder
    <2> QED BY <1>2, <2>2, <2>3
  <1>7. InstallsInOrder'
    <2>1. ASSUME NEW o \in Requests, request'[o].stage = "called"
          PROVE  request'[o].next = 1
      BY <1>3, <2>1 DEF IInv, InstallsInOrder
    <2>2. ASSUME NEW o \in Requests, InProgress(o)'
          PROVE  /\ request'[o].load \in Loads'
                 /\ loads'[request'[o].load].content = request'[o].text
                 /\ request'[o].waiting \/ since' # {}
      BY <1>2, <1>3, <1>4, <2>2 DEF IInv, InstallsInOrder
    <2>3. ASSUME NEW o \in Requests, InProgress(o)', request'[o].alone
          PROVE  /\ \A x \in Requests \ {o} : ~InProgress(x)'
                 /\ \A g \in Range1 : request'[o].stage = "allowed" \/ g < request'[o].next
                                        => globals'[g] = request'[o].load
      <3>1. o = r
        BY <1>3, <1>4, <1>5, <2>3 DEF IInv, InstallsInOrder
      <3>2. \A x \in Requests \ {o} : ~InProgress(x)'
        BY <1>3, <1>4, <2>3 DEF IInv, InstallsInOrder
      <3>3. ASSUME NEW g \in Range1, request'[o].stage = "allowed" \/ g < request'[o].next
            PROVE  globals'[g] = request'[o].load
        BY <1>3, <1>6, <2>3, <3>1, <3>3
      <3> QED BY <3>2, <3>3
    <2> QED BY <2>1, <2>2, <2>3 DEF InstallsInOrder
  <1>8. OverlapIsNoted'
    BY <1>2, <1>3, <1>4 DEF IInv, OverlapIsNoted
  <1>9. OneConfiguration'
    <2>1. CASE last /\ "overlap" \notin since
      <3>1. request[r].alone
        BY <1>5, <2>1 DEF IInv, OverlapIsNoted
      <3>2. \A g \in Range1 : globals'[g] = request[r].load
        BY <1>6, <2>1, <3>1
      <3> QED BY <3>2 DEF OneConfiguration
    <2>2. CASE ~last
      BY <1>3, <2>2 DEF OneConfiguration
    <2>3. CASE "overlap" \in since
      BY <1>2, <2>3 DEF OneConfiguration
    <2> QED BY <2>1, <2>2, <2>3
  <1>10. InUse'
    BY <1>4, <1>5 DEF InUse
  <1> QED BY <1>7, <1>8, <1>9, <1>10

LEMMA AnswerKeepsRequests ==
    ASSUME IInv, NEW r \in Requests, Answer(r)
    PROVE  (InstallsInOrder /\ OverlapIsNoted /\ OneConfiguration /\ InUse)'
  <1>1. /\ request \in [Requests -> RequestType] /\ globals \in [Range1 -> Loads]
        /\ request[r].stage = "allowed" /\ InProgress(r)
    BY DEF IInv, TypeOK, RequestType, Answer, InProgress
  <1>2. loads' = loads /\ globals' = globals /\ Loads' = Loads
    BY DEF Answer, Loads
  <1>3. request'[r] = NoRequest /\ \A o \in Requests \ {r} : request'[o] = request[o]
    BY <1>1 DEF Answer
  <1>4. ~InProgress(r)' /\ \A o \in Requests \ {r} : InProgress(o)' <=> InProgress(o)
    BY <1>3 DEF InProgress, NoRequest
  <1>5. \/ request[r].alone /\ request[r].waiting /\ stored' = request[r].text /\ since' = {}
        \/ ~request[r].alone /\ "overlap" \in since'
        \/ stored' = stored /\ since' = since \union {"refused"}
        \/ ~request[r].waiting /\ stored' = stored /\ since' = since
    BY DEF Answer
  <1>6. CASE request[r].alone
    <2>1. /\ \A o \in Requests : ~InProgress(o)'
          /\ \A g \in Range1 : globals[g] = request[r].load
      BY <1>1, <1>4, <1>6 DEF IInv, InstallsInOrder
    <2>2. InstallsInOrder'
      BY <1>3, <2>1 DEF IInv, InstallsInOrder, NoRequest
    <2>3. OverlapIsNoted' /\ OneConfiguration'
      BY <1>2, <2>1 DEF OverlapIsNoted, OneConfiguration
    <2>4. InUse'
      <3>1. CASE since' = {}
        <4>1. stored' = request[r].text
          BY <1>1, <1>5, <1>6, <3>1 DEF IInv, InstallsInOrder
        <4> QED BY <1>1, <1>2, <2>1, <4>1 DEF InUse, IInv, InstallsInOrder
      <3>2. CASE since' # {}
        BY <3>2 DEF InUse
      <3> QED BY <3>1, <3>2
    <2> QED BY <2>2, <2>3, <2>4
  <1>7. CASE ~request[r].alone
    <2>1. "overlap" \in since
      BY <1>1, <1>7 DEF IInv, OverlapIsNoted
    <2>2. "overlap" \in since'
      BY <1>5, <1>7, <2>1
    <2>3. InstallsInOrder'
      <3>1. ASSUME NEW o \in Requests, request'[o].stage = "called"
            PROVE  request'[o].next = 1
        BY <1>3, <3>1 DEF IInv, InstallsInOrder, NoRequest
      <3>2. ASSUME NEW o \in Requests, InProgress(o)'
            PROVE  /\ o # r /\ InProgress(o) /\ request'[o] = request[o]
        BY <1>3, <1>4, <3>2
      <3> QED BY <1>2, <1>4, <2>2, <3>1, <3>2 DEF IInv, InstallsInOrder
    <2> QED BY <2>2, <2>3 DEF OverlapIsNoted, OneConfiguration, InUse
  <1> QED BY <1>6, <1>7

LEMMA OverlookKeepsRequests ==
    ASSUME IInv, NEW r \in Requests, Overlook(r)
    PROVE  (InstallsInOrder /\ OverlapIsNoted /\ OneConfiguration /\ InUse)'
  <1>1. /\ request \in [Requests -> RequestType]
        /\ request[r].stage \in {"called", "install", "lost"}
    BY DEF IInv, TypeOK, RequestType, Overlook
  <1>2. /\ loads' = loads /\ globals' = globals /\ Loads' = Loads
        /\ since \subseteq since' /\ since' # {}
        /\ "overlap" \in since' => "overlap" \in since
    BY DEF Overlook, Loads
  <1>3. CASE request[r].stage = "lost"
    <2>1. request' = [request EXCEPT ![r] = NoRequest] /\ ~InProgress(r)
      BY <1>1, <1>3 DEF Overlook, InProgress
    <2> QED BY <1>2, <2>1, CallsKeepRequests DEF NoRequest
  <1>4. CASE request[r].stage # "lost"
    <2>1. /\ \A o \in Requests \ {r} : request'[o] = request[o]
          /\ request'[r].stage = request[r].stage /\ request'[r].next = request[r].next
          /\ request'[r].load = request[r].load /\ request'[r].text = request[r].text
          /\ request'[r].alone = request[r].alone
      BY <1>1, <1>4 DEF Overlook, RequestType
    <2>2. \A o \in Requests :
             /\ request'[o].stage = request[o].stage /\ request'[o].next = request[o].next
             /\ request'[o].load = request[o].load /\ request'[o].text = request[o].text
             /\ request'[o].alone = request[o].alone
      BY <2>1
    <2>3. \A o \in Requests : InProgress(o)' <=> InProgress(o)
      BY <2>2 DEF InProgress
    <2>4. InstallsInOrder'
      BY <1>2, <2>2, <2>3 DEF IInv, InstallsInOrder
    <2>5. OverlapIsNoted' /\ OneConfiguration' /\ InUse'
      BY <1>2, <2>2, <2>3 DEF IInv, OverlapIsNoted, OneConfiguration, InUse
    <2> QED BY <2>4, <2>5
  <1> QED BY <1>3, <1>4

LEMMA TakeOverKeepsRequests ==
    ASSUME IInv, TakeOver
    PROVE  (InstallsInOrder /\ OverlapIsNoted /\ OneConfiguration /\ InUse)'
  <1>1. loads \in Seq(LoadType) /\ standby \in Contents
    BY DEF IInv, TypeOK, LoadType, TakeOver
  <1>2. \A r \in Requests : ~InProgress(r)' /\ request'[r].stage # "called"
    BY DEF TakeOver, InProgress, NoRequest
  <1>3. \A g \in Range1 : globals'[g] = Len(loads) + 1
    BY DEF TakeOver
  <1>4. loads'[Len(loads) + 1].content = standby
    BY <1>1, LoadAppended, LoadFilled DEF TakeOver
  <1>5. since' = {} => standby = stored'
    BY DEF TakeOver
  <1>6. InstallsInOrder' /\ OverlapIsNoted'
    BY <1>2 DEF InstallsInOrder, OverlapIsNoted
  <1>7. OneConfiguration'
    BY <1>3 DEF OneConfiguration
  <1>8. InUse'
    BY <1>3, <1>4, <1>5 DEF InUse
  <1> QED BY <1>6, <1>7, <1>8

----------------------------------------------------------------------------
(* Theorems *)

LEMMA InitIInv ==
    ASSUME Init
    PROVE  IInv
  <1>1. Types
    BY TypesInit
  <1>2. \A r \in Requests : ~InProgress(r) /\ request[r].stage # "called"
    BY DEF Init, InProgress, NoRequest
  <1>3. \A g \in Range1 : loads[globals[g]].content = stored
    BY DEF Init, Load
  <1>4. OneConfiguration
    BY DEF Init, OneConfiguration
  <1> QED BY <1>1, <1>2, <1>3, <1>4, IInvParts DEF InstallsInOrder, OverlapIsNoted, InUse

LEMMA NextIInv ==
    ASSUME IInv, [Next]_vars
    PROVE  IInv'
  <1>1. Types
    BY IInvParts
  <1>2. SUFFICES Types' /\ (InstallsInOrder /\ OverlapIsNoted /\ OneConfiguration /\ InUse)'
    BY DEF IInv, Types, InUse
  <1>3. ASSUME NEW r \in Requests, NEW text \in Texts, Submit(r, text)
        PROVE  Types' /\ (InstallsInOrder /\ OverlapIsNoted /\ OneConfiguration /\ InUse)'
    <2> DEFINE q == [NoRequest EXCEPT !.stage = "called", !.text = text, !.waiting = TRUE]
    <2>1. q.stage = "called" /\ q.next = 1
      BY DEF NoRequest
    <2>2. request' = [request EXCEPT ![r] = q] /\ ~InProgress(r)
      BY <1>3 DEF Submit, InProgress
    <2>3. UNCHANGED <<loads, globals, since, stored>>
      BY <1>3 DEF Submit
    <2> HIDE DEF q
    <2>4. (InstallsInOrder /\ OverlapIsNoted /\ OneConfiguration /\ InUse)'
      BY <2>1, <2>2, <2>3, CallsKeepRequests
    <2> QED BY <1>1, <1>3, <2>4, RequestsKeepTypes DEF IInv
  <1>4. ASSUME NEW r \in Requests, Deny(r) \/ Drop(r)
        PROVE  Types' /\ (InstallsInOrder /\ OverlapIsNoted /\ OneConfiguration /\ InUse)'
    <2>1. request' = [request EXCEPT ![r] = NoRequest] /\ ~InProgress(r)
      BY <1>4 DEF Deny, Drop, InProgress
    <2>2. UNCHANGED <<loads, globals, since, stored>> /\ NoRequest.stage = "none"
      BY <1>4 DEF Deny, Drop, NoRequest
    <2>3. (InstallsInOrder /\ OverlapIsNoted /\ OneConfiguration /\ InUse)'
      BY <2>1, <2>2, CallsKeepRequests
    <2> QED BY <1>1, <1>4, <2>3, RequestsKeepTypes DEF IInv
  <1>5. ASSUME NEW r \in Requests, Validate(r) \/ Assign(r) \/ Answer(r) \/ Overlook(r)
        PROVE  Types' /\ (InstallsInOrder /\ OverlapIsNoted /\ OneConfiguration /\ InUse)'
    BY <1>1, <1>5, RequestsKeepTypes, ValidateKeepsRequests, AssignKeepsRequests,
       AnswerKeepsRequests, OverlookKeepsRequests DEF IInv
  <1>6. CASE Remount \/ InitByFile
    <2>1. UNCHANGED <<stored, loads, globals, request, since>>
      BY <1>6 DEF Remount, InitByFile
    <2> QED BY <1>1, <1>6, <2>1, ProcessesKeepTypes, OthersKeepRequests DEF Loads
  <1>7. CASE TakeOver
    BY <1>1, <1>7, ProcessesKeepTypes, TakeOverKeepsRequests
  <1>8. ASSUME NEW b \in Boots, Start(b) \/ AppendClaims(b) \/ DecodeVolumeMounts(b) \/ Send(b)
        PROVE  Types' /\ (InstallsInOrder /\ OverlapIsNoted /\ OneConfiguration /\ InUse)'
    <2>1. UNCHANGED <<stored, globals, request, since>>
      BY <1>8, Zenon DEF Start, AppendClaims, DecodeVolumeMounts, Send
    <2> QED BY <1>1, <1>8, <2>1, WorkersKeepTypes, ContentStays, OthersKeepRequests
  <1>9. CASE UNCHANGED vars
    <2>1. Types'
      BY <1>1, <1>9 DEF vars, Types, TypeOK, SlicesFilled, Loads
    <2> QED BY <1>9, <2>1, OthersKeepRequests DEF vars, Loads
  <1> QED BY <1>3, <1>4, <1>5, <1>6, <1>7, <1>8, <1>9 DEF Next

\* What requests install stays in order, and slices read mounts only, whatever
\* changes of the ConfigMap, processes and passes meet (config_validation.go).
THEOREM Invariance == Spec => []IInv
  BY InitIInv, NextIInv, PTL DEF Spec

\* Every variable keeps its type.
THEOREM TypeCorrectness == Spec => []TypeOK
  BY Invariance, PTL DEF IInv

\* Types and profiles are of one load, unless changes were installed at once
\* (NewConfig).
THEOREM ConfigurationIsOne == Spec => []OneConfiguration
  BY Invariance, PTL DEF IInv

\* The configuration in use is the one stored, but in the four cases of since
\* (ConfigValidator, InitByFile).
THEOREM StoredIsUsed == Spec => []InUseIsStored
  <1>1. IInv => InUseIsStored
    BY DEF IInv, InUseIsStored, InProgress
  <1> QED BY Invariance, <1>1, PTL

----------------------------------------------------------------------------
(* What arrays and slices hold *)

\* The mounts that place i of an array, made for global g of configuration c, may
\* hold before any of them is decoded, and after, when Boots W write there.
Place(c, g, W, i) ==
    LET given == Len(MountsIn[c][g])
    IN IF i <= given THEN {MountsIn[c][g][i]}
       ELSE {ClaimsOf[o][i - given] : o \in {o \in W : i - given <= Len(ClaimsOf[o])}}

Held(c, g, W, i) == Place(c, g, W, i) \union {Decoded(n, m) : n \in W, m \in Place(c, g, W, i)}

\* How long the mounts of Boot o are, with its claims; whether they have room in
\* the array of a load; and who has.
Length(load, g, o) == Len(MountsIn[load.content][g]) + Len(ClaimsOf[o])
HasRoom(load, g, o) == ClaimsOf[o] # <<>> /\ Length(load, g, o) <= Len(load.arrays[g])
Room(load, g) == {o \in Users(g) : HasRoom(load, g, o)}

\* An array holds what Boots with room in it ask for.
ArrayHeld(load, g) ==
    \A i \in 1..Len(load.arrays[g]) :
        \/ load.arrays[g][i] \in Held(load.content, g, Room(load, g), i)
        \/ load.arrays[g][i] = None

\* So does a slice of its own, of a Boot that has no room.
OwnHeld(b, p, load) ==
    LET W == Room(load, p.global) \union {b}
    IN p.own # None =>
          /\ ClaimsOf[b] # <<>> /\ ~HasRoom(load, p.global, b)
          /\ Len(p.own) = p.length
          /\ \A i \in 1..p.length : p.own[i] \in Held(load.content, p.global, W, i)

Slice(p, load) == IF p.own = None THEN load.arrays[p.global] ELSE p.own

\* Decoded and not yet sent, a slice that no other Boot writes reads what is wanted.
SliceDecoded(b, p, load) ==
    p.stage = "send" /\ ClaimsOf[b] # <<>> /\ Room(load, p.global) \subseteq {b} =>
        \A i \in 1..p.length : \A m \in Place(load.content, p.global, {b}, i) :
            Slice(p, load)[i] = Decoded(b, m)

PassHeld(b, p, load) ==
    /\ p.stage # "idle" => b \in Users(p.global)
    /\ p.stage \in {"decode", "send"} =>
          /\ p.length = Length(load, p.global, b)
          /\ p.own = None /\ ClaimsOf[b] # <<>> => HasRoom(load, p.global, b)
          /\ OwnHeld(b, p, load)
    /\ p.stage = "decode" => ClaimsOf[b] # <<>>
    /\ SliceDecoded(b, p, load)

SlicesHeld ==
    /\ \A l \in Loads, g \in Range1 : ArrayHeld(loads[l], g)
    /\ \A b \in Boots : pass[b].stage # "idle" => PassHeld(b, pass[b], loads[pass[b].load])

LEMMA DecodedOnce ==
    ASSUME NEW b \in Boots, NEW n \in Boots, NEW m \in Mount
    PROVE  Decoded(b, Decoded(n, m)) = Decoded(n, m)
  <1>1. n # App
    BY BootAssumption
  <1>2. CASE m.of = App
    <2>1. Decoded(n, m) = [m EXCEPT !.of = n] /\ [m EXCEPT !.of = n].of = n
      BY <1>2 DEF Decoded, Mount
    <2> QED BY <1>1, <2>1 DEF Decoded
  <1>3. CASE m.of # App
    BY <1>3 DEF Decoded
  <1> QED BY <1>2, <1>3

\* Where the mounts of a configuration and of a Boot's claims belong.
LEMMA PlaceOf ==
    ASSUME NEW c \in Contents, NEW g \in Range1, NEW W \in SUBSET Boots, NEW i \in Nat \ {0}
    PROVE  /\ Place(c, g, W, i) \subseteq Mount
           /\ i <= Len(MountsIn[c][g]) => Place(c, g, W, i) = {MountsIn[c][g][i]}
           /\ \A b \in W : i <= Len(MountsIn[c][g]) + Len(ClaimsOf[b]) =>
                 (MountsIn[c][g] \o ClaimsOf[b])[i] \in Place(c, g, W, i)
           /\ \A b \in Boots : W = {b} /\ i <= Len(MountsIn[c][g]) + Len(ClaimsOf[b]) =>
                 Place(c, g, W, i) = {(MountsIn[c][g] \o ClaimsOf[b])[i]}
           /\ \A m \in Place(c, g, W, i) : i <= Len(MountsIn[c][g]) \/
                 \E b \in W : /\ i <= Len(MountsIn[c][g]) + Len(ClaimsOf[b])
                              /\ m = (MountsIn[c][g] \o ClaimsOf[b])[i]
  <1> DEFINE mounts == MountsIn[c][g]
             given == Len(mounts)
  <1>1. mounts \in Seq(Mount) /\ given \in Nat
    BY ConfigAssumption DEF Range1
  <1>2. \A b \in Boots : ClaimsOf[b] \in Seq(Mount) /\ Len(ClaimsOf[b]) \in Nat
    BY BootAssumption
  <1> HIDE DEF mounts
  <1>3. ASSUME NEW b \in Boots
        PROVE  /\ i <= given => (mounts \o ClaimsOf[b])[i] = mounts[i]
               /\ i > given /\ i <= given + Len(ClaimsOf[b]) =>
                     (mounts \o ClaimsOf[b])[i] = ClaimsOf[b][i - given]
               /\ i <= given + Len(ClaimsOf[b]) <=> i <= given \/ i - given <= Len(ClaimsOf[b])
    BY <1>1, <1>2
  <1>4. CASE i <= given
    <2>1. mounts[i] \in Mount
      BY <1>1, <1>4
    <2>2. Place(c, g, W, i) = {mounts[i]}
      BY <1>4 DEF Place, mounts
    <2> QED BY <1>3, <1>4, <2>1, <2>2 DEF mounts
  <1>5. CASE ~(i <= given)
    <2>1. Place(c, g, W, i) = {ClaimsOf[o][i - given] : o \in {o \in W : i - given <= Len(ClaimsOf[o])}}
      BY <1>5 DEF Place, mounts
    <2>2. i - given \in Nat \ {0} /\ i > given
      BY <1>1, <1>5
    <2>3. \A o \in Boots : i - given <= Len(ClaimsOf[o]) => ClaimsOf[o][i - given] \in Mount
      BY <1>2, <2>2
    <2>4. Place(c, g, W, i) \subseteq Mount
      BY <2>1, <2>3
    <2>5. \A b \in Boots : i <= given + Len(ClaimsOf[b]) =>
             i - given <= Len(ClaimsOf[b]) /\ (mounts \o ClaimsOf[b])[i] = ClaimsOf[b][i - given]
      BY <1>3, <1>5, <2>2
    <2>6. \A m \in Place(c, g, W, i) : \E b \in W :
             i <= given + Len(ClaimsOf[b]) /\ m = (mounts \o ClaimsOf[b])[i]
      <3> SUFFICES ASSUME NEW b \in W, i - given <= Len(ClaimsOf[b])
                   PROVE  /\ i <= given + Len(ClaimsOf[b])
                          /\ ClaimsOf[b][i - given] = (mounts \o ClaimsOf[b])[i]
        BY <2>1
      <3> QED BY <1>3, <2>2
    <2>7. \A b \in W : i <= given + Len(ClaimsOf[b]) =>
             (mounts \o ClaimsOf[b])[i] \in Place(c, g, W, i)
      BY <2>1, <2>5
    <2>8. \A b \in Boots : W = {b} /\ i <= given + Len(ClaimsOf[b]) =>
             Place(c, g, W, i) = {(mounts \o ClaimsOf[b])[i]}
      BY <2>1, <2>5
    <2> QED BY <1>5, <2>4, <2>6, <2>7, <2>8 DEF mounts
  <1> QED BY <1>4, <1>5

\* Decoding what is held keeps it held, and says whose it is.
LEMMA HeldDecoded ==
    ASSUME NEW c \in Contents, NEW g \in Range1, NEW W \in SUBSET Boots, NEW i \in Nat \ {0},
           NEW b \in W, NEW x \in Held(c, g, W, i)
    PROVE  /\ x \in Mount
           /\ Decoded(b, x) \in Held(c, g, W, i)
           /\ W = {b} => \E m \in Place(c, g, W, i) : Decoded(b, x) = Decoded(b, m)
  <1>1. Place(c, g, W, i) \subseteq Mount
    BY PlaceOf
  <1>2. CASE x \in Place(c, g, W, i)
    BY <1>1, <1>2 DEF Held
  <1>3. ASSUME NEW n \in W, NEW m \in Place(c, g, W, i), x = Decoded(n, m)
        PROVE  /\ x \in Mount
               /\ Decoded(b, x) = x
               /\ W = {b} => Decoded(b, x) = Decoded(b, m)
    BY <1>1, <1>3, DecodedOnce, DecodedIsMount
  <1> QED BY <1>2, <1>3 DEF Held

\* One Boot asks for one mount at a place.
LEMMA OnePlace ==
    ASSUME NEW c, NEW g, NEW b, NEW i, NEW m \in Place(c, g, {b}, i), NEW n \in Place(c, g, {b}, i)
    PROVE  m = n
  BY DEF Place

LEMMA HeldGrows ==
    ASSUME NEW c, NEW g, NEW i, NEW W, NEW V, W \subseteq V
    PROVE  Held(c, g, W, i) \subseteq Held(c, g, V, i)
  <1>1. Place(c, g, W, i) \subseteq Place(c, g, V, i)
    BY DEF Place
  <1> QED BY <1>1 DEF Held

\* A load as it is made holds its configuration's mounts.
LEMMA LoadHeld ==
    ASSUME NEW c \in Contents, NEW g \in Range1
    PROVE  ArrayHeld(Load(c), g)
  <1> DEFINE s == MountsIn[c][g]
             load == Load(c)
  <1>1. s \in Seq(Mount) /\ Len(s) \in Nat /\ Len(s) <= Capacity
    <2>1. \A h \in Range1 : MountsIn[c][h] \in Seq(Mount) /\ Len(MountsIn[c][h]) <= Capacity
      BY ConfigAssumption DEF Range1
    <2>2. s \in Seq(Mount) /\ Len(s) <= Capacity
      BY <2>1
    <2> HIDE DEF s
    <2> QED BY <2>2
  <1>2. load.arrays[g] = Array(s) /\ load.content = c
    BY DEF Load
  <1>3. /\ Len(Array(s)) \in Nat
        /\ \A i \in 1..Len(Array(s)) : i <= Len(s) \/ Array(s)[i] = None
        /\ \A i \in 1..Len(s) : Array(s)[i] = s[i]
    <2> HIDE DEF s
    <2>1. CASE s = <<>>
      BY <2>1 DEF Array
    <2>2. CASE s # <<>>
      <3> DEFINE room == [i \in 1..(Capacity - Len(s)) |-> None]
      <3>1. Array(s) = s \o room
        BY <2>2 DEF Array
      <3>2. Capacity - Len(s) \in Nat
        BY <1>1 DEF Capacity
      <3>3. room \in Seq({None}) /\ Len(room) = Capacity - Len(s)
        BY <3>2
      <3>4. \A i \in 1..Len(room) : room[i] = None
        BY <3>2, <3>3
      <3> HIDE DEF room
      <3>5. /\ Len(s \o room) = Len(s) + Len(room)
            /\ \A i \in 1..(Len(s) + Len(room)) :
                  (s \o room)[i] = IF i <= Len(s) THEN s[i] ELSE room[i - Len(s)]
        <4>1. s \in Seq(Mount \union {None}) /\ room \in Seq(Mount \union {None})
          BY <1>1, <3>3
        <4> QED BY <4>1
      <3>6. ASSUME NEW i \in 1..(Len(s) + Len(room)), ~(i <= Len(s))
            PROVE  (s \o room)[i] = None
        <4>1. i - Len(s) \in 1..Len(room)
          BY <1>1, <3>2, <3>3, <3>6
        <4> QED BY <3>4, <3>5, <3>6, <4>1
      <3> QED BY <1>1, <3>1, <3>2, <3>3, <3>5, <3>6
    <2> QED BY <2>1, <2>2
  <1>4. ASSUME NEW i \in 1..Len(load.arrays[g]), i <= Len(s)
        PROVE  load.arrays[g][i] \in Held(c, g, Room(load, g), i)
    <2>1. i \in Nat \ {0} /\ Room(load, g) \in SUBSET Boots
      BY <1>2, <1>3 DEF Room, Users
    <2>2. load.arrays[g][i] = s[i]
      <3> HIDE DEF s, load
      <3>1. i \in 1..Len(s)
        BY <1>1, <1>4, <2>1
      <3> QED BY <1>2, <1>3, <3>1
    <2>3. Place(c, g, Room(load, g), i) = {s[i]}
      BY <1>4 DEF Place
    <2> QED BY <2>2, <2>3 DEF Held
  <1> QED BY <1>2, <1>3, <1>4 DEF ArrayHeld

----------------------------------------------------------------------------
(* A step of a pass *)

\* An array of the same length leaves room to the same Boots.
LEMMA SameRoom ==
    ASSUME NEW load, NEW new, NEW g,
           new.content = load.content, Len(new.arrays[g]) = Len(load.arrays[g])
    PROVE  /\ Room(new, g) = Room(load, g)
           /\ \A b \in Boots : HasRoom(new, g, b) <=> HasRoom(load, g, b)
           /\ \A b \in Boots : Length(new, g, b) = Length(load, g, b)
  BY DEF Room, HasRoom, Length, Users

\* A Boot with room writes: what the other passes hold is as it was.
LEMMA OthersHeld ==
    ASSUME NEW load, NEW new, NEW b \in Boots, NEW p,
           new.content = load.content, Len(new.arrays[p.global]) = Len(load.arrays[p.global]),
           \/ new.arrays[p.global] = load.arrays[p.global]
           \/ \E o \in Room(load, p.global) : o # b,
           PassHeld(b, p, load)
    PROVE  PassHeld(b, p, new)
  <1>1. /\ Room(new, p.global) = Room(load, p.global)
        /\ HasRoom(new, p.global, b) <=> HasRoom(load, p.global, b)
        /\ Length(new, p.global, b) = Length(load, p.global, b)
    BY SMTT(30), SameRoom
  <1>2. OwnHeld(b, p, new) <=> OwnHeld(b, p, load)
    BY <1>1 DEF OwnHeld
  <1>3. SliceDecoded(b, p, new)
    <2>1. CASE new.arrays[p.global] = load.arrays[p.global]
      BY <1>1, <2>1 DEF PassHeld, SliceDecoded, Slice
    <2>2. CASE \E o \in Room(load, p.global) : o # b
      BY <1>1, <2>2 DEF SliceDecoded
    <2> QED BY <2>1, <2>2
  <1> QED BY <1>1, <1>2, <1>3 DEF PassHeld

\* The claims, put behind the given mounts in their room.
LEMMA AppendedHeld ==
    ASSUME NEW load \in LoadType, NEW g \in Range1, NEW b \in Room(load, g),
           ArrayHeld(load, g), NEW new, new.content = load.content,
           new.arrays[g] = InPlace(load.arrays[g], ClaimsOf[b], Len(MountsIn[load.content][g])),
           Len(new.arrays[g]) = Len(load.arrays[g])
    PROVE  ArrayHeld(new, g)
  <1> DEFINE array == load.arrays[g]
             given == Len(MountsIn[load.content][g])
             W == Room(load, g)
  <1>1. /\ W \in SUBSET Boots /\ load.content \in Contents /\ array \in Seq(Mount \union {None})
        /\ Len(ClaimsOf[b]) \in Nat
    BY BootAssumption DEF Room, Users, LoadType
  <1>2. given \in Nat
    BY <1>1, ConfigAssumption, SMTT(30) DEF Range1
  <1>3. Room(new, g) = W
    BY SameRoom
  <1>4. ASSUME NEW i \in 1..Len(array)
        PROVE  \/ new.arrays[g][i] \in Held(load.content, g, W, i)
               \/ new.arrays[g][i] = None
    <2>1. i \in Nat \ {0}
      BY <1>1
    <2>2. CASE i \in (given + 1)..(given + Len(ClaimsOf[b]))
      <3>1. new.arrays[g][i] = ClaimsOf[b][i - given]
        BY <1>1, <2>2 DEF InPlace
      <3>2. ~(i <= given) /\ i - given <= Len(ClaimsOf[b])
        <4> HIDE DEF given
        <4> QED BY <1>1, <1>2, <2>2
      <3>3. ClaimsOf[b][i - given] \in Place(load.content, g, W, i)
        BY <3>2 DEF Place
      <3> QED BY <3>1, <3>3 DEF Held
    <2>3. CASE ~(i \in (given + 1)..(given + Len(ClaimsOf[b])))
      <3>1. new.arrays[g][i] = array[i]
        <4>1. i \in DOMAIN array
          BY <1>1
        <4> HIDE DEF given
        <4> QED BY <2>3, <4>1, Zenon DEF InPlace, given
      <3> QED BY <3>1 DEF ArrayHeld
    <2> QED BY <2>2, <2>3
  <1> QED BY <1>3, <1>4 DEF ArrayHeld

\* The first mounts of an array are there, and what it is with their names decoded.
Filling(load, g, length) ==
    length <= Len(load.arrays[g]) /\ \A i \in 1..length : load.arrays[g][i] # None
Decoding(b, load, g, length, new) ==
    /\ new.content = load.content
    /\ new.arrays[g] = DecodedFirst(b, load.arrays[g], length)
    /\ Len(new.arrays[g]) = Len(load.arrays[g])
ReadsDecoded(b, load, g, length, new) ==
    Room(load, g) = {b} =>
        \A i \in 1..length : \E m \in Place(load.content, g, {b}, i) :
            new.arrays[g][i] = Decoded(b, m)

\* The first names of an array, decoded for a Boot with room in it.
LEMMA DecodedHeld ==
    ASSUME NEW load \in LoadType, NEW g \in Range1, NEW b \in Room(load, g),
           ArrayHeld(load, g), NEW new, NEW length \in Nat,
           Filling(load, g, length), Decoding(b, load, g, length, new)
    PROVE  ArrayHeld(new, g) /\ ReadsDecoded(b, load, g, length, new)
  <1> DEFINE array == load.arrays[g]
             W == Room(load, g)
  <1> USE DEF Filling, Decoding
  <1>1. W \in SUBSET Boots /\ load.content \in Contents /\ array \in Seq(Mount \union {None})
    BY DEF Room, Users, LoadType
  <1>2. Room(new, g) = W
    BY SameRoom
  <1>3. ASSUME NEW i \in 1..Len(array), i <= length
        PROVE  /\ new.arrays[g][i] = Decoded(b, array[i])
               /\ Decoded(b, array[i]) \in Held(load.content, g, W, i)
               /\ W = {b} => \E m \in Place(load.content, g, W, i) :
                                Decoded(b, array[i]) = Decoded(b, m)
    <2>1. i \in Nat \ {0} /\ array[i] # None
      BY <1>1, <1>3
    <2>2. array[i] \in Held(load.content, g, W, i)
      BY <2>1 DEF ArrayHeld
    <2>3. new.arrays[g][i] = Decoded(b, array[i])
      BY <1>1, <1>3 DEF DecodedFirst
    <2> QED BY <1>1, <2>1, <2>2, <2>3, HeldDecoded
  <1>4. ASSUME NEW i \in 1..Len(array), ~(i <= length)
        PROVE  new.arrays[g][i] = array[i]
    <2>1. i \in DOMAIN array
      BY <1>1
    <2> QED BY <1>4, <2>1 DEF DecodedFirst
  <1>5. ArrayHeld(new, g)
    BY <1>2, <1>3, <1>4 DEF ArrayHeld
  <1>6. \A i \in 1..length : i \in 1..Len(array) /\ i <= length
    BY <1>1
  <1> QED BY <1>3, <1>5, <1>6 DEF ReadsDecoded

\* The claims in their room: nothing is decoded yet.
LEMMA AppendFits ==
    ASSUME NEW b \in Boots, NEW p \in PassType, NEW load, NEW new, NEW q,
           p.stage = "append", PassHeld(b, p, load),
           new.content = load.content, Len(new.arrays[p.global]) = Len(load.arrays[p.global]),
           Length(load, p.global, b) <= Len(load.arrays[p.global]),
           q = [p EXCEPT !.stage = IF ClaimsOf[b] = <<>> THEN "send" ELSE "decode",
                         !.length = Length(load, p.global, b), !.own = None]
    PROVE  PassHeld(b, q, new)
  <1>1. /\ q.stage = IF ClaimsOf[b] = <<>> THEN "send" ELSE "decode"
        /\ q.length = Length(load, p.global, b) /\ q.own = None /\ q.global = p.global
    BY DEF PassType
  <1>2. b \in Users(q.global)
    BY <1>1 DEF PassHeld
  <1>3. Length(new, q.global, b) = q.length /\ (ClaimsOf[b] # <<>> => HasRoom(new, q.global, b))
    BY ZenonT(60), <1>1 DEF HasRoom, Length
  <1>4. OwnHeld(b, q, new)
    BY <1>1 DEF OwnHeld
  <1>5. SliceDecoded(b, q, new)
    BY <1>1 DEF SliceDecoded
  <1> QED BY <1>1, <1>2, <1>3, <1>4, <1>5 DEF PassHeld

\* The claims in a new array, behind a copy of the given mounts.
LEMMA AppendCopies ==
    ASSUME NEW b \in Boots, NEW p \in PassType, NEW load \in LoadType, NEW q,
           p.stage = "append", p.global \in Range1, PassHeld(b, p, load),
           ArrayHeld(load, p.global),
           Len(MountsIn[load.content][p.global]) <= Len(load.arrays[p.global]),
           \A i \in 1..Len(MountsIn[load.content][p.global]) : load.arrays[p.global][i] # None,
           ~(Length(load, p.global, b) <= Len(load.arrays[p.global])),
           q = [p EXCEPT !.stage = IF ClaimsOf[b] = <<>> THEN "send" ELSE "decode",
                         !.length = Length(load, p.global, b),
                         !.own = SubSeq(load.arrays[p.global], 1, Len(MountsIn[load.content][p.global]))
                                    \o ClaimsOf[b]]
    PROVE  PassHeld(b, q, load)
  <1> DEFINE g == p.global
             array == load.arrays[g]
             given == Len(MountsIn[load.content][g])
             claims == ClaimsOf[b]
             W == Room(load, g) \union {b}
             own == SubSeq(array, 1, given) \o claims
  <1>1. /\ q.stage = IF ClaimsOf[b] = <<>> THEN "send" ELSE "decode"
        /\ q.length = Length(load, g, b) /\ q.own = own /\ q.global = g
    BY DEF PassType
  <1>2. /\ load.content \in Contents /\ array \in Seq(Mount \union {None})
        /\ claims \in Seq(Mount) /\ Len(claims) \in Nat /\ W \in SUBSET Boots
    BY BootAssumption DEF LoadType, Room, Users
  <1>3. MountsIn[load.content][g] \in Seq(Mount)
    BY <1>2, ConfigAssumption DEF Range1
  <1>4. given \in Nat
    BY SMTT(30), <1>3
  <1>5. q.length = given + Len(claims) /\ given <= Len(array)
    BY <1>1 DEF Length
  <1>6. claims # <<>>
    <2>1. ~(given + Len(claims) <= Len(array))
      BY DEF Length
    <2> HIDE DEF given, claims, array
    <2>2. Len(claims) # 0
      BY <1>2, <1>4, <1>5, <2>1
    <2> QED BY <2>2
  <1>7. q.stage = "decode" /\ ~HasRoom(load, g, b)
    BY <1>1, <1>6 DEF HasRoom
  <1>8. /\ Len(own) = given + Len(claims)
        /\ \A i \in 1..given : own[i] = array[i]
        /\ \A i \in 1..(given + Len(claims)) : ~(i <= given) =>
              own[i] = claims[i - given] /\ i - given <= Len(claims)
    <2> HIDE DEF given, claims, array
    <2> DEFINE s == SubSeq(array, 1, given)
    <2>1. s \in Seq(Mount \union {None}) /\ Len(s) = given /\ \A i \in 1..given : s[i] = array[i]
      <3>1. given \in 0..Len(array) /\ Len(array) \in Nat
        BY <1>2, <1>4, <1>5
      <3>2. s = [i \in 1..given |-> array[i]]
        BY <1>2, <3>1
      <3>3. \A i \in 1..given : array[i] \in Mount \union {None}
        BY <1>2, <3>1
      <3> HIDE DEF s
      <3> QED BY <1>4, <3>2, <3>3
    <2>2. claims \in Seq(Mount \union {None})
      BY <1>2
    <2> HIDE DEF s
    <2>3. /\ Len(s \o claims) = given + Len(claims)
          /\ \A i \in 1..(given + Len(claims)) :
                (s \o claims)[i] = IF i <= given THEN s[i] ELSE claims[i - given]
      <3>1. /\ Len(s \o claims) = Len(s) + Len(claims)
            /\ \A i \in 1..(Len(s) + Len(claims)) :
                  (s \o claims)[i] = IF i <= Len(s) THEN s[i] ELSE claims[i - Len(s)]
        <4>1. s \in Seq(Mount \union {None})
          BY <2>1
        <4> QED BY <2>2, <4>1
      <3> QED BY <2>1, <3>1
    <2>4. \A i \in 1..given : i \in 1..(given + Len(claims)) /\ i <= given
      BY <1>2, <1>4
    <2>5. \A i \in 1..(given + Len(claims)) : i - given <= Len(claims)
      BY <1>2, <1>4
    <2> QED BY <2>1, <2>3, <2>4, <2>5 DEF s
  <1>9. ASSUME NEW i \in 1..q.length
        PROVE  own[i] \in Held(load.content, g, W, i)
    <2>1. i \in Nat \ {0} /\ i \in 1..(given + Len(claims))
      <3> HIDE DEF given, claims
      <3> QED BY <1>2, <1>4, <1>5
    <2>2. CASE i <= given
      <3>1. i \in 1..given /\ i \in 1..Len(array)
        <4> HIDE DEF given, array
        <4>1. given <= Len(array)
          BY SMTT(30) DEF given, array
        <4> QED BY <1>2, <1>4, <2>1, <2>2, <4>1
      <3>2. own[i] = array[i] /\ array[i] # None
        BY <1>8, <3>1
      <3>3. array[i] \in Held(load.content, g, Room(load, g), i)
        BY <3>1, <3>2 DEF ArrayHeld
      <3>4. Held(load.content, g, Room(load, g), i) \subseteq Held(load.content, g, W, i)
        <4>1. Room(load, g) \subseteq W
          OBVIOUS
        <4> HIDE DEF W
        <4> QED BY <4>1, HeldGrows
      <3> HIDE DEF own, array, W
      <3> QED BY <3>2, <3>3, <3>4
    <2>3. CASE ~(i <= given)
      <3>1. own[i] = claims[i - given] /\ i - given <= Len(claims)
        BY ZenonT(60), <1>8, <2>1, <2>3
      <3>2. claims[i - given] \in Place(load.content, g, W, i)
        BY ZenonT(60), <2>3, <3>1 DEF Place
      <3> HIDE DEF own, claims, given
      <3> QED BY SMTT(30), <3>1, <3>2 DEF Held
    <2> QED BY <2>2, <2>3
  <1>10. OwnHeld(b, q, load)
    BY <1>1, <1>5, <1>6, <1>7, <1>8, <1>9 DEF OwnHeld
  <1>11. SliceDecoded(b, q, load)
    BY SMTT(30), <1>7 DEF SliceDecoded
  <1>12. q.own # None
    <2>1. own \in Seq(Mount)
      <3> HIDE DEF given, claims, array
      <3>1. given <= Len(array) /\ \A i \in 1..given : array[i] # None
        BY DEF given, array
      <3> QED BY <1>2, <1>4, <3>1, ClaimsElsewhere
    <2> QED BY <1>1, <2>1, BootAssumption
  <1> QED BY <1>1, <1>6, <1>7, <1>10, <1>11, <1>12 DEF PassHeld

\* A slice in the load's array is decoded there.
LEMMA DecodeShared ==
    ASSUME NEW b \in Boots, NEW p \in PassType, NEW load, NEW new, NEW q,
           p.stage = "decode", p.own = None, PassHeld(b, p, load),
           new.content = load.content, Len(new.arrays[p.global]) = Len(load.arrays[p.global]),
           ReadsDecoded(b, load, p.global, p.length, new),
           q = [p EXCEPT !.stage = "send"]
    PROVE  PassHeld(b, q, new)
  <1>1. /\ q.stage = "send" /\ q.length = p.length /\ q.own = None /\ q.global = p.global
    BY DEF PassType
  <1>2. /\ b \in Users(q.global) /\ ClaimsOf[b] # <<>> /\ HasRoom(load, q.global, b)
        /\ q.length = Length(load, q.global, b)
    BY <1>1 DEF PassHeld
  <1>3. /\ Room(new, q.global) = Room(load, q.global) /\ HasRoom(new, q.global, b)
        /\ q.length = Length(new, q.global, b)
    <2>1. Len(new.arrays[q.global]) = Len(load.arrays[q.global])
      BY <1>1
    <2> QED BY <1>2, <2>1 DEF Room, HasRoom, Length, Users
  <1>4. OwnHeld(b, q, new)
    BY <1>1 DEF OwnHeld
  <1>5. SliceDecoded(b, q, new)
    <2> SUFFICES ASSUME Room(new, q.global) \subseteq {b}, NEW i \in 1..q.length,
                        NEW m \in Place(new.content, q.global, {b}, i)
                 PROVE  Slice(q, new)[i] = Decoded(b, m)
      BY DEF SliceDecoded
    <2>1. Room(load, p.global) = {b}
      BY <1>1, <1>2, <1>3 DEF Room
    <2>2. Slice(q, new)[i] = new.arrays[p.global][i]
      BY <1>1 DEF Slice
    <2>3. \A n \in Place(load.content, p.global, {b}, i) : n = m
      <3>1. m \in Place(load.content, p.global, {b}, i)
        BY <1>1
      <3> QED BY <3>1 DEF Place
    <2> QED BY <1>1, <2>1, <2>2, <2>3 DEF ReadsDecoded
  <1> QED BY <1>1, <1>2, <1>3, <1>4, <1>5 DEF PassHeld

\* A slice of its own is decoded where it is.
LEMMA DecodeOwn ==
    ASSUME NEW b \in Boots, NEW p \in PassType, NEW load \in LoadType, NEW q,
           p.stage = "decode", p.own # None, p.global \in Range1, PassHeld(b, p, load),
           q = [p EXCEPT !.stage = "send", !.own = [i \in DOMAIN p.own |-> Decoded(b, p.own[i])]]
    PROVE  PassHeld(b, q, load)
  <1> DEFINE g == p.global
             own == [i \in DOMAIN p.own |-> Decoded(b, p.own[i])]
             W == Room(load, g) \union {b}
  <1>1. q.stage = "send" /\ q.length = p.length /\ q.own = own /\ q.global = g
    BY DEF PassType
  <1>2. /\ b \in Users(g) /\ ClaimsOf[b] # <<>> /\ ~HasRoom(load, g, b)
        /\ p.length = Length(load, g, b) /\ Len(p.own) = p.length
        /\ \A i \in 1..p.length : p.own[i] \in Held(load.content, g, W, i)
    BY DEF PassHeld, OwnHeld
  <1>3. p.own \in Seq(Mount) /\ p.length \in Nat /\ load.content \in Contents /\ W \in SUBSET Boots
    BY DEF PassType, LoadType, Room, Users
  <1>4. DOMAIN p.own = 1..p.length
    BY <1>2, <1>3
  <1>5. ASSUME NEW i \in 1..p.length
        PROVE  /\ own[i] = Decoded(b, p.own[i])
               /\ Decoded(b, p.own[i]) \in Mount
               /\ Decoded(b, p.own[i]) \in Held(load.content, g, W, i)
               /\ W = {b} => \E m \in Place(load.content, g, {b}, i) : own[i] = Decoded(b, m)
    <2>1. i \in Nat \ {0} /\ b \in W /\ p.own[i] \in Held(load.content, g, W, i)
      <3>1. i \in Nat \ {0}
        BY <1>3
      <3>2. b \in W
        OBVIOUS
      <3> HIDE DEF W
      <3> QED BY <1>2, <3>1, <3>2
    <2>2. own[i] = Decoded(b, p.own[i])
      BY <1>4
    <2>3. /\ p.own[i] \in Mount
          /\ Decoded(b, p.own[i]) \in Held(load.content, g, W, i)
          /\ W = {b} => \E m \in Place(load.content, g, W, i) : Decoded(b, p.own[i]) = Decoded(b, m)
      <3>1. load.content \in Contents /\ g \in Range1 /\ W \in SUBSET Boots
        BY <1>3
      <3> DEFINE x == p.own[i]
      <3>2. x \in Held(load.content, g, W, i)
        BY <2>1
      <3> HIDE DEF W, g, x
      <3>3. /\ x \in Mount
            /\ Decoded(b, x) \in Held(load.content, g, W, i)
            /\ W = {b} => \E m \in Place(load.content, g, W, i) : Decoded(b, x) = Decoded(b, m)
        BY <2>1, <3>1, <3>2, HeldDecoded
      <3> QED BY <3>3 DEF x
    <2> QED BY <2>2, <2>3, DecodedIsMount
  <1>6. own \in Seq(Mount) /\ Len(own) = p.length
    <2>1. own = [i \in 1..p.length |-> own[i]]
      BY <1>4
    <2>2. \A i \in 1..p.length : own[i] \in Mount
      BY <1>5
    <2> HIDE DEF own
    <2>3. own \in [1..p.length -> Mount]
      BY <2>1, <2>2
    <2> QED BY <1>3, <2>3
  <1>7. own # None
    BY <1>6, BootAssumption
  <1>8. OwnHeld(b, q, load)
    BY ZenonT(60), <1>1, <1>2, <1>5, <1>6 DEF OwnHeld
  <1>9. SliceDecoded(b, q, load)
    <2> SUFFICES ASSUME Room(load, g) \subseteq {b}, NEW i \in 1..p.length,
                        NEW m \in Place(load.content, g, {b}, i)
                 PROVE  own[i] = Decoded(b, m)
      BY <1>1, <1>7 DEF SliceDecoded, Slice
    <2>1. W = {b}
      OBVIOUS
    <2>2. \A n \in Place(load.content, g, {b}, i) : n = m
      BY OnePlace, Zenon
    <2> QED BY <1>5, <2>1, <2>2
  <1> QED BY <1>1, <1>2, <1>7, <1>8, <1>9 DEF PassHeld

----------------------------------------------------------------------------
(* Every step keeps what is held *)

\* A pass of Boot b may become q with this array.
Allowed(b, q, load, g, a) ==
    \A new \in LoadType :
        new.content = load.content /\ new.arrays[g] = a => ArrayHeld(new, g) /\ PassHeld(b, q, new)

\* A pass moves on, and writes the array it works with or none.
LEMMA WriteHeld ==
    ASSUME Types, SlicesHeld, NEW b \in Boots, NEW q, pass' = [pass EXCEPT ![b] = q],
           NEW l \in Loads, NEW g \in Range1, NEW a \in Seq(Mount \union {None}),
           Len(a) = Len(loads[l].arrays[g]),
           loads' = [loads EXCEPT ![l].arrays[g] = a],
           q.load = l,
           Allowed(b, q, loads[l], g, a),
           a = loads[l].arrays[g] \/ b \in Room(loads[l], g)
    PROVE  SlicesHeld'
  <1> DEFINE new == [loads[l] EXCEPT !.arrays[g] = a]
  <1>1. loads \in Seq(LoadType) /\ pass \in [Boots -> PassType]
    BY DEF Types, TypeOK, LoadType, PassType
  <1>2. \A m \in Loads : loads[m] \in LoadType
    BY <1>1 DEF Loads
  <1>3. new \in LoadType
    BY <1>2 DEF LoadType
  <1>4. /\ new.content = loads[l].content
        /\ \A h \in Range1 : new.arrays[h] = IF h = g THEN a ELSE loads[l].arrays[h]
    BY <1>2 DEF LoadType
  <1>5. Loads' = Loads /\ \A m \in Loads : loads'[m] = IF m = l THEN new ELSE loads[m]
    <2>1. loads' = [loads EXCEPT ![l] = new]
      BY <1>1 DEF Loads
    <2> HIDE DEF new
    <2>2. loads \in [1..Len(loads) -> LoadType] /\ Len(loads) \in Nat /\ l \in 1..Len(loads)
      BY <1>1 DEF Loads
    <2>3. loads' \in [1..Len(loads) -> LoadType]
      BY <1>3, <2>1, <2>2
    <2>4. Len(loads') = Len(loads)
      BY <2>2, <2>3
    <2>5. \A m \in 1..Len(loads) : loads'[m] = IF m = l THEN new ELSE loads[m]
      BY <2>1, <2>2
    <2> QED BY <2>4, <2>5 DEF Loads
  <1> HIDE DEF new
  <1>6. ArrayHeld(new, g) /\ PassHeld(b, q, new)
    BY <1>3, <1>4 DEF Allowed
  <1>7. ASSUME NEW m \in Loads', NEW h \in Range1
        PROVE  ArrayHeld(loads'[m], h)
    <2>1. ArrayHeld(loads[m], h)
      BY <1>5 DEF SlicesHeld
    <2>2. CASE m = l /\ h = g
      BY <1>5, <1>6, <2>2
    <2>3. CASE m = l /\ h # g
      <3>1. new.arrays[h] = loads[l].arrays[h]
        BY <1>4, <2>3
      <3>2. Room(new, h) = Room(loads[l], h)
        BY <1>4, <3>1, SameRoom
      <3>3. ArrayHeld(loads[l], h)
        BY <2>1, <2>3
      <3>4. ArrayHeld(new, h)
        BY <1>4, <3>1, <3>2, <3>3 DEF ArrayHeld
      <3> QED BY <1>5, <2>3, <3>4
    <2>4. CASE m # l
      BY <1>5, <2>1, <2>4
    <2> QED BY <2>2, <2>3, <2>4
  <1>8. ASSUME NEW c \in Boots, pass'[c].stage # "idle"
        PROVE  PassHeld(c, pass'[c], loads'[pass'[c].load])
    <2>1. CASE c = b
      <3>1. pass'[c] = q
        BY <1>1, <2>1
      <3> QED BY <1>5, <1>6, <2>1, <3>1
    <2>2. CASE c # b
      <3>1. pass'[c] = pass[c] /\ pass[c].stage # "idle"
        BY <1>1, <1>8, <2>2
      <3>2. pass[c].load \in Loads /\ PassHeld(c, pass[c], loads[pass[c].load]) /\ pass[c].global \in Range1
        BY <3>1, PassArray DEF SlicesHeld
      <3>3. CASE pass[c].load # l
        BY <1>5, <3>1, <3>2, <3>3
      <3>4. CASE pass[c].load = l
        <4>1. \/ new.arrays[pass[c].global] = loads[l].arrays[pass[c].global]
              \/ b \in Room(loads[l], pass[c].global)
          BY <1>4, <3>2
        <4>2. Len(new.arrays[pass[c].global]) = Len(loads[l].arrays[pass[c].global])
          BY <1>4, <3>2
        <4>3. PassHeld(c, pass[c], new)
          BY ZenonT(60), <1>4, <2>2, <3>2, <3>4, <4>1, <4>2, OthersHeld
        <4> QED BY <1>5, <3>1, <3>4, <4>3
      <3> QED BY <3>3, <3>4
    <2> QED BY <2>1, <2>2
  <1> QED BY <1>7, <1>8 DEF SlicesHeld

\* A pass moves on, and no array changes.
LEMMA MoveHeld ==
    ASSUME Types, SlicesHeld, NEW b \in Boots, NEW q, pass' = [pass EXCEPT ![b] = q],
           loads' = loads, q.stage # "idle" => PassHeld(b, q, loads[q.load])
    PROVE  SlicesHeld'
  <1>1. \A c \in Boots : pass'[c] = IF c = b THEN q ELSE pass[c]
    BY DEF Types, TypeOK
  <1>2. Loads' = Loads
    BY DEF Loads
  <1> QED BY <1>1, <1>2 DEF SlicesHeld

\* Loads are added, and passes given up.
LEMMA LoadsHeld ==
    ASSUME Types, SlicesHeld, Loads \subseteq Loads',
           \A l \in Loads : loads'[l] = loads[l],
           \A l \in Loads' \ Loads, g \in Range1 : ArrayHeld(loads'[l], g),
           \A b \in Boots : pass'[b] = pass[b] \/ pass'[b].stage = "idle"
    PROVE  SlicesHeld'
  <1>1. ASSUME NEW b \in Boots, pass'[b].stage # "idle"
        PROVE  PassHeld(b, pass'[b], loads'[pass'[b].load])
    <2>1. pass'[b] = pass[b] /\ pass[b].stage # "idle"
      BY <1>1
    <2>2. pass[b].load \in Loads
      BY <2>1 DEF Types, SlicesFilled
    <2> QED BY <2>1, <2>2 DEF SlicesHeld
  <1> QED BY <1>1 DEF SlicesHeld

LEMMA StartHeld ==
    ASSUME Types, SlicesHeld, NEW b \in Boots, Start(b) \/ Send(b)
    PROVE  SlicesHeld'
  <1>1. CASE Start(b)
    <2> DEFINE q == [NoPass EXCEPT !.stage = "append", !.load = globals[ConfigOf(b)],
                                   !.global = ConfigOf(b)]
    <2>1. q.stage = "append" /\ q.global = ConfigOf(b) /\ q.own = None
      BY DEF NoPass
    <2>2. b \in Users(ConfigOf(b))
      BY DEF Users, ConfigOf
    <2>3. pass' = [pass EXCEPT ![b] = q] /\ loads' = loads
      BY <1>1 DEF Start
    <2> HIDE DEF q
    <2>4. PassHeld(b, q, loads[q.load])
      BY <2>1, <2>2 DEF PassHeld, SliceDecoded
    <2> QED BY <2>3, <2>4, MoveHeld
  <1>2. CASE Send(b)
    <2>1. NoPass.stage = "idle"
      BY DEF NoPass
    <2> QED BY <1>2, <2>1, MoveHeld DEF Send
  <1> QED BY <1>1, <1>2

LEMMA AppendClaimsHeld ==
    ASSUME Types, SlicesHeld, NEW b \in Boots, AppendClaims(b)
    PROVE  SlicesHeld'
  <1> DEFINE p == pass[b]
             load == loads[p.load]
             array == load.arrays[p.global]
             mounts == MountsIn[load.content][p.global]
             given == Len(mounts)
             claims == ClaimsOf[b]
             length == given + Len(claims)
             stage == IF claims = <<>> THEN "send" ELSE "decode"
  <1>1. p.stage = "append"
    BY Zenon DEF AppendClaims
  <1>2. /\ p \in PassType /\ p.load \in Loads /\ p.global \in Range1
        /\ array \in Seq(Mount \union {None}) /\ mounts \in Seq(Mount) /\ load.content \in Contents
    BY <1>1, PassArray
  <1>3. load \in LoadType
    <2>1. loads \in Seq(LoadType)
      BY DEF Types, TypeOK, LoadType
    <2> QED BY <1>2, <2>1 DEF Loads
  <1>4. claims \in Seq(Mount) /\ Len(claims) \in Nat /\ given \in Nat /\ length \in Nat
    <2>1. claims \in Seq(Mount)
      BY SMTT(30), BootAssumption
    <2> HIDE DEF mounts, claims
    <2> QED BY <1>2, <2>1
  <1>5. given <= Len(array) /\ \A i \in 1..given : array[i] # None
    BY <1>2 DEF Types, SlicesFilled
  <1>6. PassHeld(b, p, load) /\ ArrayHeld(load, p.global)
    BY <1>1, <1>2 DEF SlicesHeld
  <1>7. Length(load, p.global, b) = length
    BY DEF Length
  <1>8. CASE length <= Len(array)
    <2> DEFINE a == InPlace(array, claims, given)
               q == [p EXCEPT !.stage = stage, !.length = length, !.own = None]
    <2>1. pass' = [pass EXCEPT ![b] = q]
      BY <1>8, Zenon DEF AppendClaims
    <2>2. loads' = [loads EXCEPT ![p.load].arrays[p.global] = a]
      BY <1>8, Zenon DEF AppendClaims, InPlace
    <2>3. a \in Seq(Mount \union {None}) /\ Len(a) = Len(array)
      <3> HIDE DEF array, claims, given
      <3> QED BY <1>2, <1>4, <1>5, <1>8, ClaimsInPlace
    <2>4. q.load = p.load
      BY <1>2 DEF PassType
    <2>5. a = array \/ b \in Room(load, p.global)
      <3>1. CASE claims = <<>>
        <4>1. DOMAIN array = 1..Len(array) /\ array = [i \in DOMAIN array |-> array[i]]
          <5> HIDE DEF array
          <5> QED BY <1>2
        <4>2. (given + 1)..(given + Len(claims)) = {}
          <5> HIDE DEF given
          <5> QED BY <1>4, <3>1
        <4> HIDE DEF array, claims, given
        <4> QED BY <4>1, <4>2 DEF InPlace
      <3>2. CASE claims # <<>>
        BY <1>1, <1>6, <1>7, <1>8, <3>2 DEF PassHeld, Room, HasRoom
      <3> QED BY <3>1, <3>2
    <2>6. ASSUME NEW new \in LoadType, new.content = load.content, new.arrays[p.global] = a
          PROVE  ArrayHeld(new, p.global) /\ PassHeld(b, q, new)
      <3>1. ArrayHeld(new, p.global)
        <4>1. CASE b \in Room(load, p.global)
          BY <1>2, <1>3, <1>6, <2>3, <2>6, <4>1, AppendedHeld
        <4>2. CASE a = array
          <5>1. new.arrays[p.global] = load.arrays[p.global]
            BY <2>6, <4>2
          <5>2. Room(new, p.global) = Room(load, p.global)
            BY <2>6, <5>1, SameRoom
          <5> HIDE DEF a, load
          <5> QED BY <1>6, <2>6, <5>1, <5>2 DEF ArrayHeld
        <4> QED BY SMTT(30), <2>5, <4>1, <4>2
      <3>2. PassHeld(b, q, new)
        <4>1. Len(new.arrays[p.global]) = Len(load.arrays[p.global])
          BY <2>3, <2>6
        <4>2. Length(load, p.global, b) <= Len(load.arrays[p.global])
          BY <1>7, <1>8
        <4>3. q = [p EXCEPT !.stage = IF ClaimsOf[b] = <<>> THEN "send" ELSE "decode",
                            !.length = Length(load, p.global, b), !.own = None]
          BY <1>7, Zenon
        <4> HIDE DEF q, a, p, load
        <4> QED BY ZenonT(60), <1>1, <1>2, <1>6, <2>6, <4>1, <4>2, <4>3, AppendFits
      <3> QED BY <3>1, <3>2
    <2>7. Allowed(b, q, loads[p.load], p.global, a)
      BY <2>6 DEF Allowed
    <2>8. /\ Len(a) = Len(loads[p.load].arrays[p.global])
          /\ a = loads[p.load].arrays[p.global] \/ b \in Room(loads[p.load], p.global)
      BY <2>3, <2>5
    <2> HIDE DEF a, q, p
    <2> QED BY <1>2, <2>1, <2>2, <2>3, <2>4, <2>7, <2>8, WriteHeld
  <1>9. CASE ~(length <= Len(array))
    <2> DEFINE q == [p EXCEPT !.stage = stage, !.length = length,
                              !.own = SubSeq(array, 1, given) \o claims]
    <2>1. pass' = [pass EXCEPT ![b] = q] /\ loads' = loads
      BY <1>9, Zenon DEF AppendClaims
    <2>2. PassHeld(b, q, load)
      <3>1. ~(Length(load, p.global, b) <= Len(load.arrays[p.global]))
        BY <1>7, <1>9
      <3>2. q = [p EXCEPT !.stage = IF ClaimsOf[b] = <<>> THEN "send" ELSE "decode",
                          !.length = Length(load, p.global, b),
                          !.own = SubSeq(load.arrays[p.global], 1, Len(MountsIn[load.content][p.global]))
                                    \o ClaimsOf[b]]
        BY <1>7, Zenon
      <3>3. /\ Len(MountsIn[load.content][p.global]) <= Len(load.arrays[p.global])
            /\ \A i \in 1..Len(MountsIn[load.content][p.global]) : load.arrays[p.global][i] # None
        BY <1>5
      <3> HIDE DEF q, p, load
      <3> QED BY <1>1, <1>2, <1>3, <1>6, <3>1, <3>2, <3>3, AppendCopies
    <2>3. q.load = p.load
      BY <1>2 DEF PassType
    <2> HIDE DEF q
    <2> QED BY <2>1, <2>2, <2>3, MoveHeld
  <1> QED BY <1>8, <1>9

LEMMA DecodeVolumeMountsHeld ==
    ASSUME Types, SlicesHeld, NEW b \in Boots, DecodeVolumeMounts(b)
    PROVE  SlicesHeld'
  <1> DEFINE p == pass[b]
             load == loads[p.load]
             array == load.arrays[p.global]
  <1>1. p.stage = "decode"
    BY Zenon DEF DecodeVolumeMounts
  <1>2. /\ p \in PassType /\ p.load \in Loads /\ p.global \in Range1
        /\ array \in Seq(Mount \union {None})
    BY <1>1, PassArray
  <1>3. load \in LoadType
    <2>1. loads \in Seq(LoadType)
      BY DEF Types, TypeOK, LoadType
    <2> QED BY <1>2, <2>1 DEF Loads
  <1>4. PassHeld(b, p, load) /\ ArrayHeld(load, p.global)
    BY <1>1, <1>2 DEF SlicesHeld
  <1>5. CASE p.own = None
    <2> DEFINE a == DecodedFirst(b, array, p.length)
               q == [p EXCEPT !.stage = "send"]
    <2>1. p.length \in Nat /\ p.length <= Len(array) /\ \A i \in 1..p.length : array[i] # None
      BY <1>1, <1>2, <1>5 DEF Types, SlicesFilled, PassType
    <2>2. a \in Seq(Mount \union {None}) /\ Len(a) = Len(array)
      <3> HIDE DEF array, p
      <3> QED BY <1>2, <2>1, DecodedInPlace
    <2>3. pass' = [pass EXCEPT ![b] = q]
      BY <1>5 DEF DecodeVolumeMounts, Types, TypeOK
    <2>4. loads' = [loads EXCEPT ![p.load].arrays[p.global] = a]
      BY <1>5, Zenon DEF DecodeVolumeMounts, DecodedFirst
    <2>5. b \in Room(load, p.global)
      BY <1>1, <1>4, <1>5 DEF PassHeld, Room
    <2>6. q.load = p.load
      BY <1>2 DEF PassType
    <2>7. ASSUME NEW new \in LoadType, new.content = load.content, new.arrays[p.global] = a
          PROVE  ArrayHeld(new, p.global) /\ PassHeld(b, q, new)
      <3>1. Len(new.arrays[p.global]) = Len(load.arrays[p.global])
        BY <2>2, <2>7
      <3>2. new.arrays[p.global] = DecodedFirst(b, load.arrays[p.global], p.length)
        BY SMTT(30), <2>7
      <3>3. /\ p.length <= Len(load.arrays[p.global])
            /\ \A i \in 1..p.length : load.arrays[p.global][i] # None
        BY <2>1
      <3> HIDE DEF a, p, load
      <3>4. ArrayHeld(new, p.global) /\ ReadsDecoded(b, load, p.global, p.length, new)
        <4>1. Filling(load, p.global, p.length) /\ Decoding(b, load, p.global, p.length, new)
          BY <2>7, <3>1, <3>2, <3>3 DEF Filling, Decoding
        <4> QED BY <1>2, <1>3, <1>4, <2>1, <2>5, <4>1, DecodedHeld
      <3>5. PassHeld(b, q, new)
        BY <1>1, <1>2, <1>4, <1>5, <2>7, <3>1, <3>4, DecodeShared
      <3> QED BY <3>4, <3>5
    <2>8. Allowed(b, q, loads[p.load], p.global, a)
      BY <2>7 DEF Allowed
    <2>9. Len(a) = Len(loads[p.load].arrays[p.global]) /\ b \in Room(loads[p.load], p.global)
      BY <2>2, <2>5
    <2> HIDE DEF a, q, p
    <2> QED BY <1>2, <2>2, <2>3, <2>4, <2>6, <2>8, <2>9, WriteHeld
  <1>6. CASE p.own # None
    <2> DEFINE q == [p EXCEPT !.stage = "send", !.own = [i \in DOMAIN p.own |-> Decoded(b, p.own[i])]]
    <2>1. pass' = [pass EXCEPT ![b] = q] /\ loads' = loads
      BY <1>6 DEF DecodeVolumeMounts, Types, TypeOK
    <2>2. q.load = p.load
      BY <1>2 DEF PassType
    <2>3. PassHeld(b, q, load)
      <3> HIDE DEF p, load
      <3> QED BY <1>1, <1>2, <1>3, <1>4, <1>6, DecodeOwn
    <2> HIDE DEF q
    <2> QED BY <2>1, <2>2, <2>3, MoveHeld
  <1> QED BY <1>5, <1>6

LEMMA HeldInit ==
    ASSUME Init
    PROVE  SlicesHeld
  <1>1. Loads = {1} /\ loads[1] = Load(stored) /\ stored \in Contents
    BY DEF Init, Loads
  <1> QED BY <1>1, LoadHeld DEF SlicesHeld, Init, NoPass

LEMMA HeldNext ==
    ASSUME IInv, SlicesHeld, [Next]_vars
    PROVE  SlicesHeld'
  <1>1. Types /\ loads \in Seq(LoadType)
    BY IInvParts DEF IInv, TypeOK, LoadType
  <1>2. ASSUME NEW c \in Contents, loads' = Append(loads, Load(c)),
               pass' = pass \/ pass' = [b \in Boots |-> NoPass]
        PROVE  SlicesHeld'
    <2>1. /\ Loads \subseteq Loads' /\ Loads' \ Loads = {Len(loads) + 1}
          /\ \A l \in Loads : loads'[l] = loads[l]
          /\ loads'[Len(loads) + 1] = Load(c)
      BY <1>1, <1>2, LoadAppended DEF Loads
    <2>2. \A l \in Loads' \ Loads, g \in Range1 : ArrayHeld(loads'[l], g)
      BY <2>1, LoadHeld
    <2>3. \A b \in Boots : pass'[b] = pass[b] \/ pass'[b].stage = "idle"
      BY <1>2 DEF NoPass
    <2> QED BY <1>1, <2>1, <2>2, <2>3, LoadsHeld
  <1>3. ASSUME loads' = loads, pass' = pass
        PROVE  SlicesHeld'
    BY <1>1, <1>3, LoadsHeld DEF Loads
  <1>4. ASSUME NEW r \in Requests, Validate(r)
        PROVE  SlicesHeld'
    <2>1. request[r].text \in Contents
      BY <1>4 DEF IInv, TypeOK, Validate, Installing, Texts
    <2> QED BY <1>2, <1>4, <2>1 DEF Validate, Installing
  <1>5. CASE TakeOver
    <2>1. standby \in Contents
      BY <1>5 DEF IInv, TypeOK, TakeOver
    <2> QED BY <1>2, <1>5, <2>1 DEF TakeOver
  <1>6. ASSUME NEW r \in Requests,
               (\E text \in Texts : Submit(r, text)) \/ Deny(r) \/ Assign(r) \/ Answer(r)
                   \/ Overlook(r) \/ Drop(r)
        PROVE  SlicesHeld'
    BY <1>3, <1>6 DEF Submit, Deny, Assign, Answer, Overlook, Drop
  <1>7. CASE Remount \/ InitByFile \/ UNCHANGED vars
    BY <1>3, <1>7 DEF Remount, InitByFile, vars
  <1>8. ASSUME NEW b \in Boots, Start(b) \/ AppendClaims(b) \/ DecodeVolumeMounts(b) \/ Send(b)
        PROVE  SlicesHeld'
    BY <1>1, <1>8, StartHeld, AppendClaimsHeld, DecodeVolumeMountsHeld
  <1> QED BY <1>4, <1>5, <1>6, <1>7, <1>8 DEF Next

\* How a slice about to be sent reads: what is held at each place.
LEMMA SentHeld ==
    ASSUME IInv, SlicesHeld, NEW b \in Boots, pass[b].stage = "send"
    PROVE  LET p == pass[b]
               load == loads[p.load]
           IN /\ Sent(b) \in Seq(Mount)
              /\ Len(Sent(b)) = Len(Given(b)) + Len(ClaimsOf[b])
              /\ \A i \in 1..Len(Sent(b)) :
                    /\ Sent(b)[i] = Slice(p, load)[i]
                    /\ Sent(b)[i] \in Held(load.content, p.global, Room(load, p.global) \union {b}, i)
                    /\ p.own = None => Sent(b)[i] \in Held(load.content, p.global, Room(load, p.global), i)
  <1> DEFINE p == pass[b]
             load == loads[p.load]
             s == Slice(p, load)
             W == Room(load, p.global)
             V == W \union {b}
  <1>1. Types
    BY IInvParts
  <1>2. /\ p \in PassType /\ p.load \in Loads /\ p.global \in Range1
        /\ load.arrays[p.global] \in Seq(Mount \union {None}) /\ load.content \in Contents
    BY <1>1, PassArray
  <1>3. /\ PassHeld(b, p, load) /\ ArrayHeld(load, p.global)
    BY <1>2 DEF SlicesHeld
  <1>4. p.length \in Nat /\ p.length = Len(Given(b)) + Len(ClaimsOf[b])
    BY <1>2, <1>3 DEF PassType, PassHeld, Length, Given
  <1>5. W \in SUBSET Boots /\ V \in SUBSET Boots
    BY DEF Room, Users
  <1>6. /\ s \in Seq(Mount \union {None}) /\ p.length <= Len(s)
        /\ \A i \in 1..p.length :
              /\ s[i] \in Held(load.content, p.global, V, i)
              /\ p.own = None => s[i] \in Held(load.content, p.global, W, i)
    <2>1. CASE p.own = None
      <3>1. s = load.arrays[p.global]
        BY <2>1 DEF Slice
      <3>2. p.length <= Len(s) /\ \A i \in 1..p.length : s[i] # None
        BY <1>1, <2>1, <3>1 DEF Types, SlicesFilled
      <3>3. \A i \in 1..p.length : i \in 1..Len(s)
        <4>1. Len(s) \in Nat
          BY SMTT(30), <1>2, <3>1
        <4>2. p.length \in Nat /\ p.length <= Len(s)
          BY <1>4, <3>2
        <4> HIDE DEF s, p
        <4> QED BY <4>1, <4>2
      <3>4. \A i \in 1..p.length : s[i] \in Held(load.content, p.global, W, i)
        BY <1>3, <3>1, <3>2, <3>3 DEF ArrayHeld
      <3>5. \A i \in 1..p.length : Held(load.content, p.global, W, i)
                                      \subseteq Held(load.content, p.global, V, i)
        <4>1. W \subseteq V
          OBVIOUS
        <4> HIDE DEF W, V
        <4> QED BY <4>1, HeldGrows
      <3> HIDE DEF s, W, V, load
      <3>6. s \in Seq(Mount \union {None})
        BY <1>2, <3>1
      <3> QED BY <3>2, <3>4, <3>5, <3>6
    <2>2. CASE p.own # None
      <3>1. s = p.own /\ p.own \in Seq(Mount)
        BY <1>2, <2>2 DEF Slice, PassType
      <3>2. Len(p.own) = p.length /\ \A i \in 1..p.length : p.own[i] \in Held(load.content, p.global, V, i)
        BY <1>3, <2>2 DEF PassHeld, OwnHeld
      <3>3. s \in Seq(Mount \union {None})
        BY <3>1
      <3> HIDE DEF s, W, V, load
      <3> QED BY <1>4, <2>2, <3>1, <3>2, <3>3
    <2> QED BY <2>1, <2>2
  <1>7. \A i \in 1..p.length : s[i] \in Mount
    <2> SUFFICES ASSUME NEW i \in 1..p.length PROVE s[i] \in Mount
      OBVIOUS
    <2>1. i \in Nat \ {0} /\ b \in V
      BY <1>4
    <2>2. s[i] \in Held(load.content, p.global, V, i)
      BY <1>6
    <2> HIDE DEF s, V, load, p
    <2> DEFINE x == s[i]
               c == load.content
               g == p.global
    <2>3. x \in Held(c, g, V, i) /\ c \in Contents /\ g \in Range1
      BY <1>2, <2>2
    <2> HIDE DEF x, c, g
    <2>4. x \in Mount
      BY <1>5, <2>1, <2>3, HeldDecoded
    <2> QED BY <2>4 DEF x
  <1>8. Sent(b) = SubSeq(s, 1, p.length)
    BY DEF Sent, Slice
  <1>9. Sent(b) \in Seq(Mount) /\ Len(Sent(b)) = p.length /\ \A i \in 1..p.length : Sent(b)[i] = s[i]
    <2> HIDE DEF s, p
    <2>1. Sent(b) = [i \in 1..p.length |-> s[i]]
      BY <1>4, <1>6, <1>8
    <2>2. Sent(b) \in [1..p.length -> Mount]
      BY <1>7, <2>1
    <2> QED BY <1>4, <2>1, <2>2
  <1> QED BY <1>4, <1>6, <1>9

LEMMA SequenceOf ==
    ASSUME NEW S, NEW s \in Seq(S)
    PROVE  Len(s) \in Nat /\ DOMAIN s = 1..Len(s) /\ s = [i \in DOMAIN s |-> s[i]]
  OBVIOUS

LEMMA IndexOf ==
    ASSUME NEW n \in Nat, NEW i \in 1..n
    PROVE  i \in Nat \ {0} /\ i <= n
  OBVIOUS

\* A container has its Boot's mounts where no other Boot has room in the array
\* they begin in, and elsewhere mounts that such Boots ask for and no others, for
\* any arrays, Boots and claims (NewAppContainer): room is the whole cause of
\* mounts that are shared.
THEOREM OnlyRoomShared == Spec => []SharedInRoomOnly
  <1>1. IInv /\ SlicesHeld => SharedInRoomOnly
    <2> SUFFICES ASSUME IInv, SlicesHeld, NEW b \in Boots, pass[b].stage = "send"
                 PROVE  LET writers == Writers(pass[b].load, pass[b].global)
                        IN /\ writers \subseteq {b} => Sent(b) = Wanted(b)
                           /\ \A i \in DOMAIN Wanted(b) : \E o, n \in writers \union {b} :
                                 /\ i <= Len(Filled(b, o))
                                 /\ Sent(b)[i] \in {Filled(b, o)[i], Decoded(n, Filled(b, o)[i])}
      BY DEF SharedInRoomOnly
    <2> DEFINE p == pass[b]
               load == loads[p.load]
               g == p.global
               c == load.content
               W == Room(load, g)
               V == W \union {b}
               length == Len(Given(b)) + Len(ClaimsOf[b])
    <2>1. Types
      BY IInvParts
    <2>2. /\ p.load \in Loads /\ g \in Range1 /\ c \in Contents /\ Given(b) = MountsIn[c][g]
          /\ Given(b) \in Seq(Mount) /\ ClaimsOf[b] \in Seq(Mount)
      BY <2>1, PassArray, BootAssumption DEF Given
    <2>a. /\ Len(Given(b)) \in Nat /\ Len(ClaimsOf[b]) \in Nat /\ length \in Nat
          /\ Len(Given(b)) = Len(MountsIn[c][g]) /\ length = Len(MountsIn[c][g]) + Len(ClaimsOf[b])
      <3>1. Len(Given(b)) \in Nat /\ Len(ClaimsOf[b]) \in Nat
        <4>1. Given(b) \in Seq(Mount) /\ ClaimsOf[b] \in Seq(Mount)
          BY <2>2
        <4> QED BY <4>1, SequenceOf, Zenon
      <3>2. length \in Nat
        BY <3>1
      <3>3. Len(Given(b)) = Len(MountsIn[c][g])
        BY <2>2
      <3> QED BY <3>1, <3>2, <3>3
    <2>b. ClaimsOf[b] = <<>> => Wanted(b) = Given(b) /\ length = Len(Given(b))
      <3>1. ClaimsOf[b] = <<>> => Len(ClaimsOf[b]) = 0
        OBVIOUS
      <3> QED BY <2>a, <3>1 DEF Wanted
    <2>3. Writers(p.load, g) = W /\ W \in SUBSET Boots /\ V \in SUBSET Boots
      BY DEF Writers, Room, HasRoom, Length, Users
    <2>4. /\ Sent(b) \in Seq(Mount) /\ Len(Sent(b)) = length
          /\ \A i \in 1..length :
                /\ Sent(b)[i] = Slice(p, load)[i]
                /\ Sent(b)[i] \in Held(c, g, V, i)
                /\ p.own = None => Sent(b)[i] \in Held(c, g, W, i)
      BY SentHeld
    <2>5. PassHeld(b, p, load)
      BY DEF SlicesHeld
    <2>6. \A o \in Boots : Filled(b, o) = MountsIn[c][g] \o ClaimsOf[o]
                            /\ Len(Filled(b, o)) = Len(MountsIn[c][g]) + Len(ClaimsOf[o])
      <3> SUFFICES ASSUME NEW o \in Boots
                   PROVE  /\ Filled(b, o) = MountsIn[c][g] \o ClaimsOf[o]
                          /\ Len(Filled(b, o)) = Len(MountsIn[c][g]) + Len(ClaimsOf[o])
        OBVIOUS
      <3>1. ClaimsOf[o] \in Seq(Mount) /\ MountsIn[c][g] \in Seq(Mount)
        BY <2>2, BootAssumption
      <3>2. Filled(b, o) = MountsIn[c][g] \o ClaimsOf[o]
        BY <2>2 DEF Filled
      <3> HIDE DEF c, g
      <3> QED BY <3>1, <3>2
    <2>7. DOMAIN Wanted(b) = 1..length
      <3>1. DOMAIN Filled(b, b) = 1..length
        <4>1. Filled(b, b) \in Seq(Mount) /\ Len(Filled(b, b)) = length
          BY SMTT(30), <2>2 DEF Filled
        <4> QED BY <4>1
      <3>2. CASE ClaimsOf[b] = <<>>
        <4>1. Wanted(b) = Given(b) /\ length = Len(Given(b))
          BY <2>b, <3>2
        <4>2. DOMAIN Given(b) = 1..Len(Given(b))
          BY <2>2
        <4> QED BY <4>1, <4>2
      <3>3. CASE ClaimsOf[b] # <<>>
        BY <3>1, <3>3 DEF Wanted
      <3> QED BY <3>2, <3>3
    <2>8. ASSUME W \subseteq {b}
          PROVE  Sent(b) = Wanted(b)
      <3>1. \A i \in 1..length : Sent(b)[i] = Wanted(b)[i]
        <4> SUFFICES ASSUME NEW i \in 1..length PROVE Sent(b)[i] = Wanted(b)[i]
          OBVIOUS
        <4>1. i \in Nat \ {0} /\ i <= length
          <5>1. length \in Nat /\ i \in 1..length
            BY <2>a
          <5> HIDE DEF length
          <5> QED BY <5>1, IndexOf
        <4>2. CASE ClaimsOf[b] = <<>>
          <5>1. p.own = None /\ W = {}
            BY <2>5, <2>8, <4>2 DEF PassHeld, OwnHeld, Room, HasRoom
          <5>2. Wanted(b) = Given(b) /\ i <= Len(MountsIn[c][g])
            BY <2>a, <2>b, <4>1, <4>2
          <5>3. Place(c, g, W, i) = {MountsIn[c][g][i]}
            BY <5>2 DEF Place
          <5>4. Sent(b)[i] \in Held(c, g, W, i)
            BY <2>4, <5>1
          <5>5. Held(c, g, W, i) = Place(c, g, W, i)
            BY SMTT(30), <5>1 DEF Held
          <5>6. Sent(b)[i] = MountsIn[c][g][i]
            BY <5>3, <5>4, <5>5
          <5> QED BY <2>2, <5>2, <5>6
        <4>3. CASE ClaimsOf[b] # <<>>
          <5>1. Wanted(b)[i] = Decoded(b, Filled(b, b)[i])
            BY <2>7, <4>3 DEF Wanted
          <5>2. i <= Len(MountsIn[c][g]) + Len(ClaimsOf[b])
            BY <2>a, <4>1
          <5>3. Filled(b, b)[i] \in Place(c, g, {b}, i)
            <6>1. (MountsIn[c][g] \o ClaimsOf[b])[i] \in Place(c, g, {b}, i)
              <7>1. c \in Contents /\ g \in Range1 /\ {b} \in SUBSET Boots /\ b \in {b}
                BY <2>2
              <7> HIDE DEF c, g
              <7> QED BY <4>1, <5>2, <7>1, PlaceOf
            <6> QED BY <2>6, <6>1
          <5>4. Sent(b)[i] = Slice(p, load)[i] /\ i \in 1..p.length
            BY <2>2, <2>4, <2>5 DEF PassHeld, Length
          <5>5. Slice(p, load)[i] = Decoded(b, Filled(b, b)[i])
            BY <2>5, <2>8, <4>3, <5>3, <5>4 DEF PassHeld, SliceDecoded
          <5> QED BY <5>1, <5>4, <5>5
        <4> QED BY <4>2, <4>3
      <3>2. Wanted(b) = [i \in 1..length |-> Wanted(b)[i]]
        <4>1. CASE ClaimsOf[b] = <<>>
          <5>1. Wanted(b) = Given(b)
            BY <4>1 DEF Wanted
          <5>2. Given(b) = [i \in DOMAIN Given(b) |-> Given(b)[i]]
            <6>1. Given(b) \in Seq(Mount)
              BY <2>2
            <6> QED BY <6>1, SequenceOf, Zenon
          <5> QED BY <2>7, <5>1, <5>2
        <4>2. CASE ClaimsOf[b] # <<>>
          <5>1. Wanted(b) = [i \in DOMAIN Filled(b, b) |-> Decoded(b, Filled(b, b)[i])]
            BY <4>2 DEF Wanted
          <5> QED BY <2>7, <5>1
        <4> QED BY <4>1, <4>2
      <3>3. Sent(b) = [i \in 1..length |-> Sent(b)[i]]
        BY <2>4
      <3> QED BY <3>1, <3>2, <3>3
    <2>9. ASSUME NEW i \in DOMAIN Wanted(b)
          PROVE  \E o, n \in W \union {b} :
                    /\ i <= Len(Filled(b, o))
                    /\ Sent(b)[i] \in {Filled(b, o)[i], Decoded(n, Filled(b, o)[i])}
      <3>1. i \in 1..length /\ i \in Nat \ {0}
        <4>1. i \in 1..length
          BY <2>7
        <4>2. length \in Nat
          BY <2>a
        <4> HIDE DEF length
        <4> QED BY <4>1, <4>2, IndexOf
      <3>2. Sent(b)[i] \in Held(c, g, V, i)
        BY <2>4, <3>1
      <3>3. PICK m \in Place(c, g, V, i) : \E n \in V : Sent(b)[i] \in {m, Decoded(n, m)}
        BY <3>2 DEF Held
      <3>4. \E o \in V : i <= Len(Filled(b, o)) /\ m = Filled(b, o)[i]
        <4>1. CASE i <= Len(MountsIn[c][g])
          <5>1. m = MountsIn[c][g][i]
            BY <3>3, <4>1 DEF Place
          <5>2. i <= Len(Filled(b, b)) /\ Filled(b, b)[i] = MountsIn[c][g][i]
            <6> DEFINE mounts == MountsIn[c][g]
            <6>1. mounts \in Seq(Mount) /\ ClaimsOf[b] \in Seq(Mount)
              BY SMTT(30), <2>2
            <6>2. Filled(b, b) = mounts \o ClaimsOf[b] /\ i <= Len(mounts)
              BY <2>6, <4>1
            <6> HIDE DEF mounts
            <6>3. i <= Len(Filled(b, b)) /\ Filled(b, b)[i] = mounts[i]
              BY <3>1, <6>1, <6>2
            <6> QED BY <6>3 DEF mounts
          <5> QED BY <5>1, <5>2
        <4>2. CASE ~(i <= Len(MountsIn[c][g]))
          <5> DEFINE mounts == MountsIn[c][g]
                     given == Len(mounts)
          <5>1. PICK o \in V : i - given <= Len(ClaimsOf[o]) /\ m = ClaimsOf[o][i - given]
            BY ZenonT(60), <3>3, <4>2 DEF Place
          <5>2. mounts \in Seq(Mount) /\ given \in Nat /\ ~(i <= given)
            BY <2>2, <2>a, <4>2
          <5>3. ClaimsOf[o] \in Seq(Mount)
            BY SMTT(30), <2>3, BootAssumption
          <5>4. Filled(b, o) = mounts \o ClaimsOf[o] /\ Len(Filled(b, o)) = given + Len(ClaimsOf[o])
            BY <2>3, <2>6
          <5> HIDE DEF mounts
          <5>5. i <= given + Len(ClaimsOf[o]) /\ m = (mounts \o ClaimsOf[o])[i]
            BY <3>1, <5>1, <5>2, <5>3
          <5> QED BY <5>4, <5>5
        <4> QED BY SMTT(30), <4>1, <4>2
      <3> QED BY <3>3, <3>4
    <2> QED BY <2>3, <2>8, <2>9
  <1>2. Spec => []SlicesHeld
    BY Invariance, HeldInit, HeldNext, PTL DEF Spec
  <1> QED BY Invariance, <1>1, <1>2, PTL
=============================================================================
