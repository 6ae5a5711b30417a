-------------------------- MODULE SimpleDBusProofs --------------------------
(***************************************************************************)
(* Proofs about the simple D-Bus interfaces, for every number of clients,  *)
(* every bound and both values of monitor.                                 *)
(***************************************************************************)
EXTENDS SimpleDBus, FiniteSetTheorems, SequenceTheorems, TLAPS

----------------------------------------------------------------------------
(* The operators the handlers are built from                               *)

\* RemoveIf loses no element but the one to remove, and makes up none but the
\* moved-from one.
LEMMA RemoveIfFacts ==
    ASSUME NEW S, NEW ids \in Seq(S), NEW id
    PROVE  /\ RemoveIf(ids, id) \in Seq(S \cup {EmptyId})
           /\ \A e \in ToSet(ids) : e # id => e \in ToSet(RemoveIf(ids, id))
           /\ ToSet(RemoveIf(ids, id)) \subseteq ToSet(ids) \cup {EmptyId}
<1>. DEFINE stay == {n \in DOMAIN ids : ids[n] # id}
            UpTo(n) == {k \in stay : k <= n}
            place == [n \in stay |-> Cardinality(UpTo(n))]
            At(n) == IF \E k \in stay : place[k] = n THEN ids[CHOOSE k \in stay : place[k] = n]
                     ELSE IF ids[n] = id THEN id ELSE EmptyId
<1>1. DOMAIN ids = 1..Len(ids) /\ Len(ids) \in Nat /\ stay \subseteq 1..Len(ids)
  BY LenProperties
<1>2. RemoveIf(ids, id) = [n \in 1..Len(ids) |-> At(n)]
  BY <1>1 DEF RemoveIf
<1>3. ASSUME NEW n \in stay
      PROVE  IsFiniteSet(UpTo(n)) /\ place[n] \in 1..n
  <2>1. n \in 1..Len(ids) /\ IsFiniteSet(1..n) /\ Cardinality(1..n) = n
    BY <1>1, FS_Interval
  <2>2. UpTo(n) \subseteq 1..n /\ n \in UpTo(n)
    BY <1>1
  <2>3. IsFiniteSet(UpTo(n)) /\ Cardinality(UpTo(n)) <= n
    BY <2>1, <2>2, FS_Subset
  <2>4. Cardinality(UpTo(n)) \in Nat /\ Cardinality(UpTo(n)) # 0
    BY <2>2, <2>3, FS_CardinalityType, FS_EmptySet
  <2>. QED
    BY <2>1, <2>3, <2>4
<1>4. ASSUME NEW m \in stay, NEW n \in stay, m < n
      PROVE  place[m] # place[n]
  <2>1. UpTo(m) \subseteq UpTo(n) /\ n \in UpTo(n) /\ n \notin UpTo(m)
    BY <1>1, <1>4
  <2>. QED
    BY <1>3, <2>1, FS_Subset
<1>5. ASSUME NEW n \in stay
      PROVE  At(place[n]) = ids[n]
  <2>1. ASSUME NEW k \in stay, place[k] = place[n]
        PROVE  k = n
    BY <1>1, <1>4, <2>1
  <2>2. (CHOOSE k \in stay : place[k] = place[n]) = n
    BY <2>1
  <2>. QED
    BY <2>2
<1>6. ASSUME NEW n \in 1..Len(ids)
      PROVE  At(n) \in ToSet(ids) \cup {EmptyId} /\ At(n) \in S \cup {EmptyId}
  <2>1. CASE \E k \in stay : place[k] = n
    <3>1. (CHOOSE k \in stay : place[k] = n) \in stay
      BY <2>1
    <3>. QED
      BY <1>1, <2>1, <3>1, ElementOfSeq DEF ToSet
  <2>2. CASE ~\E k \in stay : place[k] = n
    BY <1>1, <2>2, ElementOfSeq DEF ToSet
  <2>. QED
    BY <2>1, <2>2
<1>. HIDE DEF At
<1>7. RemoveIf(ids, id) \in Seq(S \cup {EmptyId})
  <2>1. RemoveIf(ids, id) \in [1..Len(ids) -> S \cup {EmptyId}]
    BY <1>2, <1>6
  <2>. QED
    BY <1>1, <2>1, SeqDef
<1>8. ASSUME NEW e \in ToSet(ids), e # id
      PROVE  e \in ToSet(RemoveIf(ids, id))
  <2>1. PICK n \in stay : ids[n] = e
    BY <1>8 DEF ToSet
  <2>2. place[n] \in 1..Len(ids)
    <3>1. n \in 1..Len(ids) /\ Len(ids) \in Nat
      BY <1>1
    <3>2. place[n] \in 1..n
      BY <1>3
    <3>. HIDE DEF place
    <3>. QED
      BY <3>1, <3>2
  <2>3. RemoveIf(ids, id)[place[n]] = e
    BY <1>2, <1>5, <2>1, <2>2
  <2>. QED
    BY <1>2, <2>2, <2>3 DEF ToSet
<1>9. ToSet(RemoveIf(ids, id)) \subseteq ToSet(ids) \cup {EmptyId}
  BY <1>2, <1>6 DEF ToSet
<1>. QED
  BY <1>7, <1>8, <1>9

LEMMA ToSetFacts ==
    ASSUME NEW S, NEW s \in Seq(S)
    PROVE  /\ ToSet(s) \subseteq S
           /\ \A e \in S : ToSet(Append(s, e)) = ToSet(s) \cup {e}
           /\ s # <<>> => Head(s) \in ToSet(s) /\ ToSet(Tail(s)) \subseteq ToSet(s)
<1>1. ToSet(s) \subseteq S
  BY ElementOfSeq, LenProperties DEF ToSet
<1>2. ASSUME NEW e \in S
      PROVE  ToSet(Append(s, e)) = ToSet(s) \cup {e}
  <2>1. DOMAIN Append(s, e) = 1..Len(s) + 1 /\ DOMAIN s = 1..Len(s) /\ Len(s) \in Nat
    BY LenProperties
  <2>2. \A n \in 1..Len(s) + 1 : Append(s, e)[n] = IF n = Len(s) + 1 THEN e ELSE s[n]
    BY <2>1
  <2>. QED
    BY <2>1, <2>2 DEF ToSet
<1>3. ASSUME s # <<>>
      PROVE  Head(s) \in ToSet(s) /\ ToSet(Tail(s)) \subseteq ToSet(s)
  <2>1. Len(s) \in Nat \ {0} /\ DOMAIN s = 1..Len(s)
    BY <1>3, EmptySeq, LenProperties
  <2>2. /\ Tail(s) \in Seq(S) /\ Len(Tail(s)) = Len(s) - 1
        /\ \A n \in 1..Len(Tail(s)) : Tail(s)[n] = s[n + 1]
    BY <1>3, HeadTailProperties
  <2>3. DOMAIN Tail(s) = 1..Len(s) - 1
    BY <2>2, LenProperties
  <2>4. Head(s) = s[1]
    BY <1>3
  <2>. QED
    BY <2>1, <2>2, <2>3, <2>4 DEF ToSet
<1>. QED
  BY <1>1, <1>2, <1>3

----------------------------------------------------------------------------
(* The registry                                                            *)

\* What inhibitOwners lists for a client.
Lists == Seq(Id \cup {EmptyId})

\* The types of what the handlers write.
RegistryOK ==
    /\ DOMAIN active \subseteq Id /\ \A id \in DOMAIN active : active[id] \in Nat
    /\ DOMAIN owners \subseteq Clients
    /\ \A c \in DOMAIN owners : owners[c] \in Lists
    /\ lastCookie \in Cookies
    /\ disowned \subseteq Id

LEMMA NextCookieFacts ==
    ASSUME lastCookie \in Cookies
    PROVE  NextCookie \in Cookies /\ (face # SESSION => NextCookie # 0)
<1>1. Modulus \in Nat /\ Modulus > 1
  BY BoundsAssumption
<1>2. lastCookie \in Nat /\ (lastCookie + 1) % Modulus \in 0..Modulus - 1
  BY <1>1 DEF Cookies
<1>. QED
  BY <1>1, <1>2 DEF NextCookie, Cookies

LEMMA OwnersOfType ==
    ASSUME RegistryOK, NEW c
    PROVE  OwnersOf(c) \in Lists
BY DEF RegistryOK, OwnersOf, Lists

LEMMA DispatchType ==
    ASSUME RegistryOK, now \in Nat, NEW m \in Call, NEW k \in Cookies,
           NEW thrown \in BOOLEAN, Dispatch(m, k, thrown)
    PROVE  RegistryOK'
<1>. USE DEF RegistryOK
<1>1. m.from \in Clients /\ m.cookie \in Cookies
  BY DEF Call
<1>2. CASE OnInhibit(m, k, thrown)
  <2>. DEFINE id == [sender |-> m.from, cookie |-> k]
  <2>1. id \in Id
    BY <1>1 DEF Id
  <2>2. active' = MapInsert(active, id, now) /\ disowned' \subseteq disowned \cup {id}
    BY <1>2 DEF OnInhibit, Register
  <2>3. owners' \in {owners, MapPush(owners, m.from, id)} /\ lastCookie' = NextCookie
    BY <1>2 DEF OnInhibit
  <2>. HIDE DEF id
  <2>4. DOMAIN active' \subseteq Id /\ \A i \in DOMAIN active' : active'[i] \in Nat
    BY <2>1, <2>2 DEF MapInsert
  <2>5. MapPush(owners, m.from, id) = MapPut(owners, m.from, Append(OwnersOf(m.from), id))
    BY DEF MapPush, MapPut, OwnersOf
  <2>6. Append(OwnersOf(m.from), id) \in Lists
    BY <2>1, OwnersOfType DEF Lists
  <2>7. DOMAIN owners' \subseteq Clients /\ \A c \in DOMAIN owners' : owners'[c] \in Lists
    BY <1>1, <2>3, <2>5, <2>6 DEF MapPut
  <2>. QED
    BY <2>1, <2>2, <2>3, <2>4, <2>7, NextCookieFacts
<1>3. CASE OnUnInhibit(m)
  <2>. DEFINE id == [sender |-> m.from, cookie |-> m.cookie]
  <2>1. /\ active' = MapErase(active, id) /\ disowned' \subseteq disowned
        /\ owners' = MapPut(owners, m.from, RemoveIf(OwnersOf(m.from), id)) /\ lastCookie' = lastCookie
    BY <1>3 DEF OnUnInhibit
  <2>2. RemoveIf(OwnersOf(m.from), id) \in Lists
    <3>. DEFINE S == Id \cup {EmptyId}
    <3>1. S \cup {EmptyId} = S /\ OwnersOf(m.from) \in Seq(S)
      BY OwnersOfType DEF Lists
    <3>. HIDE DEF S
    <3>2. RemoveIf(OwnersOf(m.from), id) \in Seq(S \cup {EmptyId})
      BY <3>1, RemoveIfFacts
    <3>3. RemoveIf(OwnersOf(m.from), id) \in Seq(S)
      BY <3>1, <3>2
    <3>. QED
      BY <3>3 DEF Lists, S
  <2>. HIDE DEF id
  <2>3. DOMAIN active' \subseteq Id /\ \A i \in DOMAIN active' : active'[i] \in Nat
    BY <2>1 DEF MapErase
  <2>4. DOMAIN owners' \subseteq Clients /\ \A c \in DOMAIN owners' : owners'[c] \in Lists
    BY <1>1, <2>1, <2>2 DEF MapPut
  <2>. QED
    BY <2>1, <2>3, <2>4
<1>4. CASE OnSimActivity(m, thrown)
  <2>. DEFINE id == ActivityId(m.from)
              ids == IF thrown THEN <<>> ELSE <<id>>
  <2>1. id \in Id
    BY <1>1, BoundsAssumption DEF Id, ActivityId, Cookies
  <2>2. /\ active' = MapInsert(active, id, now) /\ disowned' \subseteq disowned \cup DOMAIN active \cup {id}
        /\ owners' = MapPut(owners, m.from, ids) /\ lastCookie' = lastCookie
    BY <1>4 DEF OnSimActivity
  <2>. HIDE DEF id
  <2>3. ids \in Lists
    <3>1. <<>> \in Lists
      BY EmptySeq DEF Lists
    <3>2. <<id>> \in Lists
      BY <2>1 DEF Lists
    <3>. QED
      BY <3>1, <3>2
  <2>. HIDE DEF ids
  <2>4. DOMAIN active' \subseteq Id /\ \A i \in DOMAIN active' : active'[i] \in Nat
    BY <2>1, <2>2 DEF MapInsert
  <2>5. DOMAIN owners' \subseteq Clients /\ \A c \in DOMAIN owners' : owners'[c] \in Lists
    BY <1>1, <2>2, <2>3 DEF MapPut
  <2>. QED
    BY <2>1, <2>2, <2>4, <2>5
<1>. QED
  BY <1>2, <1>3, <1>4 DEF Dispatch

----------------------------------------------------------------------------
(* The types of the variables                                              *)

Message == Call \cup Return \cup NameLost

LEMMA MemberNames == Members \subseteq {"Inhibit", "UnInhibit", "SimulateUserActivity"}
BY DEF Members

LEMMA MessageFacts ==
    ASSUME NEW m \in Message
    PROVE  /\ m.what \in Members => m \in Call
           /\ m.what = "return" => m \in Return
           /\ m.what = "gone" => m \in NameLost
BY MemberNames DEF Message, Call, Return, NameLost

LEMMA InboxFacts ==
    ASSUME TypeOK, inbox # <<>>
    PROVE  /\ Head(inbox) \in Message /\ Tail(inbox) \in Seq(Message)
           /\ Len(inbox) > 1 => Tail(Tail(inbox)) \in Seq(Message) /\ inbox[2] \in Message
<1>1. inbox \in Seq(Message)
  BY DEF TypeOK, Message
<1>2. /\ Head(inbox) \in Message /\ Tail(inbox) \in Seq(Message)
      /\ Len(inbox) \in Nat /\ Len(Tail(inbox)) = Len(inbox) - 1
  BY <1>1, HeadTailProperties, LenProperties
<1>3. ASSUME Len(inbox) > 1
      PROVE  Tail(Tail(inbox)) \in Seq(Message) /\ inbox[2] \in Message
  <2>1. Len(Tail(inbox)) # 0 /\ 2 \in 1..Len(inbox)
    BY <1>2, <1>3
  <2>2. Tail(inbox) # <<>>
    BY <2>1, EmptySeq
  <2>. QED
    BY <1>1, <1>2, <2>1, <2>2, HeadTailProperties, ElementOfSeq
<1>. QED
  BY <1>2, <1>3

LEMMA AboutFacts ==
    ASSUME TypeOK, NEW m \in Message
    PROVE  About(m) \subseteq Clients
<1>1. CASE m.what = "return"
  <2>1. \A s \in DOMAIN methodCalls : methodCalls[s].from \in Clients
    BY DEF TypeOK, Call
  <2>. QED
    BY <1>1, <2>1 DEF About
<1>2. CASE m.what # "return"
  BY <1>2 DEF About, Message, Call, Return, NameLost
<1>. QED
  BY <1>1, <1>2

LEMMA HandledType ==
    ASSUME TypeOK, inbox # <<>>, NEW thrown \in BOOLEAN, Handled(thrown)
    PROVE  inbox' \in Seq(Message) /\ missed' \subseteq Clients
<1>1. CASE inbox' = Tail(inbox) /\ UNCHANGED missed
  BY <1>1, InboxFacts DEF TypeOK
<1>2. CASE /\ Len(inbox) > 1 /\ inbox' = Tail(Tail(inbox))
           /\ missed' = missed \cup About(inbox[2])
  BY <1>2, InboxFacts, AboutFacts DEF TypeOK
<1>. QED
  BY <1>1, <1>2 DEF Handled

LEMMA RegistryType == TypeOK => RegistryOK
BY DEF TypeOK, RegistryOK, Lists

LEMMA TypeInit == Init => TypeOK
<1>. SUFFICES ASSUME Init PROVE TypeOK
  OBVIOUS
<1>1. /\ serial \in [Clients -> Nat] /\ lastCookie \in Cookies /\ svcCookie \in Cookies
      /\ holds \in [Clients -> SUBSET Cookies]
  BY BoundsAssumption DEF Init, Cookies
<1>2. inbox \in Seq(Call \cup Return \cup NameLost) /\ service \in Seq(Call)
  BY EmptySeq DEF Init
<1>3. DOMAIN active = {} /\ DOMAIN owners = {} /\ DOMAIN methodCalls = {}
  BY DEF Init, EmptyMap
<1>. QED
  BY <1>1, <1>2, <1>3 DEF Init, TypeOK

\* The parts of TypeOK that a message can change.
BusOK ==
    /\ holds \in [Clients -> SUBSET Cookies]
    /\ inbox \in Seq(Message)
    /\ service \in Seq(Call)
    /\ svcCookie \in Cookies
    /\ DOMAIN methodCalls \subseteq Nat
    /\ \A s \in DOMAIN methodCalls : methodCalls[s] \in Call

\* The others.
RestOK ==
    /\ monitor \in Modes /\ face \in Faces /\ link \in {FULL, NONE, UNMATCHED}
    /\ alive \subseteq Clients
    /\ serial \in [Clients -> Nat]
    /\ now \in Nat
    /\ gone \subseteq Clients
    /\ missed \subseteq Clients

LEMMA TypeParts == TypeOK <=> RegistryOK /\ BusOK /\ RestOK
BY DEF TypeOK, RegistryOK, BusOK, RestOK, Lists, Message

LEMMA SameMessages ==
    ASSUME face' = face
    PROVE  Members' = Members /\ Call' = Call /\ Message' = Message
<1>1. Members' = Members
  BY DEF Members, Simulates
<1>2. Call' = Call
  BY <1>1 DEF Call
<1>. QED
  BY <1>1, <1>2 DEF Message, Return, NameLost

LEMMA SendType ==
    ASSUME TypeOK, NEW c \in Clients, NEW what, NEW k \in Cookies, Send(c, what, k),
           holds' \in [Clients -> SUBSET Cookies]
    PROVE  TypeOK'
<1>. DEFINE m == [what |-> what, from |-> c, serial |-> serial[c] + 1, cookie |-> k]
<1>1. m \in Call /\ m \in Message /\ Call' = Call /\ Message' = Message
  <2>1. what \in Members /\ face' = face /\ serial[c] + 1 \in Nat
    BY DEF Send, TypeOK, config
  <2>. QED
    BY <2>1, SameMessages DEF Call, Message
<1>2. /\ inbox' \in {inbox, Append(inbox, m)} /\ service' \in {service, Append(service, m)}
      /\ UNCHANGED <<config, alive, svcCookie, now, daemonVars>>
      /\ serial' = [serial EXCEPT ![c] = @ + 1]
  BY DEF Send
<1>. HIDE DEF m
<1>3. BusOK'
  <2>0. inbox \in Seq(Message) /\ service \in Seq(Call)
    BY TypeParts DEF BusOK
  <2>1. inbox' \in Seq(Message) /\ service' \in Seq(Call)
    <3>1. Append(inbox, m) \in Seq(Message) /\ Append(service, m) \in Seq(Call)
      BY <1>1, <2>0
    <3>. QED
      BY <1>2, <2>0, <3>1
  <2>. QED
    BY <1>1, <1>2, <2>1, TypeParts DEF BusOK, daemonVars
<1>4. RegistryOK'
  BY <1>2, TypeParts DEF RegistryOK, daemonVars
<1>5. serial' \in [Clients -> Nat]
  <2>1. serial \in [Clients -> Nat] /\ serial[c] + 1 \in Nat
    BY DEF TypeOK
  <2>. QED
    BY <1>2, <2>1
<1>6. RestOK'
  BY <1>2, <1>5, TypeParts DEF RestOK, config, daemonVars
<1>. QED
  BY <1>3, <1>4, <1>6, TypeParts, PTL

LEMMA TypeStep == TypeOK /\ [Next]_vars => TypeOK'
<1>. SUFFICES ASSUME TypeOK, [Next]_vars PROVE TypeOK'
  OBVIOUS
<1>0. RegistryOK /\ BusOK /\ RestOK
  BY TypeParts
<1>a. 0 \in Cookies /\ 1 \in Cookies
  BY BoundsAssumption DEF Cookies
<1>b. ASSUME RegistryOK', BusOK', RestOK'
      PROVE  TypeOK'
  BY <1>b, TypeParts, PTL
<1>1. ASSUME NEW c \in Clients, ClientInhibit(c)
      PROVE  TypeOK'
  BY <1>0, <1>a, <1>1, SendType DEF ClientInhibit, BusOK
<1>2. ASSUME NEW c \in Clients, ClientUnInhibit(c)
      PROVE  TypeOK'
  <2>1. PICK k \in UNION {holds[d] : d \in Clients} :
            Send(c, "UnInhibit", k) /\ holds' = [holds EXCEPT ![c] = @ \ {k}]
    BY <1>2 DEF ClientUnInhibit
  <2>2. k \in Cookies /\ holds' \in [Clients -> SUBSET Cookies]
    BY <1>0, <2>1 DEF BusOK
  <2>. QED
    BY <2>1, <2>2, SendType
<1>3. ASSUME NEW c \in Clients, ClientSimulate(c)
      PROVE  TypeOK'
  BY <1>0, <1>a, <1>3, SendType DEF ClientSimulate, BusOK
<1>4. ASSUME NEW c \in Clients, ClientGone(c)
      PROVE  TypeOK'
  <2>. DEFINE m == [what |-> "gone", from |-> c, serial |-> 0, cookie |-> 0]
  <2>1. m \in Message /\ Call' = Call /\ Message' = Message
    BY <1>4, SameMessages DEF ClientGone, config, Message, NameLost
  <2>2. inbox' \in {inbox, Append(inbox, m)} /\ holds' = [holds EXCEPT ![c] = {}]
    BY <1>4 DEF ClientGone
  <2>. HIDE DEF m
  <2>3. BusOK'
    BY <1>0, <1>4, <2>1, <2>2 DEF BusOK, ClientGone, daemonVars
  <2>4. RegistryOK' /\ RestOK'
    BY <1>0, <1>4 DEF ClientGone, RegistryOK, RestOK, daemonVars, config
  <2>. QED
    BY <1>b, <2>3, <2>4
<1>5. ASSUME ServiceAnswer
      PROVE  TypeOK'
  <2>. DEFINE m == Head(service)
              k == IF m.what = "Inhibit" THEN svcCookie + 1 ELSE Nothing
  <2>1. service # <<>> /\ service \in Seq(Call) /\ svcCookie \in Cookies
    BY <1>0, <1>5 DEF ServiceAnswer, BusOK
  <2>2. m \in Call /\ Tail(service) \in Seq(Call)
    BY <2>1, HeadTailProperties
  <2>3. k \in Cookies \cup {Nothing} /\ (m.what = "Inhibit" => k \in Cookies)
    <3>1. m.what = "Inhibit" => svcCookie + 1 < Modulus
      BY <1>5 DEF ServiceAnswer
    <3>2. m.what = "Inhibit" => svcCookie + 1 \in Cookies
      BY <2>1, <3>1, BoundsAssumption DEF Cookies
    <3>. QED
      BY <3>2
  <2>4. svcCookie' \in Cookies
    BY <1>5, <2>1, <2>3 DEF ServiceAnswer
  <2>5. holds' \in [Clients -> SUBSET Cookies]
    BY <1>0, <1>5, <2>3 DEF ServiceAnswer, BusOK
  <2>6. inbox' \in {inbox, Append(inbox, ReturnOf(m.serial, k))} /\ service' = Tail(service)
    BY <1>5 DEF ServiceAnswer
  <2>7. ReturnOf(m.serial, k) \in Message
    BY <2>2, <2>3 DEF ReturnOf, Message, Return, Call
  <2>8. UNCHANGED <<config, alive, serial, now, daemonVars>> /\ Call' = Call /\ Message' = Message
    BY <1>5, SameMessages DEF ServiceAnswer, config
  <2>. HIDE DEF m, k
  <2>9. BusOK'
    <3>1. service' \in Seq(Call)
      BY <2>2, <2>6
    <3>2. inbox \in Seq(Message)
      BY <1>0 DEF BusOK
    <3>3. Append(inbox, ReturnOf(m.serial, k)) \in Seq(Message)
      BY <2>7, <3>2, AppendProperties
    <3>4. inbox' \in Seq(Message)
      BY <2>6, <3>2, <3>3
    <3>. QED
      BY <1>0, <2>4, <2>5, <2>8, <3>1, <3>4 DEF BusOK, daemonVars
  <2>10. RegistryOK' /\ RestOK'
    BY <1>0, <2>8 DEF RegistryOK, RestOK, daemonVars, config
  <2>. QED
    BY <1>b, <2>9, <2>10
<1>6. ASSUME ServiceError
      PROVE  TypeOK'
  <2>1. service' \in Seq(Call) /\ Call' = Call /\ Message' = Message
    BY <1>0, <1>6, HeadTailProperties, SameMessages DEF ServiceError, BusOK, config
  <2>2. BusOK' /\ RegistryOK' /\ RestOK'
    BY <1>0, <1>6, <2>1 DEF ServiceError, BusOK, RegistryOK, RestOK, daemonVars, config, clientVars
  <2>. QED
    BY <1>b, <2>2
<1>7. ASSUME NameComes
      PROVE  TypeOK'
  <2>1. /\ service' \in Seq(Call) /\ svcCookie' \in Cookies /\ holds' \in [Clients -> SUBSET Cookies]
        /\ link' \in {FULL, NONE, UNMATCHED}
    BY <1>7, <1>a, EmptySeq DEF NameComes
  <2>2. Call' = Call /\ Message' = Message
    BY <1>7, SameMessages DEF NameComes
  <2>3. BusOK' /\ RegistryOK' /\ RestOK'
    BY <1>0, <1>7, <2>1, <2>2 DEF NameComes, BusOK, RegistryOK, RestOK, daemonVars
  <2>. QED
    BY <1>b, <2>3
<1>8. ASSUME StrayReturn
      PROVE  TypeOK'
  <2>1. PICK s \in StraySerials : inbox' = <<ReturnOf(s, 1)>>
    BY <1>8 DEF StrayReturn
  <2>2. ReturnOf(s, 1) \in Message /\ Call' = Call /\ Message' = Message
    BY <1>8, <1>a, SameMessages, BoundsAssumption DEF StrayReturn, ReturnOf, Message, Return, config
  <2>3. inbox' \in Seq(Message)
    BY <2>1, <2>2
  <2>4. BusOK' /\ RegistryOK' /\ RestOK'
    BY <1>0, <1>8, <2>2, <2>3
    DEF StrayReturn, BusOK, RegistryOK, RestOK, daemonVars, config, clientVars
  <2>. QED
    BY <1>b, <2>4
<1>9. ASSUME Tick
      PROVE  TypeOK'
  BY <1>9 DEF Tick, TypeOK, Call, Members, Simulates, config, clientVars, busVars, daemonVars
<1>10. ASSUME HandleCall
       PROVE  TypeOK'
  <2>. DEFINE m == Head(inbox)
  <2>1. PICK thrown \in {FALSE, HubThrows} : Dispatch(m, NextCookie, thrown) /\ Handled(thrown)
    BY <1>10 DEF HandleCall
  <2>2. thrown \in BOOLEAN /\ inbox # <<>> /\ m.what \in Members
    BY <1>10, ModesAssumption DEF HandleCall, Oldest
  <2>3. m \in Call /\ NextCookie \in Cookies
    BY <1>0, <2>2, InboxFacts, MessageFacts, NextCookieFacts DEF RegistryOK
  <2>4. RegistryOK'
    BY <1>0, <2>1, <2>2, <2>3, DispatchType DEF RestOK
  <2>5. inbox' \in Seq(Message) /\ missed' \subseteq Clients
    BY <2>1, <2>2, HandledType
  <2>6. holds' \in [Clients -> SUBSET Cookies]
    BY <1>0, <1>10, <2>3 DEF HandleCall, BusOK
  <2>7. Call' = Call /\ Message' = Message
    BY <1>10, SameMessages DEF HandleCall, config
  <2>8. BusOK' /\ RestOK'
    BY <1>0, <1>10, <2>5, <2>6, <2>7 DEF HandleCall, BusOK, RestOK, config
  <2>. QED
    BY <1>b, <2>4, <2>8
<1>11. ASSUME RecordCall
       PROVE  TypeOK'
  <2>1. inbox # <<>> /\ Head(inbox).what \in Members /\ inbox' = Tail(inbox)
    BY <1>11 DEF RecordCall, Receive, Oldest
  <2>2. Head(inbox) \in Call /\ inbox' \in Seq(Message)
    BY <2>1, InboxFacts, MessageFacts
  <2>3. Head(inbox).serial \in Nat
    BY <2>2 DEF Call
  <2>4. Call' = Call /\ Message' = Message
    BY <1>11, SameMessages DEF RecordCall, config
  <2>5. DOMAIN methodCalls' \subseteq Nat /\ \A s \in DOMAIN methodCalls' : methodCalls'[s] \in Call
    BY <1>0, <1>11, <2>2, <2>3 DEF RecordCall, MapInsert, BusOK
  <2>6. BusOK' /\ RegistryOK' /\ RestOK'
    BY <1>0, <1>11, <2>2, <2>4, <2>5
    DEF RecordCall, Receive, BusOK, RegistryOK, RestOK, registryVars, config, clientVars
  <2>. QED
    BY <1>b, <2>6
<1>12. ASSUME HandleReturn
       PROVE  TypeOK'
  <2>. DEFINE r == Head(inbox)
              m == methodCalls[r.serial]
  <2>1. inbox # <<>> /\ r.what = "return" /\ r.serial \in DOMAIN methodCalls
    BY <1>12 DEF HandleReturn, Oldest
  <2>2. r \in Return /\ m \in Call
    BY <1>0, <2>1, InboxFacts, MessageFacts DEF BusOK
  <2>3. Call' = Call /\ Message' = Message
    BY <1>12, SameMessages DEF HandleReturn, config
  <2>4. CASE m.what = "Inhibit" /\ r.cookie = Nothing
    <3>1. Handled(FALSE) /\ lastCookie' = NextCookie /\ UNCHANGED <<registryVars, methodCalls>>
      BY <1>12, <2>4 DEF HandleReturn
    <3>2. inbox' \in Seq(Message) /\ missed' \subseteq Clients /\ lastCookie' \in Cookies
      BY <1>0, <2>1, <3>1, HandledType, NextCookieFacts DEF RegistryOK
    <3>3. BusOK' /\ RegistryOK' /\ RestOK'
      BY <1>0, <1>12, <2>3, <3>1, <3>2
      DEF HandleReturn, BusOK, RegistryOK, RestOK, registryVars, config, clientVars
    <3>. QED
      BY <1>b, <3>3
  <2>5. CASE ~(m.what = "Inhibit" /\ r.cookie = Nothing)
    <3>1. PICK thrown \in {FALSE, HubThrows} :
            /\ Dispatch(m, r.cookie, thrown) /\ Handled(thrown)
            /\ methodCalls' = IF thrown THEN methodCalls ELSE MapErase(methodCalls, r.serial)
      BY <1>12, <2>5 DEF HandleReturn
    <3>2. thrown \in BOOLEAN
      BY ModesAssumption
    <3>3. RegistryOK'
      <4>1. PICK k \in Cookies : Dispatch(m, k, thrown)
        <5>1. CASE m.what = "Inhibit"
          BY <2>2, <2>5, <3>1, <5>1 DEF Return
        <5>2. CASE m.what # "Inhibit"
          BY <1>a, <3>1, <5>2 DEF Dispatch
        <5>. QED
          BY <5>1, <5>2
      <4>. QED
        BY <1>0, <2>2, <3>2, <4>1, DispatchType DEF RestOK
    <3>4. inbox' \in Seq(Message) /\ missed' \subseteq Clients
      BY <2>1, <3>1, <3>2, HandledType
    <3>5. DOMAIN methodCalls' \subseteq Nat /\ \A s \in DOMAIN methodCalls' : methodCalls'[s] \in Call
      BY <1>0, <3>1 DEF MapErase, BusOK
    <3>6. BusOK' /\ RestOK'
      BY <1>0, <1>12, <2>3, <3>4, <3>5 DEF HandleReturn, BusOK, RestOK, config, clientVars
    <3>. QED
      BY <1>b, <3>3, <3>6
  <2>. QED
    BY <2>4, <2>5
<1>13. ASSUME IgnoreReturn
       PROVE  TypeOK'
  <2>1. inbox' \in Seq(Message) /\ Call' = Call /\ Message' = Message
    BY <1>13, InboxFacts, SameMessages DEF IgnoreReturn, Receive, Oldest, config
  <2>2. BusOK' /\ RegistryOK' /\ RestOK'
    BY <1>0, <1>13, <2>1
    DEF IgnoreReturn, Receive, BusOK, RegistryOK, RestOK, registryVars, config, clientVars
  <2>. QED
    BY <1>b, <2>2
<1>14. ASSUME HandleNameLost
       PROVE  TypeOK'
  <2>. DEFINE c == Head(inbox).from
  <2>1. inbox # <<>> /\ Head(inbox).what = "gone" /\ inbox' = Tail(inbox)
    BY <1>14 DEF HandleNameLost, Receive, Oldest
  <2>2. c \in Clients /\ inbox' \in Seq(Message)
    BY <2>1, InboxFacts, MessageFacts DEF NameLost
  <2>3. /\ active' = [id \in DOMAIN active \ ReleasedWith(c) |-> active[id]]
        /\ owners' = MapPut(owners, c, <<>>) /\ gone' = gone \cup {c}
    BY <1>14 DEF HandleNameLost
  <2>4. Call' = Call /\ Message' = Message
    BY <1>14, SameMessages DEF HandleNameLost, config
  <2>5. <<>> \in Lists
    BY EmptySeq DEF Lists
  <2>. HIDE DEF c
  <2>6. RegistryOK'
    BY <1>0, <1>14, <2>2, <2>3, <2>5 DEF HandleNameLost, RegistryOK, MapPut
  <2>7. BusOK' /\ RestOK'
    BY <1>0, <1>14, <2>2, <2>3, <2>4 DEF HandleNameLost, Receive, BusOK, RestOK, config, clientVars
  <2>. QED
    BY <1>b, <2>6, <2>7
<1>15. ASSUME Poll
       PROVE  TypeOK'
  <2>. DEFINE old == {id \in DOMAIN active : Expired(id)}
              from == {id.sender : id \in old}
  <2>1. /\ active' = [id \in DOMAIN active \ old |-> active[id]]
        /\ owners' = [c \in DOMAIN owners \cup from |-> IF c \in from THEN <<>> ELSE owners[c]]
        /\ disowned' = (disowned \cup {id \in DOMAIN active : id.sender \in from}) \ old
    BY <1>15 DEF Poll
  <2>2. from \subseteq Clients /\ <<>> \in Lists
    BY <1>0, EmptySeq DEF RegistryOK, Id, Lists
  <2>. HIDE DEF old, from
  <2>3. RegistryOK'
    BY <1>0, <1>15, <2>1, <2>2 DEF Poll, RegistryOK
  <2>4. Call' = Call /\ Message' = Message
    BY <1>15, SameMessages DEF Poll, config
  <2>5. BusOK' /\ RestOK'
    BY <1>0, <1>15, <2>4 DEF Poll, BusOK, RestOK, config, clientVars, busVars
  <2>. QED
    BY <1>b, <2>3, <2>5
<1>16. ASSUME UNCHANGED vars
       PROVE  TypeOK'
  BY <1>16 DEF vars, TypeOK, Call, Members, Simulates
<1>. QED
  BY <1>1, <1>2, <1>3, <1>4, <1>5, <1>6, <1>7, <1>8, <1>9, <1>10, <1>11, <1>12, <1>13,
     <1>14, <1>15, <1>16 DEF Next, Environment, Loop

\* Every client, message, cookie, id and owner the daemon deals with is one, and
\* the counters stay within 32 bits, whatever arrives in whatever order.
THEOREM TypeCorrect == Spec => []TypeOK
<1>. QED
  BY TypeInit, TypeStep, PTL DEF Spec

----------------------------------------------------------------------------
(* Whose inhibits are released with its connection                         *)

\* The two go together: what is released when a name is lost is what is listed,
\* and what is dispatched after that is not listed under a client that is there.
OwnInv == OwnersComplete /\ DeadReleased

LEMMA DispatchOwners ==
    ASSUME RegistryOK, OwnInv, NEW m \in Call, NEW k \in Cookies, NEW thrown \in BOOLEAN,
           Dispatch(m, k, thrown), gone' = gone
    PROVE  OwnInv'
<1>. USE DEF RegistryOK, OwnInv
<1>1. m.from \in Clients /\ m.cookie \in Cookies
  BY DEF Call
<1>2. CASE OnInhibit(m, k, thrown)
  <2>. DEFINE id == [sender |-> m.from, cookie |-> k]
  <2>1. id \in Id /\ id.sender = m.from
    BY <1>1 DEF Id
  <2>2. /\ active' = MapInsert(active, id, now)
        /\ disowned' = IF thrown \/ id.sender \in gone THEN disowned \cup {id} ELSE disowned \ {id}
        /\ owners' = IF thrown THEN owners ELSE MapPush(owners, id.sender, id)
    BY <1>2 DEF OnInhibit, Register
  <2>. HIDE DEF id
  <2>3. DOMAIN active' = DOMAIN active \cup {id}
    BY <2>2 DEF MapInsert
  <2>4. ~thrown => OwnersOf(id.sender)' = Append(OwnersOf(id.sender), id)
    BY <2>2 DEF MapPush, OwnersOf
  <2>5. ~thrown => ToSet(OwnersOf(id.sender))' = ToSet(OwnersOf(id.sender)) \cup {id}
    <3>1. OwnersOf(id.sender) \in Seq(Id \cup {EmptyId}) /\ id \in Id \cup {EmptyId}
      BY <2>1, OwnersOfType DEF Lists
    <3>. QED
      BY <2>4, <3>1, ToSetFacts
  <2>6. \A c : thrown \/ c # id.sender => OwnersOf(c)' = OwnersOf(c)
    BY <2>2 DEF MapPush, OwnersOf
  <2>7. ASSUME NEW i \in DOMAIN active', i \notin disowned'
        PROVE  i \in ToSet(OwnersOf(i.sender))'
    <3>1. CASE i = id
      BY <2>2, <2>5, <2>7, <3>1
    <3>2. CASE i # id
      <4>1. i \in ToSet(OwnersOf(i.sender))
        BY <2>2, <2>3, <2>7, <3>2 DEF OwnersComplete
      <4>. QED
        BY <2>5, <2>6, <4>1
    <3>. QED
      BY <3>1, <3>2
  <2>8. DeadReleased'
    BY <2>2, <2>3 DEF DeadReleased, ActiveOf
  <2>. QED
    BY <2>7, <2>8 DEF OwnersComplete
<1>3. CASE OnUnInhibit(m)
  <2>. DEFINE id == [sender |-> m.from, cookie |-> m.cookie]
  <2>1. id.sender = m.from
    OBVIOUS
  <2>2. /\ active' = MapErase(active, id) /\ disowned' = disowned \ {id}
        /\ owners' = MapPut(owners, id.sender, RemoveIf(OwnersOf(id.sender), id))
    BY <1>3 DEF OnUnInhibit
  <2>. HIDE DEF id
  <2>3. DOMAIN active' = DOMAIN active \ {id}
    BY <2>2 DEF MapErase
  <2>4. /\ OwnersOf(id.sender)' = RemoveIf(OwnersOf(id.sender), id)
        /\ \A c : c # id.sender => OwnersOf(c)' = OwnersOf(c)
    BY <2>2 DEF MapPut, OwnersOf
  <2>5. \A i \in ToSet(OwnersOf(id.sender)) : i # id => i \in ToSet(OwnersOf(id.sender))'
    <3>1. OwnersOf(id.sender) \in Seq(Id \cup {EmptyId})
      BY OwnersOfType DEF Lists
    <3>. QED
      BY <2>4, <3>1, RemoveIfFacts
  <2>6. ASSUME NEW i \in DOMAIN active', i \notin disowned'
        PROVE  i \in ToSet(OwnersOf(i.sender))'
    <3>1. i \in ToSet(OwnersOf(i.sender)) /\ i # id
      BY <2>2, <2>3, <2>6 DEF OwnersComplete
    <3>. QED
      BY <2>4, <2>5, <3>1
  <2>7. DeadReleased'
    BY <2>2, <2>3 DEF DeadReleased, ActiveOf
  <2>. QED
    BY <2>6, <2>7 DEF OwnersComplete
<1>4. CASE OnSimActivity(m, thrown)
  <2>. DEFINE id == ActivityId(m.from)
              lost == {i \in DOMAIN active : i.sender = id.sender}
  <2>1. id.sender = m.from
    BY DEF ActivityId
  <2>2. /\ active' = MapInsert(active, id, now)
        /\ owners' = MapPut(owners, id.sender, IF thrown THEN <<>> ELSE <<id>>)
        /\ disowned' = IF thrown \/ id.sender \in gone THEN disowned \cup lost \cup {id}
                       ELSE (disowned \cup lost) \ {id}
    BY <1>4, <2>1 DEF OnSimActivity
  <2>. HIDE DEF id
  <2>3. DOMAIN active' = DOMAIN active \cup {id}
    BY <2>2 DEF MapInsert
  <2>4. /\ ~thrown => OwnersOf(id.sender)' = <<id>>
        /\ \A c : c # id.sender => OwnersOf(c)' = OwnersOf(c)
    BY <2>2 DEF MapPut, OwnersOf
  <2>5. ~thrown => id \in ToSet(OwnersOf(id.sender))'
    BY <2>4 DEF ToSet
  <2>6. ASSUME NEW i \in DOMAIN active', i \notin disowned'
        PROVE  i \in ToSet(OwnersOf(i.sender))'
    <3>1. CASE i = id
      BY <2>2, <2>5, <2>6, <3>1
    <3>2. CASE i # id
      <4>1. i.sender # id.sender /\ i \in DOMAIN active /\ i \notin disowned
        BY <2>2, <2>3, <2>6, <3>2
      <4>. QED
        BY <2>4, <4>1 DEF OwnersComplete
    <3>. QED
      BY <3>1, <3>2
  <2>7. DeadReleased'
    BY <2>2, <2>3 DEF DeadReleased, ActiveOf
  <2>. QED
    BY <2>6, <2>7 DEF OwnersComplete
<1>. QED
  BY <1>2, <1>3, <1>4 DEF Dispatch

LEMMA SameOwners ==
    ASSUME OwnInv, UNCHANGED <<registryVars, gone>>
    PROVE  OwnInv'
BY DEF OwnInv, OwnersComplete, DeadReleased, ActiveOf, OwnersOf, ToSet, registryVars

LEMMA OwnInit == Init => OwnInv
BY DEF Init, OwnInv, OwnersComplete, DeadReleased, EmptyMap

LEMMA OwnStep == TypeOK /\ OwnInv /\ [Next]_vars => OwnInv'
<1>. SUFFICES ASSUME TypeOK, OwnInv, [Next]_vars PROVE OwnInv'
  OBVIOUS
<1>0. RegistryOK /\ BusOK /\ RestOK
  BY TypeParts
<1>1. ASSUME Environment
      PROVE  OwnInv'
  BY <1>1, SameOwners
  DEF Environment, ClientInhibit, ClientUnInhibit, ClientSimulate, ClientGone, Send,
      ServiceAnswer, ServiceError, NameComes, StrayReturn, Tick, daemonVars, registryVars
<1>2. ASSUME HandleCall
      PROVE  OwnInv'
  <2>1. PICK thrown \in {FALSE, HubThrows} : Dispatch(Head(inbox), NextCookie, thrown)
    BY <1>2 DEF HandleCall
  <2>2. thrown \in BOOLEAN /\ gone' = gone
    BY <1>2, ModesAssumption DEF HandleCall
  <2>3. Head(inbox) \in Call /\ NextCookie \in Cookies
    BY <1>0, <1>2, InboxFacts, MessageFacts, NextCookieFacts DEF HandleCall, Oldest, RegistryOK
  <2>. QED
    BY <1>0, <2>1, <2>2, <2>3, DispatchOwners
<1>3. ASSUME HandleReturn
      PROVE  OwnInv'
  <2>. DEFINE r == Head(inbox)
              m == methodCalls[r.serial]
  <2>1. r \in Return /\ m \in Call /\ gone' = gone
    <3>1. r \in Message
      BY <1>3, InboxFacts DEF HandleReturn, Oldest
    <3>. QED
      BY <1>0, <1>3, <3>1, MessageFacts DEF HandleReturn, Oldest, BusOK
  <2>2. CASE m.what = "Inhibit" /\ r.cookie = Nothing
    BY <1>3, <2>1, <2>2, SameOwners DEF HandleReturn
  <2>3. CASE ~(m.what = "Inhibit" /\ r.cookie = Nothing)
    <3>1. PICK thrown \in {FALSE, HubThrows} : Dispatch(m, r.cookie, thrown)
      BY <1>3, <2>3 DEF HandleReturn
    <3>2. thrown \in BOOLEAN
      BY ModesAssumption
    <3>3. PICK k \in Cookies : Dispatch(m, k, thrown)
      <4>1. CASE m.what = "Inhibit"
        BY <2>1, <2>3, <3>1, <4>1 DEF Return
      <4>2. CASE m.what # "Inhibit"
        BY <1>0, <3>1, <4>2 DEF Dispatch, RegistryOK
      <4>. QED
        BY <4>1, <4>2
    <3>. QED
      BY <1>0, <2>1, <3>2, <3>3, DispatchOwners
  <2>. QED
    BY <2>2, <2>3
<1>4. ASSUME RecordCall \/ IgnoreReturn
      PROVE  OwnInv'
  BY <1>4, SameOwners DEF RecordCall, IgnoreReturn
<1>5. ASSUME HandleNameLost
      PROVE  OwnInv'
  <2>. DEFINE c == Head(inbox).from
  <2>1. /\ active' = [id \in DOMAIN active \ ReleasedWith(c) |-> active[id]]
        /\ owners' = MapPut(owners, c, <<>>) /\ gone' = gone \cup {c}
        /\ disowned' = disowned
    BY <1>5 DEF HandleNameLost
  <2>. HIDE DEF c
  <2>2. \A i \in DOMAIN active' : i.sender = c => i \in disowned
    BY <2>1 DEF ReleasedWith, OwnInv, OwnersComplete
  <2>3. \A d : d # c => OwnersOf(d)' = OwnersOf(d)
    BY <2>1 DEF MapPut, OwnersOf
  <2>4. OwnersComplete'
    BY <2>1, <2>2, <2>3 DEF OwnInv, OwnersComplete, ActiveOf
  <2>5. DeadReleased'
    BY <2>1, <2>2 DEF OwnInv, DeadReleased, ActiveOf
  <2>. QED
    BY <2>4, <2>5 DEF OwnInv
<1>6. ASSUME Poll
      PROVE  OwnInv'
  <2>. DEFINE old == {id \in DOMAIN active : Expired(id)}
              from == {id.sender : id \in old}
  <2>1. /\ active' = [id \in DOMAIN active \ old |-> active[id]]
        /\ owners' = [c \in DOMAIN owners \cup from |-> IF c \in from THEN <<>> ELSE owners[c]]
        /\ disowned' = (disowned \cup {id \in DOMAIN active : id.sender \in from}) \ old
        /\ gone' = gone
    BY <1>6 DEF Poll
  <2>. HIDE DEF old, from
  <2>2. \A c : c \notin from => OwnersOf(c)' = OwnersOf(c)
    BY <2>1 DEF OwnersOf
  <2>3. OwnersComplete'
    BY <2>1, <2>2 DEF OwnInv, OwnersComplete
  <2>4. DeadReleased'
    BY <2>1 DEF OwnInv, DeadReleased, ActiveOf
  <2>. QED
    BY <2>3, <2>4 DEF OwnInv
<1>7. ASSUME UNCHANGED vars
      PROVE  OwnInv'
  BY <1>7, SameOwners DEF vars, registryVars
<1>. QED
  BY <1>1, <1>2, <1>3, <1>4, <1>5, <1>6, <1>7 DEF Next, Loop

\* inhibitOwners lists every active inhibit but those it is known to lose.
THEOREM OwnersListed == Spec => []OwnersComplete
<1>1. OwnInv => OwnersComplete
  BY DEF OwnInv
<1>. QED
  BY <1>1, TypeInit, TypeStep, OwnInit, OwnStep, PTL DEF Spec

\* When the loss of a client's name was dispatched, no inhibit of it is left but
\* those; not even what is dispatched afterwards stays unnoticed.
THEOREM LostAreReleased == Spec => []DeadReleased
<1>1. OwnInv => DeadReleased
  BY DEF OwnInv
<1>. QED
  BY <1>1, TypeInit, TypeStep, OwnInit, OwnStep, PTL DEF Spec

----------------------------------------------------------------------------
(* How long an inhibit lasts                                               *)

\* Before the bus brings anything, there is nothing; and no call is kept when we
\* are the ones to answer it.
Unreached ==
    /\ link = NONE => inbox = <<>>
    /\ link = NONE \/ ~monitor => DOMAIN methodCalls = {}

\* Releases that are on their way to the handler.
Releasing ==
    {m \in ToSet(inbox) \cup {methodCalls[s] : s \in DOMAIN methodCalls} : m.what = "UnInhibit"}

\* What is to be released was given back, and was not given out again.
ReleaseIsDue == \A m \in Releasing : m.cookie \notin holds[m.from]

\* The owner of the name, when it is not us, gives out cookies in order.
ServiceAhead ==
    ~OwnsName =>
        /\ \A c \in Clients : \A k \in holds[c] : k <= svcCookie
        /\ \A m \in Releasing : m.cookie <= svcCookie

\* Who is gone holds nothing, and who is reported gone is gone.
GoneHoldNothing ==
    /\ \A c \in Clients \ alive : holds[c] = {}
    /\ \A m \in ToSet(inbox) : m.what = "gone" => m.from \notin alive

\* A client is listed as the owner of its own inhibits only.
OwnersApart ==
    \A c \in DOMAIN owners : \A id \in ToSet(owners[c]) : id.sender = c \/ id = EmptyId

\* Nobody holds the cookie of simulated activity.
ZeroIsFree == Simulates => \A c \in Clients : 0 \notin holds[c]

\* Inhibits that wait for their cookie, and the n-th cookie from now.
Waiting == {n \in DOMAIN inbox : inbox[n].what = "Inhibit"}
CookieAt(n) ==
    IF lastCookie + n < Modulus THEN lastCookie + n
    ELSE lastCookie + n - Modulus + (IF face = SESSION THEN 0 ELSE 1)

\* The cookies we are about to give are neither held nor about to be given back.
CookiesAhead ==
    OwnsName =>
        /\ Cardinality(Waiting) < Modulus
        /\ \A n \in 1..Cardinality(Waiting) :
            /\ \A c \in Clients : CookieAt(n) \notin holds[c]
            /\ \A m \in Releasing : m.cookie # CookieAt(n)

LastInv ==
    /\ Unreached /\ ReleaseIsDue /\ ServiceAhead /\ GoneHoldNothing /\ OwnersApart
    /\ ZeroIsFree /\ CookiesAhead

LEMMA NextIsFirst ==
    ASSUME lastCookie \in Cookies
    PROVE  NextCookie = CookieAt(1)
<1>1. Modulus \in Nat /\ Modulus > 1 /\ lastCookie \in 0..Modulus - 1
  BY BoundsAssumption DEF Cookies
<1>2. lastCookie + 1 < Modulus => (lastCookie + 1) % Modulus = lastCookie + 1
  BY <1>1
<1>3. lastCookie + 1 = Modulus => (lastCookie + 1) % Modulus = 0
  BY <1>1
<1>. QED
  BY <1>1, <1>2, <1>3 DEF NextCookie, CookieAt

LEMMA CookieShift ==
    ASSUME lastCookie \in Cookies, lastCookie' = NextCookie, face' = face,
           NEW n \in Nat \ {0}, n + 1 < Modulus
    PROVE  CookieAt(n)' = CookieAt(n + 1) /\ CookieAt(n + 1) # NextCookie
<1>1. Modulus \in Nat /\ Modulus > 1 /\ lastCookie \in 0..Modulus - 1
  BY BoundsAssumption DEF Cookies
<1>2. lastCookie' = CookieAt(1)
  BY NextIsFirst
<1>3. CookieAt(n)' = CookieAt(n + 1)
  BY <1>1, <1>2 DEF CookieAt
<1>4. CookieAt(n + 1) # CookieAt(1)
  BY <1>1 DEF CookieAt
<1>. QED
  BY <1>3, <1>4, NextIsFirst

\* Waiting of any sequence of messages.
InhibitsIn(s) == {n \in DOMAIN s : s[n].what = "Inhibit"}

LEMMA InhibitsInFinite ==
    ASSUME NEW s \in Seq(Message)
    PROVE  IsFiniteSet(InhibitsIn(s)) /\ Cardinality(InhibitsIn(s)) \in Nat
<1>1. InhibitsIn(s) \subseteq 1..Len(s) /\ Len(s) \in Nat
  BY LenProperties DEF InhibitsIn
<1>2. IsFiniteSet(1..Len(s))
  BY <1>1, FS_Interval
<1>3. IsFiniteSet(InhibitsIn(s))
  BY <1>1, <1>2, FS_Subset
<1>. QED
  BY <1>3, FS_CardinalityType

LEMMA InhibitsInAppend ==
    ASSUME NEW s \in Seq(Message), NEW m \in Message
    PROVE  Cardinality(InhibitsIn(Append(s, m))) =
                Cardinality(InhibitsIn(s)) + IF m.what = "Inhibit" THEN 1 ELSE 0
<1>1. DOMAIN Append(s, m) = 1..Len(s) + 1 /\ DOMAIN s = 1..Len(s) /\ Len(s) \in Nat
  BY LenProperties
<1>2. \A n \in 1..Len(s) + 1 : Append(s, m)[n] = IF n = Len(s) + 1 THEN m ELSE s[n]
  BY <1>1
<1>3. CASE m.what = "Inhibit"
  <2>1. InhibitsIn(Append(s, m)) = InhibitsIn(s) \cup {Len(s) + 1} /\ Len(s) + 1 \notin InhibitsIn(s)
    BY <1>1, <1>2, <1>3 DEF InhibitsIn
  <2>. QED
    BY <1>3, <2>1, InhibitsInFinite, FS_AddElement
<1>4. CASE m.what # "Inhibit"
  <2>1. InhibitsIn(Append(s, m)) = InhibitsIn(s)
    BY <1>1, <1>2, <1>4 DEF InhibitsIn
  <2>. QED
    BY <1>4, <2>1, InhibitsInFinite
<1>. QED
  BY <1>3, <1>4

LEMMA InhibitsInTail ==
    ASSUME NEW s \in Seq(Message), s # <<>>
    PROVE  Cardinality(InhibitsIn(Tail(s))) <=
                Cardinality(InhibitsIn(s)) - IF Head(s).what = "Inhibit" THEN 1 ELSE 0
<1>. DEFINE rest == InhibitsIn(s) \ {1}
            f == [n \in InhibitsIn(Tail(s)) |-> n + 1]
<1>1. Len(s) \in Nat \ {0} /\ DOMAIN s = 1..Len(s) /\ Head(s) = s[1]
  BY EmptySeq, LenProperties
<1>2. /\ Tail(s) \in Seq(Message) /\ Len(Tail(s)) = Len(s) - 1
      /\ \A n \in 1..Len(Tail(s)) : Tail(s)[n] = s[n + 1]
  BY HeadTailProperties
<1>3. DOMAIN Tail(s) = 1..Len(s) - 1
  BY <1>2, LenProperties
<1>4. f \in Injection(InhibitsIn(Tail(s)), rest)
  <2>1. f \in [InhibitsIn(Tail(s)) -> rest]
    BY <1>1, <1>2, <1>3 DEF InhibitsIn
  <2>2. \A a, b \in InhibitsIn(Tail(s)) : f[a] = f[b] => a = b
    BY <1>3 DEF InhibitsIn
  <2>. QED
    BY <2>1, <2>2 DEF Injection, IsInjective
<1>. HIDE DEF f
<1>5. /\ IsFiniteSet(rest)
      /\ Cardinality(rest) = IF 1 \in InhibitsIn(s) THEN Cardinality(InhibitsIn(s)) - 1
                             ELSE Cardinality(InhibitsIn(s))
  BY InhibitsInFinite, FS_RemoveElement
<1>6. 1 \in InhibitsIn(s) <=> Head(s).what = "Inhibit"
  BY <1>1 DEF InhibitsIn
<1>7. Cardinality(InhibitsIn(Tail(s))) <= Cardinality(rest)
  BY <1>4, <1>5, FS_Injection
<1>. QED
  BY <1>2, <1>5, <1>6, <1>7, InhibitsInFinite

LEMMA HandledInbox ==
    ASSUME TypeOK, inbox # <<>>, NEW thrown, Handled(thrown)
    PROVE  /\ ToSet(inbox') \subseteq ToSet(inbox)
           /\ Cardinality(InhibitsIn(inbox')) <= Cardinality(InhibitsIn(inbox))
           /\ Head(inbox).what = "Inhibit" =>
                    Cardinality(InhibitsIn(inbox')) <= Cardinality(InhibitsIn(inbox)) - 1
<1>0. inbox \in Seq(Message)
  BY DEF TypeOK, Message
<1>1. /\ Tail(inbox) \in Seq(Message) /\ Head(inbox) \in ToSet(inbox)
      /\ ToSet(Tail(inbox)) \subseteq ToSet(inbox)
      /\ Cardinality(InhibitsIn(Tail(inbox))) <=
            Cardinality(InhibitsIn(inbox)) - IF Head(inbox).what = "Inhibit" THEN 1 ELSE 0
      /\ Cardinality(InhibitsIn(inbox)) \in Nat
      /\ Cardinality(InhibitsIn(Tail(inbox))) \in Nat
  BY <1>0, InhibitsInTail, InhibitsInFinite, InboxFacts, ToSetFacts
<1>2. CASE inbox' = Tail(inbox)
  BY <1>1, <1>2
<1>3. CASE Len(inbox) > 1 /\ inbox' = Tail(Tail(inbox))
  <2>1. Tail(inbox) # <<>>
    <3>1. Len(Tail(inbox)) = Len(inbox) - 1 /\ Len(inbox) \in Nat
      BY <1>0, HeadTailProperties, LenProperties
    <3>2. Len(Tail(inbox)) # 0
      BY <1>3, <3>1
    <3>. QED
      BY <3>2, EmptySeq
  <2>2. /\ Tail(Tail(inbox)) \in Seq(Message)
        /\ ToSet(Tail(Tail(inbox))) \subseteq ToSet(Tail(inbox))
        /\ Cardinality(InhibitsIn(Tail(Tail(inbox)))) \in Nat
        /\ Cardinality(InhibitsIn(Tail(Tail(inbox)))) <=
            Cardinality(InhibitsIn(Tail(inbox))) - IF Head(Tail(inbox)).what = "Inhibit" THEN 1 ELSE 0
    BY <1>1, <2>1, InhibitsInTail, InhibitsInFinite, HeadTailProperties, ToSetFacts
  <2>3. Cardinality(InhibitsIn(inbox')) <= Cardinality(InhibitsIn(Tail(inbox)))
    BY <1>1, <1>3, <2>2
  <2>. QED
    BY <1>1, <1>3, <2>2, <2>3
<1>. QED
  BY <1>2, <1>3 DEF Handled

\* The steps of the daemon that give out no cookie.
LEMMA LastKept ==
    ASSUME LastInv, TypeOK, OwnersApart', UNCHANGED <<config, alive, holds, svcCookie>>,
           Releasing' \subseteq Releasing, ToSet(inbox') \subseteq ToSet(inbox),
           inbox = <<>> => inbox' = <<>>,
           link = NONE \/ ~monitor => DOMAIN methodCalls' = {},
           OwnsName => /\ lastCookie' = lastCookie
                       /\ Cardinality(Waiting') <= Cardinality(Waiting),
           inbox' \in Seq(Message)
    PROVE  LastInv'
<1>. USE DEF LastInv
<1>1. OwnsName' = OwnsName /\ Simulates' = Simulates
  BY DEF OwnsName, Simulates, config
<1>2. Unreached'
  BY DEF Unreached, config
<1>3. ReleaseIsDue'
  BY DEF ReleaseIsDue
<1>4. ServiceAhead'
  BY <1>1 DEF ServiceAhead
<1>5. GoneHoldNothing'
  BY DEF GoneHoldNothing
<1>6. ZeroIsFree'
  BY <1>1 DEF ZeroIsFree
<1>7. CookiesAhead'
  <2>1. CASE OwnsName
    <3>1. inbox \in Seq(Message) /\ Modulus \in Nat
      BY BoundsAssumption DEF TypeOK, Message
    <3>2. Cardinality(Waiting) \in Nat /\ Cardinality(Waiting') \in Nat
      BY <3>1, InhibitsInFinite DEF Waiting, InhibitsIn
    <3>3. \A n : CookieAt(n)' = CookieAt(n)
      BY <2>1 DEF CookieAt, config
    <3>. QED
      BY <2>1, <3>1, <3>2, <3>3 DEF CookiesAhead
  <2>2. CASE ~OwnsName
    BY <1>1, <2>2 DEF CookiesAhead
  <2>. QED
    BY <2>1, <2>2
<1>. QED
  BY <1>2, <1>3, <1>4, <1>5, <1>6, <1>7

LEMMA DispatchSenders ==
    ASSUME RegistryOK, OwnersApart, NEW m \in Call, NEW k, NEW thrown \in BOOLEAN,
           Dispatch(m, k, thrown)
    PROVE  OwnersApart'
<1>. USE DEF OwnersApart
<1>0. \A c : OwnersOf(c) \in Seq(Id \cup {EmptyId}) /\ \A e \in ToSet(OwnersOf(c)) : e.sender = c \/ e = EmptyId
  BY OwnersOfType DEF OwnersOf, ToSet, Lists
<1>1. CASE OnInhibit(m, k, thrown)
  <2>. DEFINE id == [sender |-> m.from, cookie |-> k]
  <2>1. owners' = owners \/ owners' = MapPush(owners, m.from, id)
    BY <1>1 DEF OnInhibit
  <2>2. ASSUME owners' = MapPush(owners, m.from, id)
        PROVE  OwnersApart'
    <3>1. /\ DOMAIN owners' = DOMAIN owners \cup {m.from}
          /\ owners'[m.from] = Append(OwnersOf(m.from), id)
          /\ \A c \in DOMAIN owners' \ {m.from} : owners'[c] = owners[c]
      BY <2>2 DEF MapPush, OwnersOf
    <3>2. ToSet(Append(OwnersOf(m.from), id)) = ToSet(OwnersOf(m.from)) \cup {id}
      <4>. DEFINE S == Id \cup {EmptyId} \cup {id}
      <4>1. OwnersOf(m.from) \in Seq(S)
        BY <1>0, SeqMonotonic
      <4>. QED
        BY <4>1, ToSetFacts
    <3>3. id.sender = m.from
      OBVIOUS
    <3>. HIDE DEF id
    <3>4. ASSUME NEW c \in DOMAIN owners', NEW e \in ToSet(owners'[c])
          PROVE  e.sender = c \/ e = EmptyId
      <4>1. CASE c = m.from
        BY <1>0, <3>1, <3>2, <3>3, <4>1
      <4>2. CASE c # m.from
        BY <3>1, <4>2
      <4>. QED
        BY <4>1, <4>2
    <3>. QED
      BY <3>4
  <2>. QED
    BY <2>1, <2>2
<1>2. CASE OnUnInhibit(m)
  <2>. DEFINE ids == RemoveIf(OwnersOf(m.from), [sender |-> m.from, cookie |-> m.cookie])
  <2>1. owners' = MapPut(owners, m.from, ids)
    BY <1>2 DEF OnUnInhibit
  <2>2. ToSet(ids) \subseteq ToSet(OwnersOf(m.from)) \cup {EmptyId}
    BY <1>0, RemoveIfFacts
  <2>. HIDE DEF ids
  <2>. QED
    BY <1>0, <2>1, <2>2 DEF MapPut
<1>3. CASE OnSimActivity(m, thrown)
  <2>. DEFINE ids == IF thrown THEN <<>> ELSE <<ActivityId(m.from)>>
  <2>1. owners' = MapPut(owners, m.from, ids)
    BY <1>3 DEF OnSimActivity
  <2>2. \A e \in ToSet(ids) : e.sender = m.from
    BY DEF ToSet, ActivityId
  <2>. HIDE DEF ids
  <2>. QED
    BY <2>1, <2>2 DEF MapPut
<1>. QED
  BY <1>1, <1>2, <1>3 DEF Dispatch

LEMMA LastInit == Init => LastInv
<1>. SUFFICES ASSUME Init PROVE LastInv
  OBVIOUS
<1>1. ToSet(inbox) = {} /\ Releasing = {} /\ DOMAIN methodCalls = {} /\ Waiting = {}
  BY DEF Init, ToSet, Releasing, EmptyMap, Waiting
<1>2. Cardinality(Waiting) = 0 /\ 0 < Modulus /\ 1..0 = {}
  BY <1>1, FS_EmptySet, BoundsAssumption
<1>3. DOMAIN owners = {} /\ \A c \in Clients : holds[c] = {}
  BY DEF Init, EmptyMap
<1>4. alive = Clients /\ inbox = <<>>
  BY DEF Init
<1>. QED
  BY <1>1, <1>2, <1>3, <1>4
  DEF LastInv, Unreached, ReleaseIsDue, ServiceAhead, GoneHoldNothing, OwnersApart,
      ZeroIsFree, CookiesAhead

\* The releases on their way when the bus brings one message more.
LEMMA ReleasingAppend ==
    ASSUME TypeOK, NEW m \in Message, inbox' \in {inbox, Append(inbox, m)},
           methodCalls' = methodCalls
    PROVE  /\ ToSet(inbox') \subseteq ToSet(inbox) \cup {m}
           /\ \A r \in Releasing' : r \in Releasing \/ (r = m /\ m.what = "UnInhibit")
<1>1. inbox \in Seq(Message)
  BY DEF TypeOK, Message
<1>2. ToSet(inbox') \subseteq ToSet(inbox) \cup {m}
  BY <1>1, ToSetFacts
<1>. QED
  BY <1>2 DEF Releasing

LEMMA ClientStep ==
    ASSUME LastInv, TypeOK, TypeOK', NEW c \in Clients,
           ClientInhibit(c) \/ ClientUnInhibit(c) \/ ClientSimulate(c)
    PROVE  LastInv'
<1>. USE DEF LastInv
<1>0. PICK what \in {"Inhibit", "UnInhibit", "SimulateUserActivity"}, k \in Cookies :
        /\ Send(c, what, k)
        /\ \/ what = "Inhibit" /\ (OwnsName => NoReissue) /\ UNCHANGED holds
           \/ /\ what = "UnInhibit" /\ (\E d \in Clients : k \in holds[d])
              /\ holds' = [holds EXCEPT ![c] = @ \ {k}]
           \/ what = "SimulateUserActivity" /\ UNCHANGED holds
  <2>1. 0 \in Cookies /\ \A d \in Clients : holds[d] \subseteq Cookies
    BY BoundsAssumption DEF Cookies, TypeOK
  <2>2. CASE ClientInhibit(c)
    <3>1. Send(c, "Inhibit", 0) /\ (OwnsName => NoReissue) /\ UNCHANGED holds
      BY <2>2 DEF ClientInhibit
    <3>. QED
      BY <2>1, <3>1
  <2>3. CASE ClientUnInhibit(c)
    <3>1. PICK k \in UNION {holds[d] : d \in Clients} :
            Send(c, "UnInhibit", k) /\ holds' = [holds EXCEPT ![c] = @ \ {k}]
      BY <2>3 DEF ClientUnInhibit
    <3>2. k \in Cookies /\ \E d \in Clients : k \in holds[d]
      BY <2>1
    <3>. QED
      BY <3>1, <3>2
  <2>4. CASE ClientSimulate(c)
    <3>1. Send(c, "SimulateUserActivity", 0) /\ UNCHANGED holds
      BY <2>4 DEF ClientSimulate
    <3>. QED
      BY <2>1, <3>1
  <2>. QED
    BY <2>2, <2>3, <2>4
<1>. DEFINE m == [what |-> what, from |-> c, serial |-> serial[c] + 1, cookie |-> k]
<1>1. /\ m.what = what /\ m.from = c /\ m.cookie = k
      /\ what \in Members /\ m \in Message /\ inbox \in Seq(Message)
  <2>1. what \in Members /\ serial[c] + 1 \in Nat /\ inbox \in Seq(Message)
    BY <1>0 DEF Send, TypeOK, Message
  <2>. QED
    BY <2>1 DEF Call, Message
<1>2. /\ inbox' = IF link # NONE THEN Append(inbox, m) ELSE inbox
      /\ UNCHANGED <<monitor, link, face, alive, svcCookie, lastCookie, methodCalls, owners>>
  BY <1>0 DEF Send, config, daemonVars
<1>. HIDE DEF m
<1>3. /\ \A d \in Clients : holds'[d] \subseteq holds[d]
      /\ what = "UnInhibit" => k \notin holds'[c]
      /\ what = "UnInhibit" => \E d \in Clients : k \in holds[d]
  BY <1>0 DEF TypeOK
<1>4. /\ ToSet(inbox') \subseteq ToSet(inbox) \cup {m}
      /\ \A r \in Releasing' : r \in Releasing \/ (r = m /\ what = "UnInhibit")
  BY <1>1, <1>2, ReleasingAppend
<1>5. OwnsName' = OwnsName /\ Simulates' = Simulates
  BY <1>2 DEF OwnsName, Simulates
<1>6. \A r \in Releasing : r.from \in Clients
  <2>1. ToSet(inbox) \subseteq Message /\ \A n \in DOMAIN methodCalls : methodCalls[n] \in Call
    BY <1>1, ToSetFacts DEF TypeOK
  <2>2. \A r \in Releasing : r \in Call \/ (r \in Message /\ r.what = "UnInhibit")
    BY <2>1 DEF Releasing
  <2>. QED
    BY <2>2 DEF Message, Call, Return, NameLost
<1>7. Unreached'
  BY <1>2 DEF Unreached
<1>8. ReleaseIsDue'
  BY <1>1, <1>3, <1>4, <1>6 DEF ReleaseIsDue
<1>9. ServiceAhead'
  BY <1>1, <1>2, <1>3, <1>4, <1>5 DEF ServiceAhead
<1>10. GoneHoldNothing'
  <2>1. m.what # "gone"
    BY <1>1, MemberNames
  <2>. QED
    BY <1>2, <1>3, <1>4, <2>1 DEF GoneHoldNothing
<1>11. OwnersApart' /\ ZeroIsFree'
  BY <1>2, <1>3, <1>5 DEF OwnersApart, ZeroIsFree
<1>12. CookiesAhead'
  <2>1. ASSUME OwnsName
        PROVE  /\ Cardinality(Waiting') < Modulus
               /\ \A n \in 1..Cardinality(Waiting') :
                    /\ \A d \in Clients : CookieAt(n) \notin holds'[d]
                    /\ \A r \in Releasing' : r.cookie # CookieAt(n)
    <3>1. inbox' = Append(inbox, m)
      BY <1>2, <2>1 DEF OwnsName
    <3>2. /\ Cardinality(Waiting) \in Nat
          /\ Cardinality(Waiting') = Cardinality(Waiting) + IF what = "Inhibit" THEN 1 ELSE 0
      BY <1>1, <3>1, InhibitsInAppend, InhibitsInFinite DEF Waiting, InhibitsIn
    <3>3. CASE what = "Inhibit"
      <4>. DEFINE w == Cardinality(Waiting) + 1
      <4>1. NoReissue
        BY <1>0, <2>1, <3>3, MemberNames
      <4>2. /\ w < Modulus
            /\ \A d \in Clients : CookieAt(w) \notin holds[d]
            /\ \A r \in Releasing : r.cookie # CookieAt(w)
        <5>1. 1 + Cardinality(Waiting) = w
          BY <3>2
        <5>2. /\ w < Modulus
              /\ CookieAt(w) \notin UNION {holds[d] : d \in Clients}
              /\ CookieAt(w) \notin {inbox[i].cookie : i \in DOMAIN inbox}
          BY <4>1, <5>1 DEF NoReissue, CookieAt, Waiting
        <5>3. Releasing \subseteq ToSet(inbox)
          BY <2>1 DEF Unreached, OwnsName, Releasing
        <5>. QED
          BY <5>2, <5>3 DEF ToSet
      <4>3. Cardinality(Waiting') = w /\ \A n \in 1..w : n = w \/ n \in 1..Cardinality(Waiting)
        BY <3>2, <3>3
      <4>. HIDE DEF w
      <4>4. Releasing' \subseteq Releasing
        BY <1>4, <3>3
      <4>. QED
        BY <1>3, <2>1, <4>2, <4>3, <4>4 DEF CookiesAhead
    <3>4. CASE what # "Inhibit"
      <4>1. Cardinality(Waiting') = Cardinality(Waiting)
        BY <3>2, <3>4
      <4>. QED
        BY <1>1, <1>3, <1>4, <2>1, <4>1 DEF CookiesAhead
    <3>. QED
      BY <3>3, <3>4
  <2>2. \A n : CookieAt(n)' = CookieAt(n)
    BY <1>2 DEF CookieAt
  <2>. QED
    BY <1>5, <2>1, <2>2 DEF CookiesAhead
<1>. QED
  BY <1>7, <1>8, <1>9, <1>10, <1>11, <1>12

LEMMA LastSame ==
    ASSUME LastInv,
           UNCHANGED <<config, alive, holds, svcCookie, inbox, methodCalls, owners, lastCookie>>
    PROVE  LastInv'
BY DEF LastInv, Unreached, ReleaseIsDue, ServiceAhead, GoneHoldNothing, OwnersApart, ZeroIsFree,
       CookiesAhead, Releasing, Waiting, CookieAt, OwnsName, Simulates, ToSet, config

\* A message was read that has nothing to do with cookies.
LEMMA ReadKeeps ==
    ASSUME LastInv, TypeOK, inbox # <<>>, inbox' = Tail(inbox), inbox' \in Seq(Message),
           OwnersApart' \/ owners' = owners,
           UNCHANGED <<config, alive, holds, svcCookie, methodCalls, lastCookie>>
    PROVE  LastInv'
<1>1. inbox \in Seq(Message)
  BY DEF TypeOK, Message
<1>2. ToSet(inbox') \subseteq ToSet(inbox)
  BY <1>1, ToSetFacts
<1>3. Cardinality(Waiting') <= Cardinality(Waiting)
  <2>1. /\ Cardinality(InhibitsIn(inbox)) \in Nat /\ Cardinality(InhibitsIn(inbox')) \in Nat
        /\ Cardinality(InhibitsIn(inbox')) <=
                Cardinality(InhibitsIn(inbox)) - IF Head(inbox).what = "Inhibit" THEN 1 ELSE 0
    BY <1>1, InhibitsInTail, InhibitsInFinite
  <2>2. Cardinality(InhibitsIn(inbox')) <= Cardinality(InhibitsIn(inbox))
    BY <2>1
  <2>. QED
    BY <2>2 DEF Waiting, InhibitsIn
<1>4. Releasing' \subseteq Releasing
  BY <1>2 DEF Releasing
<1>5. OwnersApart'
  BY DEF LastInv, OwnersApart
<1>. QED
  BY <1>2, <1>3, <1>4, <1>5, LastKept DEF LastInv, Unreached

LEMMA LastStep == LastInv /\ TypeOK /\ TypeOK' /\ [Next]_vars => LastInv'
<1>. SUFFICES ASSUME LastInv, TypeOK, TypeOK', [Next]_vars PROVE LastInv'
  OBVIOUS
<1>. USE DEF LastInv
<1>0. /\ RegistryOK /\ inbox \in Seq(Message) /\ Modulus \in Nat
      /\ ToSet(inbox) \subseteq Message
      /\ \A r \in Releasing : r.from \in Clients
  <2>1. inbox \in Seq(Message) /\ RegistryOK /\ Modulus \in Nat
    BY TypeParts, BoundsAssumption DEF BusOK
  <2>2. ToSet(inbox) \subseteq Message /\ \A n \in DOMAIN methodCalls : methodCalls[n] \in Call
    BY <2>1, ToSetFacts DEF TypeOK
  <2>3. \A r \in Releasing : r \in Call \/ (r \in Message /\ r.what = "UnInhibit")
    BY <2>2 DEF Releasing
  <2>. QED
    BY <2>1, <2>2, <2>3 DEF Message, Call, Return, NameLost
<1>t. inbox' \in Seq(Message)
  <2>1. face' = face
    BY DEF Next, Environment, Loop, Poll, ClientInhibit, ClientUnInhibit, ClientSimulate,
           ClientGone, Send, ServiceAnswer, ServiceError, NameComes, StrayReturn, Tick,
           HandleCall, RecordCall, HandleReturn, IgnoreReturn, HandleNameLost, config, vars
  <2>2. Message' = Message
    BY <2>1, SameMessages
  <2>3. (inbox \in Seq(Message))'
    BY TypeParts, PTL DEF BusOK
  <2>. QED
    BY <2>2, <2>3
<1>1. ASSUME NEW c \in Clients, ClientInhibit(c) \/ ClientUnInhibit(c) \/ ClientSimulate(c)
      PROVE  LastInv'
  BY <1>1, ClientStep
<1>2. ASSUME NEW c \in Clients, ClientGone(c)
      PROVE  LastInv'
  <2>. DEFINE m == [what |-> "gone", from |-> c, serial |-> 0, cookie |-> 0]
  <2>1. m.what = "gone" /\ m.from = c /\ m \in Message
    BY DEF Message, NameLost
  <2>2. /\ inbox' = IF Listens THEN Append(inbox, m) ELSE inbox
        /\ alive' = alive \ {c}
        /\ \A d \in Clients : holds'[d] \subseteq holds[d]
        /\ \A d \in Clients \ alive' : d # c => d \in Clients \ alive /\ holds'[d] \subseteq holds[d]
        /\ holds'[c] = {}
        /\ UNCHANGED <<monitor, link, face, svcCookie, lastCookie, methodCalls, owners>>
    BY <1>2 DEF ClientGone, config, daemonVars, TypeOK
  <2>. HIDE DEF m
  <2>3. ToSet(inbox') \subseteq ToSet(inbox) \cup {m} /\ Releasing' \subseteq Releasing
    BY <2>1, <2>2, ReleasingAppend
  <2>4. OwnsName' = OwnsName /\ Simulates' = Simulates /\ \A n : CookieAt(n)' = CookieAt(n)
    BY <2>2 DEF OwnsName, Simulates, CookieAt
  <2>5. Unreached'
    BY <2>2 DEF Unreached, Listens, FULL, NONE
  <2>6. ReleaseIsDue' /\ ServiceAhead'
    BY <1>0, <2>2, <2>3, <2>4 DEF ReleaseIsDue, ServiceAhead
  <2>7. GoneHoldNothing'
    BY <2>1, <2>2, <2>3 DEF GoneHoldNothing
  <2>8. OwnersApart' /\ ZeroIsFree'
    BY <2>2, <2>4 DEF OwnersApart, ZeroIsFree
  <2>9. CookiesAhead'
    <3>1. Cardinality(Waiting') = Cardinality(Waiting)
      BY <1>0, <2>1, <2>2, InhibitsInAppend, InhibitsInFinite DEF Waiting, InhibitsIn
    <3>. QED
      BY <2>2, <2>3, <2>4, <3>1 DEF CookiesAhead
  <2>. QED
    BY <2>5, <2>6, <2>7, <2>8, <2>9
<1>3. ASSUME ServiceAnswer
      PROVE  LastInv'
  <2>. DEFINE m == Head(service)
              k == IF m.what = "Inhibit" THEN svcCookie + 1 ELSE Nothing
              r == ReturnOf(m.serial, k)
  <2>1. /\ ~OwnsName /\ svcCookie \in Nat
        /\ svcCookie' = IF m.what = "Inhibit" THEN svcCookie + 1 ELSE svcCookie
        /\ holds' = IF m.what = "Inhibit" /\ m.from \in alive
                    THEN [holds EXCEPT ![m.from] = @ \cup {svcCookie + 1}] ELSE holds
        /\ inbox' = Append(inbox, r) \/ inbox' = inbox
        /\ link = NONE => inbox' = inbox
        /\ UNCHANGED <<monitor, link, face, alive, lastCookie, methodCalls, owners>>
    <3>1. svcCookie \in Nat
      BY DEF TypeOK, Cookies
    <3>. QED
      BY <1>3, <3>1 DEF ServiceAnswer, config, daemonVars
  <2>2. r.what = "return"
    BY DEF ReturnOf
  <2>. HIDE DEF r, m
  <2>3. ToSet(inbox') \subseteq ToSet(inbox) \cup {r} /\ Releasing' \subseteq Releasing
    <3>. DEFINE S == Message \cup {r}
    <3>1. inbox \in Seq(S)
      BY <1>0, SeqMonotonic
    <3>2. ToSet(Append(inbox, r)) = ToSet(inbox) \cup {r}
      BY <3>1, ToSetFacts
    <3>3. ToSet(inbox') \subseteq ToSet(inbox) \cup {r}
      BY <2>1, <3>2
    <3>. QED
      BY <2>1, <2>2, <3>3 DEF Releasing
  <2>4. OwnsName' = OwnsName /\ Simulates' = Simulates
    BY <2>1 DEF OwnsName, Simulates
  <2>5. \A c \in Clients : \A n \in holds'[c] :
            n \in holds[c] \/ (n = svcCookie + 1 /\ c \in alive /\ svcCookie' = svcCookie + 1)
    BY <2>1 DEF TypeOK
  <2>6. Unreached'
    BY <2>1 DEF Unreached
  <2>7. \A q \in Releasing : q.cookie # svcCookie + 1
    <3>1. \A q \in Releasing : q.cookie <= svcCookie
      BY <2>1 DEF ServiceAhead
    <3>. QED
      BY <2>1, <3>1
  <2>8. ReleaseIsDue'
    BY <1>0, <2>3, <2>5, <2>7 DEF ReleaseIsDue
  <2>9. ServiceAhead'
    <3>1. svcCookie' \in Nat /\ svcCookie' >= svcCookie
      BY <2>1
    <3>2. \A n \in Cookies : n <= svcCookie => n <= svcCookie'
      BY <2>1, <3>1 DEF Cookies
    <3>3. \A q \in Releasing : q.cookie \in Cookies
      <4>1. \A q \in Releasing : q \in Message \cup Call /\ q.what = "UnInhibit"
        BY <1>0 DEF Releasing, TypeOK
      <4>. QED
        BY <4>1 DEF Message, Call, Return, NameLost
    <3>4. \A c \in Clients : \A n \in holds[c] : n \in Cookies
      BY DEF TypeOK
    <3>5. \A c \in Clients : \A n \in holds'[c] : n <= svcCookie'
      BY <2>1, <2>5, <3>1, <3>2, <3>4 DEF ServiceAhead
    <3>. QED
      BY <2>1, <2>3, <3>2, <3>3, <3>5 DEF ServiceAhead
  <2>10. GoneHoldNothing'
    <3>1. \A c \in Clients \ alive : holds'[c] = {}
      BY <2>5 DEF GoneHoldNothing
    <3>. QED
      BY <2>1, <2>2, <2>3, <3>1 DEF GoneHoldNothing
  <2>11. OwnersApart' /\ CookiesAhead'
    BY <2>1, <2>4 DEF OwnersApart, CookiesAhead
  <2>12. ZeroIsFree'
    BY <2>1, <2>4, <2>5 DEF ZeroIsFree
  <2>. QED
    BY <2>6, <2>8, <2>9, <2>10, <2>11, <2>12
<1>4. ASSUME NameComes
      PROVE  LastInv'
  <2>1. /\ ~monitor /\ link = NONE /\ link' = UNMATCHED /\ ~monitor'
        /\ \A c \in Clients : holds'[c] = {}
        /\ UNCHANGED <<face, alive, inbox, methodCalls, owners>>
    BY <1>4 DEF NameComes, daemonVars
  <2>2. inbox = <<>> /\ DOMAIN methodCalls = {} /\ ToSet(inbox) = {} /\ Releasing = {} /\ Waiting = {}
    BY <2>1 DEF Unreached, ToSet, Releasing, Waiting
  <2>3. Releasing' = {} /\ Cardinality(Waiting') = 0 /\ 1..0 = {} /\ 0 < Modulus
    BY <2>1, <2>2, FS_EmptySet, BoundsAssumption DEF Releasing, Waiting
  <2>4. OwnsName' /\ Simulates' = Simulates
    BY <2>1 DEF OwnsName, Simulates, NONE, UNMATCHED
  <2>5. Unreached' /\ ReleaseIsDue' /\ ServiceAhead'
    BY <2>1, <2>2, <2>3, <2>4 DEF Unreached, ReleaseIsDue, ServiceAhead
  <2>6. GoneHoldNothing' /\ OwnersApart' /\ ZeroIsFree'
    BY <2>1, <2>2, <2>4 DEF GoneHoldNothing, OwnersApart, ZeroIsFree
  <2>7. CookiesAhead'
    BY <2>1, <2>3 DEF CookiesAhead
  <2>. QED
    BY <2>5, <2>6, <2>7
<1>5. ASSUME StrayReturn
      PROVE  LastInv'
  <2>1. PICK n \in StraySerials : inbox' = <<ReturnOf(n, 1)>>
    BY <1>5 DEF StrayReturn
  <2>2. /\ monitor /\ DOMAIN methodCalls # {}
        /\ UNCHANGED <<monitor, link, face, alive, holds, svcCookie, lastCookie, methodCalls, owners>>
    BY <1>5 DEF StrayReturn, config, clientVars, daemonVars
  <2>. DEFINE r == ReturnOf(n, 1)
  <2>a. r.what = "return"
    BY DEF ReturnOf
  <2>b. inbox' = <<r>>
    BY <2>1
  <2>. HIDE DEF r
  <2>3. ToSet(inbox') = {r}
    BY <2>b DEF ToSet
  <2>4. Releasing' \subseteq Releasing
    BY <2>2, <2>3, <2>a DEF Releasing
  <2>5. OwnsName' = OwnsName /\ Simulates' = Simulates /\ ~OwnsName
    BY <2>2 DEF OwnsName, Simulates
  <2>6. link # NONE
    BY <2>2 DEF Unreached
  <2>7. Unreached' /\ ReleaseIsDue' /\ ServiceAhead'
    BY <2>2, <2>4, <2>5, <2>6 DEF Unreached, ReleaseIsDue, ServiceAhead
  <2>8. GoneHoldNothing' /\ OwnersApart' /\ ZeroIsFree' /\ CookiesAhead'
    BY <2>2, <2>3, <2>5, <2>a DEF GoneHoldNothing, OwnersApart, ZeroIsFree, CookiesAhead
  <2>. QED
    BY <2>7, <2>8
<1>6. ASSUME ServiceError
      PROVE  LastInv'
  <2>1. UNCHANGED <<config, alive, holds, svcCookie, inbox, methodCalls, owners, lastCookie>>
    BY <1>6 DEF ServiceError, clientVars, daemonVars
  <2>. QED
    BY <2>1, LastSame
<1>7. ASSUME Tick
      PROVE  LastInv'
  <2>1. UNCHANGED <<config, alive, holds, svcCookie, inbox, methodCalls, owners, lastCookie>>
    BY <1>7 DEF Tick, clientVars, busVars, daemonVars
  <2>. QED
    BY <2>1, LastSame
<1>8. ASSUME HandleCall
      PROVE  LastInv'
  <2>. DEFINE m == Head(inbox)
              given == m.what = "Inhibit" /\ m.from \in alive
  <2>1. PICK thrown \in {FALSE, HubThrows} : Dispatch(m, NextCookie, thrown) /\ Handled(thrown)
    BY <1>8 DEF HandleCall
  <2>2. /\ inbox # <<>> /\ thrown \in BOOLEAN /\ OwnsName /\ m \in Call
        /\ UNCHANGED <<config, alive, svcCookie, methodCalls>>
        /\ holds' = IF given THEN [holds EXCEPT ![m.from] = @ \cup {NextCookie}] ELSE holds
    BY <1>8, ModesAssumption, InboxFacts, MessageFacts DEF HandleCall, Oldest
  <2>3. OwnersApart'
    BY <1>0, <2>1, <2>2, DispatchSenders
  <2>4. /\ ToSet(inbox') \subseteq ToSet(inbox)
        /\ Cardinality(Waiting') <= Cardinality(Waiting)
        /\ m.what = "Inhibit" => Cardinality(Waiting') <= Cardinality(Waiting) - 1
    BY <2>1, <2>2, HandledInbox DEF Waiting, InhibitsIn
  <2>5. Releasing' \subseteq Releasing
    BY <2>2, <2>4 DEF Releasing
  <2>6. link # NONE /\ ~monitor /\ DOMAIN methodCalls' = {}
    BY <2>2 DEF OwnsName, Unreached
  <2>7. CASE m.what # "Inhibit"
    <3>1. lastCookie' = lastCookie /\ holds' = holds
      BY <2>1, <2>2, <2>7 DEF Dispatch, OnUnInhibit, OnSimActivity
    <3>. QED
      BY <1>t, <2>2, <2>3, <2>4, <2>5, <2>6, <3>1, LastKept
  <2>8. CASE m.what = "Inhibit"
    <3>1. lastCookie' = NextCookie /\ lastCookie \in Cookies
      BY <1>0, <2>1, <2>8 DEF Dispatch, OnInhibit, RegistryOK
    <3>2. OwnsName' = OwnsName /\ Simulates' = Simulates
      BY <2>2 DEF OwnsName, Simulates, config
    <3>3. /\ Cardinality(Waiting) \in Nat /\ Cardinality(Waiting') \in Nat
          /\ Cardinality(Waiting') + 1 <= Cardinality(Waiting)
          /\ Cardinality(Waiting) < Modulus
      <4>1. Cardinality(Waiting) \in Nat /\ Cardinality(Waiting') \in Nat
        BY <1>0, <1>t, InhibitsInFinite DEF Waiting, InhibitsIn
      <4>. QED
        BY <2>2, <2>4, <2>8, <4>1 DEF CookiesAhead
    <3>4. /\ \A c \in Clients : NextCookie \notin holds[c]
          /\ \A r \in Releasing : r.cookie # NextCookie
      <4>1. 1 \in 1..Cardinality(Waiting)
        BY <3>3
      <4>. QED
        BY <2>2, <3>1, <4>1, NextIsFirst DEF CookiesAhead
    <3>5. \A c \in Clients : \A n \in holds'[c] : n \in holds[c] \/ (n = NextCookie /\ c \in alive)
      BY <2>2 DEF TypeOK
    <3>6. Unreached'
      BY <2>2, <2>6 DEF Unreached, config
    <3>7. ReleaseIsDue'
      BY <1>0, <2>5, <3>4, <3>5 DEF ReleaseIsDue
    <3>8. ServiceAhead'
      BY <2>2, <3>2 DEF ServiceAhead
    <3>9. GoneHoldNothing'
      <4>1. \A c \in Clients \ alive : holds'[c] = {}
        BY <3>5 DEF GoneHoldNothing
      <4>. QED
        BY <2>2, <2>4, <4>1 DEF GoneHoldNothing
    <3>10. ZeroIsFree'
      <4>1. Simulates => NextCookie # 0
        BY <3>1, NextCookieFacts DEF Simulates, GNOME, CINNAMON, SESSION
      <4>. QED
        BY <3>2, <3>5, <4>1 DEF ZeroIsFree
    <3>11. CookiesAhead'
      <4>1. face' = face
        BY <2>2 DEF config
      <4>2. ASSUME NEW n \in 1..Cardinality(Waiting')
            PROVE  /\ \A c \in Clients : CookieAt(n)' \notin holds'[c]
                   /\ \A r \in Releasing' : r.cookie # CookieAt(n)'
        <5>1. n \in Nat \ {0} /\ n + 1 < Modulus /\ n + 1 \in 1..Cardinality(Waiting)
          BY <1>0, <3>3
        <5>2. CookieAt(n)' = CookieAt(n + 1) /\ CookieAt(n + 1) # NextCookie
          BY <3>1, <4>1, <5>1, CookieShift
        <5>3. /\ \A c \in Clients : CookieAt(n + 1) \notin holds[c]
              /\ \A r \in Releasing : r.cookie # CookieAt(n + 1)
          BY <2>2, <5>1 DEF CookiesAhead
        <5>. QED
          BY <2>5, <3>5, <5>2, <5>3
      <4>3. Cardinality(Waiting') < Modulus
        BY <1>0, <3>3
      <4>. QED
        BY <4>2, <4>3 DEF CookiesAhead
    <3>. QED
      BY <2>3, <3>6, <3>7, <3>8, <3>9, <3>10, <3>11
  <2>. QED
    BY <2>7, <2>8
<1>9. ASSUME RecordCall
      PROVE  LastInv'
  <2>. DEFINE m == Head(inbox)
  <2>1. /\ monitor /\ inbox # <<>> /\ inbox' = Tail(inbox)
        /\ methodCalls' = MapInsert(methodCalls, m.serial, m)
        /\ UNCHANGED <<config, alive, holds, svcCookie, owners, lastCookie>>
    BY <1>9 DEF RecordCall, Receive, Oldest, clientVars, registryVars
  <2>2. m \in ToSet(inbox) /\ ToSet(inbox') \subseteq ToSet(inbox)
    BY <1>0, <2>1, ToSetFacts
  <2>3. \A n \in DOMAIN methodCalls' :
            methodCalls'[n] = m \/ (n \in DOMAIN methodCalls /\ methodCalls'[n] = methodCalls[n])
    BY <2>1 DEF MapInsert
  <2>4. Releasing' \subseteq Releasing
    BY <2>2, <2>3 DEF Releasing
  <2>5. OwnersApart' /\ ~OwnsName /\ ~(link = NONE \/ ~monitor)
    BY <2>1 DEF OwnersApart, OwnsName, Unreached
  <2>. HIDE DEF m
  <2>. QED
    BY <1>t, <2>1, <2>2, <2>4, <2>5, LastKept
<1>10. ASSUME HandleReturn
       PROVE  LastInv'
  <2>. DEFINE r == Head(inbox)
              m == methodCalls[r.serial]
  <2>1. /\ inbox # <<>> /\ r.serial \in DOMAIN methodCalls
        /\ UNCHANGED <<config, alive, holds, svcCookie>>
        /\ \/ Handled(FALSE) /\ UNCHANGED <<owners, methodCalls>>
           \/ \E thrown \in {FALSE, HubThrows} :
                /\ Dispatch(m, r.cookie, thrown) /\ Handled(thrown)
                /\ methodCalls' = IF thrown THEN methodCalls ELSE MapErase(methodCalls, r.serial)
    BY <1>10 DEF HandleReturn, Oldest, clientVars, registryVars
  <2>2. m \in Call
    BY <2>1 DEF TypeOK
  <2>3. ToSet(inbox') \subseteq ToSet(inbox)
    BY <2>1, HandledInbox
  <2>4. Releasing' \subseteq Releasing
    <3>1. \A n \in DOMAIN methodCalls' : n \in DOMAIN methodCalls /\ methodCalls'[n] = methodCalls[n]
      BY <2>1 DEF MapErase
    <3>. QED
      BY <2>3, <3>1 DEF Releasing
  <2>5. OwnersApart'
    <3>1. CASE owners' = owners
      BY <3>1 DEF OwnersApart
    <3>2. CASE \E thrown \in {FALSE, HubThrows} : Dispatch(m, r.cookie, thrown)
      BY <1>0, <2>2, <3>2, ModesAssumption, DispatchSenders
    <3>. QED
      BY <2>1, <3>1, <3>2
  <2>6. ~OwnsName /\ ~(link = NONE \/ ~monitor)
    BY <2>1 DEF OwnsName, Unreached
  <2>. QED
    BY <1>t, <2>1, <2>3, <2>4, <2>5, <2>6, LastKept
<1>11. ASSUME IgnoreReturn
       PROVE  LastInv'
  <2>1. /\ inbox # <<>> /\ inbox' = Tail(inbox)
        /\ UNCHANGED <<config, alive, holds, svcCookie, methodCalls, owners, lastCookie>>
    BY <1>11 DEF IgnoreReturn, Receive, Oldest, clientVars, registryVars
  <2>. QED
    BY <1>t, <2>1, ReadKeeps
<1>12. ASSUME HandleNameLost
       PROVE  LastInv'
  <2>. DEFINE c == Head(inbox).from
  <2>1. /\ inbox # <<>> /\ inbox' = Tail(inbox) /\ owners' = MapPut(owners, c, <<>>)
        /\ UNCHANGED <<config, alive, holds, svcCookie, methodCalls, lastCookie>>
    BY <1>12 DEF HandleNameLost, Receive, Oldest, clientVars
  <2>. HIDE DEF c
  <2>2. ToSet(<<>>) = {}
    BY DEF ToSet
  <2>3. OwnersApart'
    BY <2>1, <2>2 DEF OwnersApart, MapPut
  <2>. QED
    BY <1>t, <2>1, <2>3, ReadKeeps
<1>13. ASSUME Poll
       PROVE  LastInv'
  <2>. DEFINE old == {id \in DOMAIN active : Expired(id)}
              from == {id.sender : id \in old}
  <2>1. /\ owners' = [c \in DOMAIN owners \cup from |-> IF c \in from THEN <<>> ELSE owners[c]]
        /\ UNCHANGED <<config, alive, holds, svcCookie, inbox, methodCalls, lastCookie>>
    BY <1>13 DEF Poll, clientVars, busVars
  <2>. HIDE DEF from
  <2>2. ToSet(<<>>) = {}
    BY DEF ToSet
  <2>3. OwnersApart'
    BY <2>1, <2>2 DEF OwnersApart
  <2>4. Waiting' = Waiting /\ Cardinality(Waiting) \in Nat /\ Releasing' = Releasing
    BY <1>0, <2>1, InhibitsInFinite DEF Waiting, InhibitsIn, Releasing
  <2>. QED
    BY <1>t, <2>1, <2>3, <2>4, LastKept DEF Unreached
<1>14. ASSUME UNCHANGED vars
       PROVE  LastInv'
  BY <1>14, LastSame DEF vars, config
<1>. QED
  BY <1>1, <1>2, <1>3, <1>4, <1>5, <1>6, <1>7, <1>8, <1>9, <1>10, <1>11, <1>12, <1>13, <1>14
  DEF Next, Environment, Loop

\* Nothing but a release, an expiry or the loss of a name ends an inhibit.
LEMMA DispatchEnds ==
    ASSUME NEW m, NEW k, NEW thrown, Dispatch(m, k, thrown),
           NEW id \in DOMAIN active \ DOMAIN active'
    PROVE  m.what = "UnInhibit" /\ id = [sender |-> m.from, cookie |-> m.cookie]
<1>1. CASE m.what = "Inhibit" /\ OnInhibit(m, k, thrown)
  BY <1>1 DEF OnInhibit, Register, MapInsert
<1>2. CASE m.what = "UnInhibit" /\ OnUnInhibit(m)
  BY <1>2 DEF OnUnInhibit, MapErase
<1>3. CASE OnSimActivity(m, thrown)
  BY <1>3 DEF OnSimActivity, MapInsert
<1>. QED
  BY <1>1, <1>2, <1>3 DEF Dispatch

LEMMA LastsStep ==
    ASSUME LastInv, TypeOK, [Next]_vars, NEW id \in DOMAIN active \ DOMAIN active'
    PROVE  id.cookie \notin holds[id.sender]
<1>. USE DEF LastInv
<1>0. RegistryOK /\ inbox \in Seq(Message) /\ id \in Id /\ id.sender \in Clients
  BY TypeParts DEF BusOK, RegistryOK, Id
<1>1. CASE Environment
  BY <1>1 DEF Environment, ClientInhibit, ClientUnInhibit, ClientSimulate, ClientGone, Send,
              ServiceAnswer, ServiceError, NameComes, StrayReturn, Tick, daemonVars
<1>2. CASE HandleCall
  <2>. DEFINE m == Head(inbox)
  <2>1. inbox # <<>> /\ \E thrown : Dispatch(m, NextCookie, thrown)
    BY <1>2 DEF HandleCall, Oldest
  <2>2. m.what = "UnInhibit" /\ id = [sender |-> m.from, cookie |-> m.cookie]
    BY <2>1, DispatchEnds
  <2>3. m \in Releasing
    BY <1>0, <2>1, <2>2, ToSetFacts DEF Releasing
  <2>. QED
    BY <2>2, <2>3 DEF ReleaseIsDue
<1>3. CASE HandleReturn
  <2>. DEFINE r == Head(inbox)
              m == methodCalls[r.serial]
  <2>1. r.serial \in DOMAIN methodCalls /\ \E thrown : Dispatch(m, r.cookie, thrown)
    BY <1>3 DEF HandleReturn, registryVars
  <2>2. m.what = "UnInhibit" /\ id = [sender |-> m.from, cookie |-> m.cookie]
    BY <2>1, DispatchEnds
  <2>3. m \in Releasing
    BY <2>1, <2>2 DEF Releasing
  <2>. QED
    BY <2>2, <2>3 DEF ReleaseIsDue
<1>4. CASE HandleNameLost
  <2>. DEFINE m == Head(inbox)
  <2>1. /\ inbox # <<>> /\ m.what = "gone" /\ id \in ToSet(OwnersOf(m.from))
    BY <1>4 DEF HandleNameLost, Receive, Oldest, ReleasedWith
  <2>2. m.from \notin alive
    BY <1>0, <2>1, ToSetFacts DEF GoneHoldNothing
  <2>3. id.sender = m.from
    <3>1. id # EmptyId
      <4>1. EmptyId.sender = "" /\ "" \notin Clients
        BY ClientsAssumption DEF EmptyId
      <4>. QED
        BY <1>0, <4>1
    <3>2. m.from \in DOMAIN owners /\ OwnersOf(m.from) = owners[m.from]
      BY <2>1 DEF OwnersOf, ToSet
    <3>. QED
      BY <2>1, <3>1, <3>2 DEF OwnersApart
  <2>. QED
    BY <1>0, <2>2, <2>3 DEF GoneHoldNothing
<1>5. CASE Poll
  BY <1>0, <1>5 DEF Poll, Expired, ZeroIsFree
<1>6. CASE RecordCall \/ IgnoreReturn \/ UNCHANGED vars
  BY <1>6 DEF RecordCall, IgnoreReturn, registryVars, vars
<1>. QED
  BY <1>1, <1>2, <1>3, <1>4, <1>5, <1>6 DEF Next, Loop

\* No expiry, no other client's release or loss, and nothing that a reused cookie
\* or a late message could do ends an inhibit that its client still holds.
THEOREM InhibitsLast == Spec => InhibitLasts
<1>. DEFINE Kept == \A id \in DOMAIN active \ DOMAIN active' : id.cookie \notin holds[id.sender]
<1>1. TypeOK /\ LastInv /\ [Next]_vars => [Kept]_vars
  BY LastsStep
<1>. QED
  BY <1>1, TypeInit, TypeStep, LastInit, LastStep, PTL DEF Spec, InhibitLasts

----------------------------------------------------------------------------
(* What the registry has and what the clients hold                         *)

\* No two connections number their messages alike, nor as the service numbers what
\* others asked of it.  (Each counts from 1, so this is about what the clients and
\* the service happen to have sent before; dbus_serial shows what goes wrong else.)
SerialsApart ==
    \A m \in Modes, c \in Clients :
        \A s \in FirstSerial[c] + 1..FirstSerial[c] + MaxCalls[m][c] :
            /\ s \notin StraySerials
            /\ \A d \in Clients \ {c} : s \notin FirstSerial[d] + 1..FirstSerial[d] + MaxCalls[m][d]

\* We are a monitor, and the bus lets us.
Overhears == monitor /\ link # NONE

IsCall(m) == m.what \notin {"return", "gone"}

\* Calls that the daemon has read or is going to, and those that the service has
\* not answered.
Known == {m \in ToSet(inbox) : IsCall(m)} \cup {methodCalls[s] : s \in DOMAIN methodCalls}
Calls == Known \cup ToSet(service)

\* Serials that a client has used.
Sent(c) == FirstSerial[c] + 1..serial[c]

SerialsBounded ==
    \A c \in Clients : serial[c] \in FirstSerial[c]..FirstSerial[c] + MaxCalls[monitor][c]

CallsDistinct ==
    /\ \A m \in Calls : m.serial \in Sent(m.from)
    /\ \A m, n \in Calls : m.serial = n.serial => m = n
    /\ \A a, b \in DOMAIN service : a # b => service[a].serial # service[b].serial

\* A call is read once, and its return, if any, comes once and after it.
InOrder ==
    /\ \A i, j \in DOMAIN inbox :
            i < j /\ inbox[i].serial = inbox[j].serial
            /\ inbox[i].what # "gone" /\ inbox[j].what # "gone"
                => IsCall(inbox[i]) /\ inbox[j].what = "return"
    /\ \A i \in DOMAIN inbox : IsCall(inbox[i]) => inbox[i].serial \notin DOMAIN methodCalls
    /\ \A s \in DOMAIN methodCalls : methodCalls[s].serial = s

\* A return answers a call that was made and that is not answered again.
ReturnsDue ==
    \A i \in DOMAIN inbox : inbox[i].what = "return" =>
        /\ inbox[i].serial \in StraySerials \/ \E c \in Clients : inbox[i].serial \in Sent(c)
        /\ \A m \in ToSet(service) : m.serial # inbox[i].serial

\* A call that is to be answered we have read or will read, unless it was swallowed.
Awaited == \A m \in ToSet(service) : m.from \in alive \ missed => m \in Known

Pairs == SerialsBounded /\ CallsDistinct /\ InOrder /\ ReturnsDue /\ Awaited
PairInv == Overhears => Pairs

\* The i-th message is a return that gives k to c, or that confirms that c gave it
\* back; and c has asked the service for the latter.
Grants(i, c, k) ==
    /\ inbox[i].what = "return" /\ inbox[i].cookie = k
    /\ \E m \in Known : m.serial = inbox[i].serial /\ m.what = "Inhibit" /\ m.from = c
Releases(i, c, k) ==
    /\ inbox[i].what = "return"
    /\ \E m \in Known : /\ m.serial = inbox[i].serial
                        /\ m.what = "UnInhibit" /\ m.from = c /\ m.cookie = k
Asked(c, k) == \E m \in ToSet(service) : m.what = "UnInhibit" /\ m.from = c /\ m.cookie = k

\* The cookies that the registry has for a client.
Listed(c) == {id.cookie : id \in ActiveOf(c)} \ (IF Simulates THEN {0} ELSE {})

\* A monitor lags behind: what a client holds is listed or the return that grants it
\* is on its way; what is listed, or about to be, and not held, will be released after.
Follows(c, k) ==
    /\ k \in holds[c] => k \in Listed(c) \/ \E i \in DOMAIN inbox : Grants(i, c, k)
    /\ k \in Listed(c) \ holds[c] => Asked(c, k) \/ \E i \in DOMAIN inbox : Releases(i, c, k)
    /\ \A i \in DOMAIN inbox : Grants(i, c, k) /\ k \notin holds[c] =>
            Asked(c, k) \/ \E j \in DOMAIN inbox : i < j /\ Releases(j, c, k)
OverheardInv == Overhears => \A c \in alive \ missed, k \in Cookies : Follows(c, k)

\* Who owns the name answers and registers in one step; only a release takes time.
GivesBack(c, k) == \E m \in ToSet(inbox) : m.what = "UnInhibit" /\ m.from = c /\ m.cookie = k
ServedInv ==
    OwnsName => \A c \in alive \ missed, k \in Cookies :
        /\ k \in holds[c] => k \in Listed(c)
        /\ k \in Listed(c) \ holds[c] => GivesBack(c, k)

NothingYet == link = NONE => DOMAIN active = {}

\* One or two messages were read.
Reads(d) ==
    /\ d \in {1, 2} /\ Len(inbox) >= d
    /\ DOMAIN inbox' = 1..Len(inbox) - d
    /\ \A i \in DOMAIN inbox' : inbox'[i] = inbox[i + d]

LEMMA TailFacts ==
    ASSUME NEW S, NEW s \in Seq(S), s # <<>>
    PROVE  /\ Len(s) \in Nat \ {0} /\ DOMAIN s = 1..Len(s) /\ Head(s) = s[1]
           /\ Tail(s) \in Seq(S) /\ Len(Tail(s)) = Len(s) - 1 /\ DOMAIN Tail(s) = 1..Len(s) - 1
           /\ \A i \in 1..Len(s) - 1 : Tail(s)[i] = s[i + 1]
           /\ \A x \in ToSet(s) : x = Head(s) \/ x \in ToSet(Tail(s))
<1>1. Len(s) \in Nat \ {0} /\ DOMAIN s = 1..Len(s) /\ Head(s) = s[1]
  BY EmptySeq, LenProperties
<1>2. /\ Tail(s) \in Seq(S) /\ Len(Tail(s)) = Len(s) - 1
      /\ \A i \in 1..Len(Tail(s)) : Tail(s)[i] = s[i + 1]
  BY HeadTailProperties
<1>3. DOMAIN Tail(s) = 1..Len(s) - 1
  BY <1>2, LenProperties
<1>4. ASSUME NEW x \in ToSet(s), x # Head(s)
      PROVE  x \in ToSet(Tail(s))
  <2>1. PICK i \in 1..Len(s) : x = s[i]
    BY <1>1 DEF ToSet
  <2>2. i - 1 \in 1..Len(s) - 1 /\ s[(i - 1) + 1] = x
    BY <1>1, <1>4, <2>1
  <2>. QED
    BY <1>2, <1>3, <2>2 DEF ToSet
<1>. QED
  BY <1>1, <1>2, <1>3, <1>4

LEMMA AppendFacts ==
    ASSUME NEW S, NEW s \in Seq(S), NEW e
    PROVE  /\ Len(s) \in Nat /\ DOMAIN s = 1..Len(s) /\ DOMAIN Append(s, e) = 1..Len(s) + 1
           /\ \A i \in 1..Len(s) + 1 : Append(s, e)[i] = IF i = Len(s) + 1 THEN e ELSE s[i]
           /\ ToSet(Append(s, e)) = ToSet(s) \cup {e}
<1>1. Len(s) \in Nat /\ DOMAIN s = 1..Len(s) /\ DOMAIN Append(s, e) = 1..Len(s) + 1
  BY LenProperties
<1>2. \A i \in 1..Len(s) + 1 : Append(s, e)[i] = IF i = Len(s) + 1 THEN e ELSE s[i]
  BY <1>1
<1>. QED
  BY <1>1, <1>2 DEF ToSet

LEMMA CallFacts ==
    /\ \A m \in Message : IsCall(m) => m \in Call
    /\ \A m \in Call : /\ IsCall(m) /\ m \in Message /\ m.what \in Members
                       /\ m.from \in Clients /\ m.serial \in Nat /\ m.cookie \in Cookies
<1>1. \A m \in Call : m.what \in Members /\ m.from \in Clients /\ m.serial \in Nat /\ m.cookie \in Cookies
  BY DEF Call
<1>2. \A m \in Call : IsCall(m) /\ m \in Message
  BY <1>1, MemberNames DEF IsCall, Message
<1>3. \A m \in Message : IsCall(m) => m \in Call
  BY DEF IsCall, Message, Return, NameLost
<1>. QED
  BY <1>1, <1>2, <1>3

LEMMA CallsFacts ==
    ASSUME TypeOK
    PROVE  /\ inbox \in Seq(Message) /\ ToSet(inbox) \subseteq Message
           /\ DOMAIN inbox = 1..Len(inbox) /\ Len(inbox) \in Nat
           /\ \A i \in DOMAIN inbox : inbox[i] \in Message /\ inbox[i] \in ToSet(inbox)
           /\ service \in Seq(Call) /\ ToSet(service) \subseteq Call
           /\ DOMAIN service = 1..Len(service) /\ Len(service) \in Nat
           /\ Known \subseteq Call /\ Calls \subseteq Call
<1>1. inbox \in Seq(Message) /\ service \in Seq(Call)
  BY DEF TypeOK, Message
<1>2. ToSet(inbox) \subseteq Message /\ ToSet(service) \subseteq Call
  BY <1>1, ToSetFacts
<1>3. /\ DOMAIN inbox = 1..Len(inbox) /\ Len(inbox) \in Nat
      /\ DOMAIN service = 1..Len(service) /\ Len(service) \in Nat
  BY <1>1, LenProperties
<1>4. \A i \in DOMAIN inbox : inbox[i] \in ToSet(inbox)
  BY DEF ToSet
<1>5. Known \subseteq Call
  BY <1>2, CallFacts DEF Known, TypeOK
<1>. QED
  BY <1>1, <1>2, <1>3, <1>4, <1>5 DEF Calls

LEMMA SerialFacts ==
    ASSUME SerialsApart, TypeOK, SerialsBounded
    PROVE  \A c \in Clients :
            /\ \A s \in Sent(c) : s \notin StraySerials /\ \A d \in Clients : s \in Sent(d) => d = c
            /\ serial[c] < FirstSerial[c] + MaxCalls[monitor][c] =>
                    /\ serial[c] + 1 \notin StraySerials
                    /\ \A d \in Clients : serial[c] + 1 \notin Sent(d)
<1>. DEFINE SerialsOf(c) == FirstSerial[c] + 1..FirstSerial[c] + MaxCalls[monitor][c]
<1>1. \A c \in Clients : /\ FirstSerial[c] \in Nat /\ MaxCalls[monitor][c] \in Nat
                         /\ serial[c] \in FirstSerial[c]..FirstSerial[c] + MaxCalls[monitor][c]
  BY BoundsAssumption DEF TypeOK, SerialsBounded
<1>2. \A c \in Clients : \A s \in SerialsOf(c) :
        s \notin StraySerials /\ \A d \in Clients \ {c} : s \notin SerialsOf(d)
  BY DEF SerialsApart, TypeOK
<1>3. \A c \in Clients : \A s \in Sent(c) : s \in SerialsOf(c)
  BY <1>1 DEF Sent
<1>4. \A c \in Clients : serial[c] < FirstSerial[c] + MaxCalls[monitor][c] =>
            serial[c] + 1 \in SerialsOf(c) /\ serial[c] + 1 \notin Sent(c)
  BY <1>1 DEF Sent
<1>. HIDE DEF SerialsOf
<1>. QED
  BY <1>2, <1>3, <1>4

\* A client calls.
LEMMA PairsSend ==
    ASSUME SerialsApart, TypeOK, Pairs, NEW c \in Clients, NEW m \in Call,
           m.from = c, m.serial = serial[c] + 1,
           serial[c] < FirstSerial[c] + MaxCalls[monitor][c],
           serial' = [serial EXCEPT ![c] = @ + 1],
           inbox' = Append(inbox, m), service' = Append(service, m),
           UNCHANGED <<monitor, methodCalls, alive, missed>>
    PROVE  Pairs'
<1>. USE DEF Pairs
<1>1. /\ Len(inbox) \in Nat /\ DOMAIN inbox = 1..Len(inbox) /\ DOMAIN inbox' = 1..Len(inbox) + 1
      /\ \A i \in 1..Len(inbox) + 1 : inbox'[i] = IF i = Len(inbox) + 1 THEN m ELSE inbox[i]
      /\ ToSet(inbox') = ToSet(inbox) \cup {m}
  BY CallsFacts, AppendFacts
<1>2. /\ Len(service) \in Nat /\ DOMAIN service = 1..Len(service)
      /\ DOMAIN service' = 1..Len(service) + 1
      /\ \A i \in 1..Len(service) + 1 : service'[i] = IF i = Len(service) + 1 THEN m ELSE service[i]
      /\ ToSet(service') = ToSet(service) \cup {m}
  BY CallsFacts, AppendFacts
<1>3. IsCall(m) /\ m.what \notin {"return", "gone"} /\ Calls \subseteq Call
  BY CallFacts, CallsFacts DEF IsCall
<1>4. Known' = Known \cup {m} /\ Calls' = Calls \cup {m}
  BY <1>1, <1>2, <1>3 DEF Known, Calls
<1>5. /\ serial \in [Clients -> Nat] /\ FirstSerial \in [Clients -> Nat]
      /\ MaxCalls[monitor] \in [Clients -> Nat]
  BY BoundsAssumption DEF TypeOK
<1>6. /\ \A d \in Clients : serial'[d] = IF d = c THEN serial[d] + 1 ELSE serial[d]
      /\ \A d \in Clients : Sent(d) \subseteq Sent(d)'
      /\ m.serial \in Sent(c)'
  BY <1>5 DEF Sent, SerialsBounded
<1>7. m.serial \notin StraySerials /\ \A d \in Clients : m.serial \notin Sent(d)
  BY SerialFacts
<1>8. \A x \in Calls : x.from \in Clients /\ x.serial \in Sent(x.from) /\ x.serial # m.serial
  BY <1>3, <1>7, CallFacts DEF CallsDistinct
<1>9. \A i \in DOMAIN inbox : inbox[i].what # "gone" => inbox[i].serial # m.serial
  <2>. TAKE i \in DOMAIN inbox
  <2>1. IsCall(inbox[i]) => inbox[i] \in Calls
    BY DEF Calls, Known, ToSet
  <2>2. inbox[i].what = "return" => inbox[i].serial # m.serial
    BY <1>7 DEF ReturnsDue
  <2>. QED
    BY <1>8, <2>1, <2>2 DEF IsCall
<1>10. m.serial \notin DOMAIN methodCalls
  <2>1. \A s \in DOMAIN methodCalls : methodCalls[s] \in Calls /\ methodCalls[s].serial = s
    BY DEF Calls, Known, InOrder
  <2>. QED
    BY <1>8, <2>1
<1>11. SerialsBounded'
  BY <1>5, <1>6 DEF SerialsBounded
<1>12. CallsDistinct'
  <2>1. \A x \in Calls' : x.serial \in Sent(x.from)'
    BY <1>4, <1>6, <1>8
  <2>2. \A x, y \in Calls' : x.serial = y.serial => x = y
    BY <1>4, <1>8 DEF CallsDistinct
  <2>3. \A a \in DOMAIN service : service[a].serial # m.serial
    BY <1>8 DEF Calls, ToSet
  <2>4. ASSUME NEW a \in DOMAIN service', NEW b \in DOMAIN service', a # b
        PROVE  service'[a].serial # service'[b].serial
    <3>1. a \in DOMAIN service \/ a = Len(service) + 1
      BY <1>2
    <3>2. b \in DOMAIN service \/ b = Len(service) + 1
      BY <1>2
    <3>3. \A x \in DOMAIN service : service'[x] = service[x]
      BY <1>2
    <3>4. service'[Len(service) + 1] = m
      BY <1>2
    <3>. QED
      BY <2>3, <2>4, <3>1, <3>2, <3>3, <3>4 DEF CallsDistinct
  <2>. QED
    BY <2>1, <2>2, <2>4 DEF CallsDistinct
<1>m. inbox'[Len(inbox) + 1] = m /\ \A i \in DOMAIN inbox : inbox'[i] = inbox[i]
  BY <1>1
<1>13. InOrder'
  <2>1. ASSUME NEW i \in DOMAIN inbox', NEW j \in DOMAIN inbox', i < j,
               inbox'[i].serial = inbox'[j].serial,
               inbox'[i].what # "gone", inbox'[j].what # "gone"
        PROVE  IsCall(inbox'[i]) /\ inbox'[j].what = "return"
    <3>1. i \in DOMAIN inbox
      BY <1>1, <2>1
    <3>2. inbox'[i].serial # m.serial
      BY <1>9, <1>m, <2>1, <3>1
    <3>3. j \in DOMAIN inbox
      BY <1>1, <1>m, <2>1, <3>2
    <3>. QED
      BY <1>m, <2>1, <3>1, <3>3 DEF InOrder
  <2>2. ASSUME NEW i \in DOMAIN inbox', IsCall(inbox'[i])
        PROVE  inbox'[i].serial \notin DOMAIN methodCalls
    <3>1. i \in DOMAIN inbox \/ i = Len(inbox) + 1
      BY <1>1
    <3>. QED
      BY <1>10, <1>m, <2>2, <3>1 DEF InOrder
  <2>. QED
    BY <2>1, <2>2 DEF InOrder
<1>14. ReturnsDue'
  <2>. SUFFICES ASSUME NEW i \in DOMAIN inbox', inbox'[i].what = "return"
                PROVE  /\ \/ inbox'[i].serial \in StraySerials
                          \/ \E d \in Clients : inbox'[i].serial \in Sent(d)'
                       /\ \A x \in ToSet(service') : x.serial # inbox'[i].serial
    BY DEF ReturnsDue
  <2>1. i \in DOMAIN inbox /\ inbox'[i] = inbox[i]
    BY <1>1, <1>3, <1>m
  <2>. QED
    BY <1>2, <1>6, <1>9, <2>1 DEF ReturnsDue
<1>15. Awaited'
  BY <1>2, <1>4 DEF Awaited
<1>. QED
  BY <1>11, <1>12, <1>13, <1>14, <1>15

\* The service answers, or only drops, its oldest call.
LEMMA PairsAnswer ==
    ASSUME SerialsApart, TypeOK, Pairs, service # <<>>, NEW r,
           r.what = "return", r.serial = Head(service).serial,
           service' = Tail(service), inbox' \in {inbox, Append(inbox, r)},
           UNCHANGED <<monitor, serial, methodCalls, alive, missed>>
    PROVE  Pairs'
<1>. USE DEF Pairs
<1>1. /\ Len(inbox) \in Nat /\ DOMAIN inbox = 1..Len(inbox)
      /\ \A i \in DOMAIN inbox : inbox'[i] = inbox[i]
      /\ \A i \in DOMAIN inbox' : i \in DOMAIN inbox \/ (i = Len(inbox) + 1 /\ inbox'[i] = r)
      /\ DOMAIN inbox \subseteq DOMAIN inbox'
      /\ ToSet(inbox') \subseteq ToSet(inbox) \cup {r} /\ ToSet(inbox) \subseteq ToSet(inbox')
  <2>1. CASE inbox' = inbox
    BY <2>1, CallsFacts
  <2>2. CASE inbox' = Append(inbox, r)
    <3>. DEFINE q == Append(inbox, r)
    <3>1. /\ Len(inbox) \in Nat /\ DOMAIN inbox = 1..Len(inbox) /\ DOMAIN q = 1..Len(inbox) + 1
          /\ \A i \in 1..Len(inbox) + 1 : q[i] = IF i = Len(inbox) + 1 THEN r ELSE inbox[i]
          /\ ToSet(q) = ToSet(inbox) \cup {r}
      BY CallsFacts, AppendFacts
    <3>2. q = inbox'
      BY <2>2
    <3>. HIDE DEF q
    <3>. QED
      BY <3>1, <3>2
  <2>. QED
    BY <2>1, <2>2
<1>2. /\ Len(service) \in Nat \ {0} /\ DOMAIN service = 1..Len(service)
      /\ Head(service) = service[1] /\ DOMAIN service' = 1..Len(service) - 1
      /\ \A i \in 1..Len(service) - 1 : service'[i] = service[i + 1]
  BY CallsFacts, TailFacts
<1>3. ToSet(service') \subseteq ToSet(service) /\ Head(service) \in ToSet(service)
  BY CallsFacts, ToSetFacts
<1>4. Known' = Known /\ Calls' \subseteq Calls /\ Head(service) \in Calls /\ Calls \subseteq Call
  BY <1>1, <1>3, CallsFacts DEF Known, Calls, IsCall
<1>5. \A d : Sent(d)' = Sent(d)
  BY DEF Sent
<1>6. ASSUME NEW x \in ToSet(service')
      PROVE  x.serial # r.serial
  <2>1. PICK i \in 1..Len(service) - 1 : x = service'[i]
    BY <1>2 DEF ToSet
  <2>2. x = service[i + 1] /\ i + 1 \in DOMAIN service /\ 1 \in DOMAIN service /\ i + 1 # 1
    BY <1>2, <2>1
  <2>. QED
    BY <1>2, <2>2 DEF CallsDistinct
<1>7. SerialsBounded'
  BY DEF SerialsBounded
<1>8. CallsDistinct'
  <2>1. ASSUME NEW a \in DOMAIN service', NEW b \in DOMAIN service', a # b
        PROVE  service'[a].serial # service'[b].serial
    <3>1. a + 1 \in DOMAIN service /\ b + 1 \in DOMAIN service /\ a + 1 # b + 1
      BY <1>2, <2>1
    <3>2. service'[a] = service[a + 1] /\ service'[b] = service[b + 1]
      BY <1>2
    <3>. QED
      BY <3>1, <3>2 DEF CallsDistinct
  <2>. QED
    BY <1>4, <1>5, <2>1 DEF CallsDistinct
<1>9. \A i \in DOMAIN inbox : inbox[i].what = "return" => inbox[i].serial # r.serial
  BY <1>3 DEF ReturnsDue
<1>10. InOrder'
  <2>1. ASSUME NEW i \in DOMAIN inbox', NEW j \in DOMAIN inbox', i < j,
               inbox'[i].serial = inbox'[j].serial,
               inbox'[i].what # "gone", inbox'[j].what # "gone"
        PROVE  IsCall(inbox'[i]) /\ inbox'[j].what = "return"
    <3>1. i \in DOMAIN inbox
      BY <1>1, <2>1
    <3>2. CASE j \in DOMAIN inbox
      BY <1>1, <2>1, <3>1, <3>2 DEF InOrder
    <3>3. CASE j \notin DOMAIN inbox
      <4>1. inbox'[j] = r /\ inbox'[i] = inbox[i]
        BY <1>1, <3>1, <3>3
      <4>. QED
        BY <1>9, <2>1, <3>1, <4>1 DEF IsCall
    <3>. QED
      BY <3>2, <3>3
  <2>2. ASSUME NEW i \in DOMAIN inbox', IsCall(inbox'[i])
        PROVE  inbox'[i].serial \notin DOMAIN methodCalls
    <3>1. i \in DOMAIN inbox
      BY <1>1, <2>2 DEF IsCall
    <3>. QED
      BY <1>1, <2>2, <3>1 DEF InOrder
  <2>. QED
    BY <2>1, <2>2 DEF InOrder
<1>11. ReturnsDue'
  <2>. SUFFICES ASSUME NEW i \in DOMAIN inbox', inbox'[i].what = "return"
                PROVE  /\ \/ inbox'[i].serial \in StraySerials
                          \/ \E d \in Clients : inbox'[i].serial \in Sent(d)'
                       /\ \A x \in ToSet(service') : x.serial # inbox'[i].serial
    BY DEF ReturnsDue
  <2>1. CASE i \in DOMAIN inbox
    BY <1>1, <1>3, <1>5, <2>1 DEF ReturnsDue
  <2>2. CASE i \notin DOMAIN inbox
    <3>1. inbox'[i] = r
      BY <1>1, <2>2
    <3>2. Head(service).from \in Clients /\ r.serial \in Sent(Head(service).from)
      BY <1>4, CallFacts DEF CallsDistinct
    <3>. QED
      BY <1>5, <1>6, <3>1, <3>2
  <2>. QED
    BY <2>1, <2>2
<1>12. Awaited'
  BY <1>3, <1>4 DEF Awaited
<1>. QED
  BY <1>7, <1>8, <1>10, <1>11, <1>12

\* A client goes away, or nothing of this changes.
LEMMA PairsGone ==
    ASSUME TypeOK, Pairs, NEW m, m.what = "gone", inbox' \in {inbox, Append(inbox, m)},
           alive' \subseteq alive, UNCHANGED <<monitor, serial, service, methodCalls, missed>>
    PROVE  Pairs'
<1>. USE DEF Pairs
<1>1. /\ Len(inbox) \in Nat /\ DOMAIN inbox = 1..Len(inbox)
      /\ \A i \in DOMAIN inbox : inbox'[i] = inbox[i]
      /\ \A i \in DOMAIN inbox' : i \in DOMAIN inbox \/ (i = Len(inbox) + 1 /\ inbox'[i] = m)
      /\ ToSet(inbox') \subseteq ToSet(inbox) \cup {m} /\ ToSet(inbox) \subseteq ToSet(inbox')
  <2>1. CASE inbox' = inbox
    BY <2>1, CallsFacts
  <2>2. CASE inbox' = Append(inbox, m)
    <3>. DEFINE q == Append(inbox, m)
    <3>1. /\ Len(inbox) \in Nat /\ DOMAIN inbox = 1..Len(inbox) /\ DOMAIN q = 1..Len(inbox) + 1
          /\ \A i \in 1..Len(inbox) + 1 : q[i] = IF i = Len(inbox) + 1 THEN m ELSE inbox[i]
          /\ ToSet(q) = ToSet(inbox) \cup {m}
      BY CallsFacts, AppendFacts
    <3>2. q = inbox'
      BY <2>2
    <3>. HIDE DEF q
    <3>. QED
      BY <3>1, <3>2
  <2>. QED
    BY <2>1, <2>2
<1>2. Known' = Known /\ Calls' = Calls
  BY <1>1 DEF Known, Calls, IsCall
<1>3. \A d : Sent(d)' = Sent(d)
  BY DEF Sent
<1>4. SerialsBounded' /\ CallsDistinct' /\ Awaited'
  BY <1>2, <1>3 DEF SerialsBounded, CallsDistinct, Awaited
<1>5. \A i \in DOMAIN inbox' : inbox'[i].what # "gone" => i \in DOMAIN inbox /\ inbox'[i] = inbox[i]
  BY <1>1
<1>6. InOrder'
  <2>1. \A i \in DOMAIN inbox' : IsCall(inbox'[i]) => inbox'[i].what # "gone"
    BY DEF IsCall
  <2>. QED
    BY <1>5, <2>1 DEF InOrder
<1>7. ReturnsDue'
  BY <1>3, <1>5 DEF ReturnsDue
<1>. QED
  BY <1>4, <1>6, <1>7

\* Messages were read; with them, calls are forgotten that nothing waits for.
LEMMA PairsRead ==
    ASSUME TypeOK, Pairs, NEW d, Reads(d), Known' \subseteq Known,
           \A s \in DOMAIN methodCalls' :
                /\ s \in DOMAIN methodCalls \/ (IsCall(inbox[1]) /\ s = inbox[1].serial)
                /\ methodCalls'[s].serial = s,
           \A m \in ToSet(service) : m.from \in alive \ missed' /\ m \in Known => m \in Known',
           missed \subseteq missed', UNCHANGED <<monitor, serial, service, alive>>
    PROVE  Pairs'
<1>. USE DEF Pairs
<1>1. /\ d \in {1, 2} /\ Len(inbox) \in Nat /\ DOMAIN inbox = 1..Len(inbox)
      /\ DOMAIN inbox' = 1..Len(inbox) - d /\ 1 \in DOMAIN inbox
      /\ \A i \in DOMAIN inbox' : i + d \in DOMAIN inbox /\ 1 < i + d /\ inbox'[i] = inbox[i + d]
      /\ \A i, j \in DOMAIN inbox' : i < j => i + d < j + d
  BY CallsFacts DEF Reads
<1>2. SerialsBounded' /\ Calls' \subseteq Calls /\ \A c : Sent(c)' = Sent(c)
  BY DEF SerialsBounded, Calls, Sent
<1>3. CallsDistinct'
  BY <1>2 DEF CallsDistinct
<1>4. InOrder'
  <2>1. ASSUME NEW i \in DOMAIN inbox', NEW j \in DOMAIN inbox', i < j,
               inbox'[i].serial = inbox'[j].serial,
               inbox'[i].what # "gone", inbox'[j].what # "gone"
        PROVE  IsCall(inbox'[i]) /\ inbox'[j].what = "return"
    BY <1>1, <2>1 DEF InOrder
  <2>2. ASSUME NEW i \in DOMAIN inbox', IsCall(inbox'[i])
        PROVE  inbox'[i].serial \notin DOMAIN methodCalls'
    <3>1. IsCall(inbox[i + d]) /\ inbox[i + d].serial \notin DOMAIN methodCalls
      BY <1>1, <2>2 DEF InOrder
    <3>2. IsCall(inbox[1]) => inbox[i + d].serial # inbox[1].serial
      <4>1. IsCall(inbox[i + d]) => inbox[i + d].what # "gone" /\ inbox[i + d].what # "return"
        BY DEF IsCall
      <4>2. IsCall(inbox[1]) => inbox[1].what # "gone"
        BY DEF IsCall
      <4>. QED
        BY <1>1, <3>1, <4>1, <4>2 DEF InOrder
    <3>. QED
      BY <1>1, <3>1, <3>2
  <2>. QED
    BY <2>1, <2>2 DEF InOrder
<1>5. ReturnsDue'
  BY <1>1, <1>2 DEF ReturnsDue
<1>6. Awaited'
  BY DEF Awaited
<1>. QED
  BY <1>2, <1>3, <1>4, <1>5, <1>6

\* Calls, answers and losses of names that are appended leave the rest as it is.
LEMMA FollowsSend ==
    ASSUME SerialsApart, TypeOK, Pairs, NEW c \in Clients, NEW m \in Call,
           m.from = c, m.serial = serial[c] + 1,
           serial[c] < FirstSerial[c] + MaxCalls[monitor][c],
           inbox' = Append(inbox, m), service' = Append(service, m),
           holds' = IF m.what = "UnInhibit" THEN [holds EXCEPT ![c] = @ \ {m.cookie}] ELSE holds,
           UNCHANGED <<face, active, methodCalls>>,
           NEW d \in Clients, NEW k \in Cookies, Follows(d, k)
    PROVE  Follows(d, k)'
<1>. USE DEF Pairs
<1>1. /\ Len(inbox) \in Nat /\ DOMAIN inbox = 1..Len(inbox) /\ DOMAIN inbox' = 1..Len(inbox) + 1
      /\ \A i \in 1..Len(inbox) + 1 : inbox'[i] = IF i = Len(inbox) + 1 THEN m ELSE inbox[i]
      /\ ToSet(inbox') = ToSet(inbox) \cup {m}
  BY CallsFacts, AppendFacts
<1>2. ToSet(service') = ToSet(service) \cup {m}
  BY CallsFacts, AppendFacts
<1>3. IsCall(m) /\ m.what # "return"
  BY CallFacts DEF IsCall
<1>4. Known' = Known \cup {m}
  BY <1>1, <1>3 DEF Known
<1>5. m.serial \notin StraySerials /\ \A x \in Clients : m.serial \notin Sent(x)
  BY SerialFacts
<1>6. \A i \in DOMAIN inbox : inbox[i].what = "return" => inbox[i].serial # m.serial
  BY <1>5 DEF ReturnsDue
<1>7. \A i \in DOMAIN inbox : inbox'[i] = inbox[i] /\ i \in DOMAIN inbox'
  BY <1>1
<1>8. \A i \in DOMAIN inbox : /\ Grants(i, d, k) <=> Grants(i, d, k)'
                              /\ Releases(i, d, k) <=> Releases(i, d, k)'
  BY <1>4, <1>6, <1>7 DEF Grants, Releases
<1>9. \A i \in DOMAIN inbox' : Grants(i, d, k)' => i \in DOMAIN inbox
  BY <1>1, <1>3 DEF Grants
<1>10. Asked(d, k) => Asked(d, k)'
  BY <1>2 DEF Asked
<1>11. Listed(d)' = Listed(d)
  BY DEF Listed, ActiveOf, Simulates
<1>12. /\ k \in holds'[d] => k \in holds[d]
       /\ k \in holds[d] /\ k \notin holds'[d] => Asked(d, k)'
  BY <1>2 DEF Asked, TypeOK
<1>. QED
  BY <1>7, <1>8, <1>9, <1>10, <1>11, <1>12 DEF Follows

LEMMA FollowsGone ==
    ASSUME TypeOK, NEW m, m.what = "gone", inbox' \in {inbox, Append(inbox, m)},
           UNCHANGED <<face, active, methodCalls, service>>,
           NEW d \in Clients, NEW k \in Cookies, Follows(d, k), holds'[d] = holds[d]
    PROVE  Follows(d, k)'
<1>1. /\ \A i \in DOMAIN inbox : inbox'[i] = inbox[i] /\ i \in DOMAIN inbox'
      /\ \A i \in DOMAIN inbox' : i \in DOMAIN inbox \/ inbox'[i] = m
      /\ ToSet(inbox') \subseteq ToSet(inbox) \cup {m} /\ ToSet(inbox) \subseteq ToSet(inbox')
  <2>1. CASE inbox' = inbox
    BY <2>1
  <2>2. CASE inbox' = Append(inbox, m)
    <3>. DEFINE q == Append(inbox, m)
    <3>1. /\ Len(inbox) \in Nat /\ DOMAIN inbox = 1..Len(inbox) /\ DOMAIN q = 1..Len(inbox) + 1
          /\ \A i \in 1..Len(inbox) + 1 : q[i] = IF i = Len(inbox) + 1 THEN m ELSE inbox[i]
          /\ ToSet(q) = ToSet(inbox) \cup {m}
      BY CallsFacts, AppendFacts
    <3>2. q = inbox'
      BY <2>2
    <3>. HIDE DEF q
    <3>. QED
      BY <3>1, <3>2
  <2>. QED
    BY <2>1, <2>2
<1>2. Known' = Known
  BY <1>1 DEF Known, IsCall
<1>3. \A i \in DOMAIN inbox : /\ Grants(i, d, k) <=> Grants(i, d, k)'
                              /\ Releases(i, d, k) <=> Releases(i, d, k)'
  BY <1>1, <1>2 DEF Grants, Releases
<1>4. \A i \in DOMAIN inbox' : Grants(i, d, k)' => i \in DOMAIN inbox
  BY <1>1 DEF Grants
<1>5. Asked(d, k)' <=> Asked(d, k)
  BY DEF Asked
<1>6. Listed(d)' = Listed(d)
  BY DEF Listed, ActiveOf, Simulates
<1>. QED
  BY <1>1, <1>3, <1>4, <1>5, <1>6 DEF Follows

\* The service answers its oldest call, of which a client that is there is told.
LEMMA FollowsAnswer ==
    ASSUME TypeOK, Pairs, NEW d \in alive \ missed, NEW k \in Cookies, Follows(d, k),
           service # <<>>, service' = Tail(service),
           NEW given, NEW r, r = ReturnOf(Head(service).serial, given),
           inbox' \in {inbox, Append(inbox, r)},
           Head(service).from = d => inbox' = Append(inbox, r),
           holds'[d] = IF Head(service).what = "Inhibit" /\ Head(service).from = d
                       THEN holds[d] \cup {given} ELSE holds[d],
           UNCHANGED <<face, active, methodCalls>>
    PROVE  Follows(d, k)'
<1>. USE DEF Pairs
<1>. DEFINE m == Head(service)
<1>n. PICK n : n = Len(inbox) + 1
  OBVIOUS
<1>0. r.what = "return" /\ r.serial = m.serial /\ r.cookie = given /\ d \in Clients
  BY DEF ReturnOf, TypeOK
<1>1. /\ \A i \in DOMAIN inbox : inbox'[i] = inbox[i] /\ i \in DOMAIN inbox' /\ i < n
      /\ \A i \in DOMAIN inbox' : i \in DOMAIN inbox \/ (i = n /\ inbox'[i] = r)
      /\ m.from = d => n \in DOMAIN inbox' /\ inbox'[n] = r
      /\ ToSet(inbox') \subseteq ToSet(inbox) \cup {r} /\ ToSet(inbox) \subseteq ToSet(inbox')
  <2>. DEFINE q == Append(inbox, r)
  <2>1. /\ Len(inbox) \in Nat /\ DOMAIN inbox = 1..Len(inbox) /\ DOMAIN q = 1..Len(inbox) + 1
        /\ \A i \in 1..Len(inbox) + 1 : q[i] = IF i = Len(inbox) + 1 THEN r ELSE inbox[i]
        /\ ToSet(q) = ToSet(inbox) \cup {r}
    BY CallsFacts, AppendFacts
  <2>2. inbox' = inbox \/ inbox' = q
    OBVIOUS
  <2>3. m.from = d => inbox' = q
    OBVIOUS
  <2>. HIDE DEF q, m
  <2>. QED
    BY <1>n, <2>1, <2>2, <2>3
<1>2. /\ m \in ToSet(service) /\ ToSet(service') \subseteq ToSet(service)
      /\ \A x \in ToSet(service) : x = m \/ x \in ToSet(service')
  BY CallsFacts, TailFacts, ToSetFacts
<1>3. Known' = Known
  BY <1>0, <1>1 DEF Known, IsCall
<1>4. \A i \in DOMAIN inbox : /\ Grants(i, d, k) <=> Grants(i, d, k)'
                              /\ Releases(i, d, k) <=> Releases(i, d, k)'
  BY <1>1, <1>3 DEF Grants, Releases
<1>5. \A x \in Known : x.serial = m.serial => x = m
  BY <1>2 DEF CallsDistinct, Calls
<1>6. m.from = d => m \in Known
  BY <1>2 DEF Awaited
<1>. HIDE DEF m
<1>7. ASSUME NEW i \in DOMAIN inbox', Grants(i, d, k)'
      PROVE  i \in DOMAIN inbox \/ k \in holds'[d]
  <2>. SUFFICES ASSUME i \notin DOMAIN inbox PROVE k \in holds'[d]
    OBVIOUS
  <2>1. inbox'[i] = r
    BY <1>1
  <2>2. k = given /\ m.what = "Inhibit" /\ m.from = d
    BY <1>0, <1>3, <1>5, <1>7, <2>1 DEF Grants
  <2>. QED
    BY <1>0, <2>2 DEF m
<1>8. k \in holds'[d] => k \in holds[d] \/ (n \in DOMAIN inbox' /\ Grants(n, d, k)')
  <2>. SUFFICES ASSUME k \in holds'[d], k \notin holds[d]
                PROVE  n \in DOMAIN inbox' /\ Grants(n, d, k)'
    OBVIOUS
  <2>1. m.what = "Inhibit" /\ m.from = d /\ k = given
    BY <1>0 DEF m
  <2>2. n \in DOMAIN inbox' /\ inbox'[n] = r /\ m \in Known'
    BY <1>1, <1>3, <1>6, <2>1
  <2>3. r.what = "return" /\ r.cookie = k /\ m.serial = r.serial
    BY <1>0, <2>1
  <2>. QED
    BY <2>1, <2>2, <2>3 DEF Grants
<1>9. Asked(d, k) => Asked(d, k)' \/ (n \in DOMAIN inbox' /\ Releases(n, d, k)')
  <2>. SUFFICES ASSUME Asked(d, k), ~Asked(d, k)'
                PROVE  n \in DOMAIN inbox' /\ Releases(n, d, k)'
    OBVIOUS
  <2>1. m.what = "UnInhibit" /\ m.from = d /\ m.cookie = k
    BY <1>2 DEF Asked
  <2>2. n \in DOMAIN inbox' /\ inbox'[n] = r /\ m \in Known'
    BY <1>1, <1>3, <1>6, <2>1
  <2>3. r.what = "return" /\ m.serial = r.serial
    BY <1>0
  <2>. QED
    BY <2>1, <2>2, <2>3 DEF Releases
<1>10. Listed(d)' = Listed(d)
  BY DEF Listed, ActiveOf, Simulates
<1>11. k \in holds[d] => k \in holds'[d]
  BY <1>0
<1>g. \A i \in DOMAIN inbox : i \in DOMAIN inbox' /\ i < n
  BY <1>1
<1>12. k \in holds'[d] => k \in Listed(d)' \/ \E i \in DOMAIN inbox' : Grants(i, d, k)'
  <2>. SUFFICES ASSUME k \in holds[d], k \notin Listed(d)
                PROVE  \E i \in DOMAIN inbox' : Grants(i, d, k)'
    BY <1>8, <1>10
  <2>1. PICK i \in DOMAIN inbox : Grants(i, d, k)
    BY DEF Follows
  <2>. QED
    BY <1>4, <1>g, <2>1
<1>13. k \in Listed(d)' \ holds'[d] => Asked(d, k)' \/ \E i \in DOMAIN inbox' : Releases(i, d, k)'
  <2>. SUFFICES ASSUME k \in Listed(d) \ holds[d], ~Asked(d, k)
                PROVE  \E i \in DOMAIN inbox' : Releases(i, d, k)'
    BY <1>9, <1>10, <1>11
  <2>1. PICK i \in DOMAIN inbox : Releases(i, d, k)
    BY DEF Follows
  <2>. QED
    BY <1>4, <1>g, <2>1
<1>14. ASSUME NEW i \in DOMAIN inbox', Grants(i, d, k)', k \notin holds'[d]
       PROVE  Asked(d, k)' \/ \E j \in DOMAIN inbox' : i < j /\ Releases(j, d, k)'
  <2>1. i \in DOMAIN inbox /\ k \notin holds[d]
    BY <1>7, <1>11, <1>14
  <2>2. Grants(i, d, k) /\ i < n
    BY <1>4, <1>g, <1>14, <2>1
  <2>3. CASE Asked(d, k)
    BY <1>9, <2>2, <2>3
  <2>4. CASE ~Asked(d, k)
    <3>1. PICK j \in DOMAIN inbox : i < j /\ Releases(j, d, k)
      BY <2>1, <2>2, <2>4 DEF Follows
    <3>. QED
      BY <1>4, <1>g, <3>1
  <2>. QED
    BY <2>3, <2>4
<1>. QED
  BY <1>12, <1>13, <1>14 DEF Follows

\* The service drops a call that is no release.
LEMMA FollowsError ==
    ASSUME TypeOK, NEW d \in Clients, NEW k \in Cookies, Follows(d, k),
           service # <<>>, Head(service).what # "UnInhibit", service' = Tail(service),
           UNCHANGED <<face, active, holds, inbox, methodCalls>>
    PROVE  Follows(d, k)'
<1>1. /\ ToSet(service') \subseteq ToSet(service)
      /\ \A x \in ToSet(service) : x = Head(service) \/ x \in ToSet(service')
  BY CallsFacts, TailFacts, ToSetFacts
<1>2. Asked(d, k)' <=> Asked(d, k)
  BY <1>1 DEF Asked
<1>3. Known' = Known /\ Listed(d)' = Listed(d)
  BY DEF Known, Listed, ActiveOf, Simulates
<1>4. \A i : /\ Grants(i, d, k)' <=> Grants(i, d, k)
             /\ Releases(i, d, k)' <=> Releases(i, d, k)
  BY <1>3 DEF Grants, Releases
<1>. QED
  BY <1>2, <1>3, <1>4 DEF Follows

\* Messages were read, and what the first of them says was done.
LEMMA FollowsRead ==
    ASSUME TypeOK, Pairs, NEW d, Reads(d), NEW c \in Clients, NEW k \in Cookies, Follows(c, k),
           UNCHANGED <<holds, service>>, Known' \subseteq Known,
           \A m \in Known : m.from = c =>
                m \in Known' \/ (inbox[1].what = "return" /\ m.serial = inbox[1].serial),
           d = 2 => ~Grants(2, c, k) /\ ~Releases(2, c, k),
           k \in Listed(c) \ Listed(c)' => k \notin holds[c],
           k \in holds[c] /\ Grants(1, c, k) => k \in Listed(c)',
           k \in Listed(c)' \ Listed(c) => Grants(1, c, k),
           k \in Listed(c)' => ~Releases(1, c, k)
    PROVE  Follows(c, k)'
<1>. USE DEF Pairs
<1>1. /\ d \in {1, 2} /\ Len(inbox) \in Nat /\ DOMAIN inbox = 1..Len(inbox) /\ 1 \in DOMAIN inbox
      /\ DOMAIN inbox' = 1..Len(inbox) - d
      /\ \A i \in DOMAIN inbox' : inbox'[i] = inbox[i + d]
  BY CallsFacts DEF Reads
<1>2. /\ \A i \in DOMAIN inbox : i > d => i - d \in DOMAIN inbox' /\ inbox'[i - d] = inbox[i]
      /\ \A i \in DOMAIN inbox' : i + d \in DOMAIN inbox /\ i + d > d /\ (i + d) - d = i
      /\ \A i \in DOMAIN inbox : i = 1 \/ (d = 2 /\ i = 2) \/ i > d
  BY <1>1
<1>3. ASSUME NEW i \in DOMAIN inbox, i > d, inbox[i].what = "return", inbox[1].what = "return"
      PROVE  inbox[i].serial # inbox[1].serial
  <2>1. 1 < i
    BY <1>1, <1>3
  <2>. QED
    BY <1>1, <1>3, <2>1 DEF InOrder, IsCall
<1>4. ASSUME NEW i \in DOMAIN inbox, i > d
      PROVE  /\ Grants(i, c, k) <=> Grants(i - d, c, k)'
             /\ Releases(i, c, k) <=> Releases(i - d, c, k)'
  <2>1. inbox'[i - d] = inbox[i]
    BY <1>2, <1>4
  <2>2. ASSUME inbox[i].what = "return", NEW m, m.from = c, m.serial = inbox[i].serial
        PROVE  m \in Known <=> m \in Known'
    BY <1>3, <1>4, <2>2
  <2>. QED
    BY <2>1, <2>2 DEF Grants, Releases
<1>5. Asked(c, k)' <=> Asked(c, k)
  BY DEF Asked
<1>6. /\ \A i \in DOMAIN inbox : Releases(i, c, k) /\ k \in Listed(c)' => i > d
      /\ \A i \in DOMAIN inbox : Grants(i, c, k) => i = 1 \/ i > d
  BY <1>2
<1>7. k \in holds'[c] => k \in Listed(c)' \/ \E i \in DOMAIN inbox' : Grants(i, c, k)'
  <2>. SUFFICES ASSUME k \in holds[c], k \notin Listed(c)'
                PROVE  \E i \in DOMAIN inbox' : Grants(i, c, k)'
    OBVIOUS
  <2>1. PICK i \in DOMAIN inbox : Grants(i, c, k)
    BY DEF Follows
  <2>2. i > d
    BY <1>6, <2>1
  <2>. QED
    BY <1>2, <1>4, <2>1, <2>2
<1>8. k \in Listed(c)' \ holds'[c] => Asked(c, k)' \/ \E i \in DOMAIN inbox' : Releases(i, c, k)'
  <2>. SUFFICES ASSUME k \in Listed(c)', k \notin holds[c], ~Asked(c, k)
                PROVE  \E i \in DOMAIN inbox' : Releases(i, c, k)'
    BY <1>5
  <2>1. PICK i \in DOMAIN inbox : Releases(i, c, k)
    <3>1. CASE k \in Listed(c)
      BY <3>1 DEF Follows
    <3>2. CASE k \notin Listed(c)
      BY <1>1, <3>2 DEF Follows
    <3>. QED
      BY <3>1, <3>2
  <2>2. i > d
    BY <1>6, <2>1
  <2>. QED
    BY <1>2, <1>4, <2>1, <2>2
<1>9. ASSUME NEW i \in DOMAIN inbox', Grants(i, c, k)', k \notin holds'[c], ~Asked(c, k)'
      PROVE  \E j \in DOMAIN inbox' : i < j /\ Releases(j, c, k)'
  <2>1. i + d \in DOMAIN inbox /\ Grants(i + d, c, k)
    <3>1. i + d \in DOMAIN inbox /\ i + d > d /\ (i + d) - d = i
      BY <1>2
    <3>. QED
      BY <1>4, <1>9, <3>1
  <2>2. PICK j \in DOMAIN inbox : i + d < j /\ Releases(j, c, k)
    BY <1>5, <1>9, <2>1 DEF Follows
  <2>3. j > d /\ i < j - d
    BY <1>1, <2>1, <2>2
  <2>. QED
    BY <1>2, <1>4, <2>2, <2>3
<1>. QED
  BY <1>7, <1>8, <1>9 DEF Follows

LEMMA FollowsSame ==
    ASSUME NEW d \in Clients, NEW k \in Cookies, Follows(d, k),
           UNCHANGED <<holds, inbox, service, methodCalls>>,
           k \in Listed(d)' <=> k \in Listed(d)
    PROVE  Follows(d, k)'
<1>1. Known' = Known
  BY DEF Known
<1>2. \A i : /\ Grants(i, d, k)' <=> Grants(i, d, k)
             /\ Releases(i, d, k)' <=> Releases(i, d, k)
  BY <1>1 DEF Grants, Releases
<1>3. Asked(d, k)' <=> Asked(d, k)
  BY DEF Asked
<1>. QED
  BY <1>2, <1>3 DEF Follows

\* The cookies that the registry D has for a client.
CookiesIn(D, c) == {id.cookie : id \in {i \in D : i.sender = c}}

LEMMA CookiesInFacts ==
    ASSUME NEW D \in SUBSET Id, NEW c, NEW x
    PROVE  x \in CookiesIn(D, c) <=> [sender |-> c, cookie |-> x] \in D
<1>1. ASSUME NEW id \in D, id.sender = c, id.cookie = x
      PROVE  id = [sender |-> c, cookie |-> x]
  BY <1>1 DEF Id
<1>2. [sender |-> c, cookie |-> x].sender = c /\ [sender |-> c, cookie |-> x].cookie = x
  OBVIOUS
<1>. QED
  BY <1>1, <1>2 DEF CookiesIn

LEMMA ListedFacts ==
    ASSUME TypeOK, DOMAIN active' \in SUBSET Id, face' = face, NEW c, NEW x
    PROVE  /\ x \in Listed(c) <=>
                    [sender |-> c, cookie |-> x] \in DOMAIN active /\ (Simulates => x # 0)
           /\ x \in Listed(c)' <=>
                    [sender |-> c, cookie |-> x] \in DOMAIN active' /\ (Simulates => x # 0)
<1>1. Listed(c) = CookiesIn(DOMAIN active, c) \ (IF Simulates THEN {0} ELSE {})
  BY DEF Listed, ActiveOf, CookiesIn
<1>2. Listed(c)' = CookiesIn(DOMAIN active', c) \ (IF Simulates THEN {0} ELSE {})
  BY DEF Listed, ActiveOf, CookiesIn, Simulates
<1>3. DOMAIN active \in SUBSET Id
  BY DEF TypeOK
<1>4. x \in CookiesIn(DOMAIN active, c) <=> [sender |-> c, cookie |-> x] \in DOMAIN active
  BY <1>3, CookiesInFacts
<1>5. x \in CookiesIn(DOMAIN active', c) <=> [sender |-> c, cookie |-> x] \in DOMAIN active'
  BY CookiesInFacts
<1>. QED
  BY <1>1, <1>2, <1>4, <1>5

\* What the handler of a method does to the cookies of a client.
LEMMA DispatchListed ==
    ASSUME TypeOK, face' = face, NEW m \in Call, NEW k, m.what = "Inhibit" => k \in Cookies,
           NEW thrown, Dispatch(m, k, thrown), NEW c \in Clients, NEW x
    PROVE  /\ m.what = "Inhibit" =>
                (x \in Listed(c)' <=> x \in Listed(c) \/ (c = m.from /\ x = k /\ (Simulates => x # 0)))
           /\ m.what = "UnInhibit" =>
                (x \in Listed(c)' <=> x \in Listed(c) /\ ~(c = m.from /\ x = m.cookie))
           /\ m.what \notin {"Inhibit", "UnInhibit"} => (x \in Listed(c)' <=> x \in Listed(c))
<1>. DEFINE id == [sender |-> c, cookie |-> x]
<1>0. m.from \in Clients /\ m.cookie \in Cookies /\ 0 \in Cookies /\ m.what \in Members
  BY CallFacts, BoundsAssumption DEF Cookies
<1>1. CASE m.what = "Inhibit" /\ OnInhibit(m, k, thrown)
  <2>1. DOMAIN active' = DOMAIN active \cup {[sender |-> m.from, cookie |-> k]}
    BY <1>1 DEF OnInhibit, Register, MapInsert
  <2>2. DOMAIN active' \in SUBSET Id
    BY <1>0, <1>1, <2>1 DEF TypeOK, Id
  <2>3. id = [sender |-> m.from, cookie |-> k] <=> c = m.from /\ x = k
    OBVIOUS
  <2>4. /\ x \in Listed(c) <=> id \in DOMAIN active /\ (Simulates => x # 0)
        /\ x \in Listed(c)' <=> id \in DOMAIN active' /\ (Simulates => x # 0)
    BY <2>2, ListedFacts
  <2>. HIDE DEF id
  <2>. QED
    BY <1>1, <2>1, <2>3, <2>4
<1>2. CASE m.what = "UnInhibit" /\ OnUnInhibit(m)
  <2>1. DOMAIN active' = DOMAIN active \ {[sender |-> m.from, cookie |-> m.cookie]}
    BY <1>2 DEF OnUnInhibit, MapErase
  <2>2. DOMAIN active' \in SUBSET Id
    BY <2>1 DEF TypeOK
  <2>3. id = [sender |-> m.from, cookie |-> m.cookie] <=> c = m.from /\ x = m.cookie
    OBVIOUS
  <2>4. /\ x \in Listed(c) <=> id \in DOMAIN active /\ (Simulates => x # 0)
        /\ x \in Listed(c)' <=> id \in DOMAIN active' /\ (Simulates => x # 0)
    BY <2>2, ListedFacts
  <2>. HIDE DEF id
  <2>. QED
    BY <1>2, <2>1, <2>3, <2>4
<1>3. CASE m.what = "SimulateUserActivity" /\ OnSimActivity(m, thrown)
  <2>1. DOMAIN active' = DOMAIN active \cup {[sender |-> m.from, cookie |-> 0]}
    BY <1>3 DEF OnSimActivity, MapInsert, ActivityId
  <2>2. DOMAIN active' \in SUBSET Id
    BY <1>0, <2>1 DEF TypeOK, Id
  <2>3. id = [sender |-> m.from, cookie |-> 0] => x = 0
    OBVIOUS
  <2>4. /\ x \in Listed(c) <=> id \in DOMAIN active /\ (Simulates => x # 0)
        /\ x \in Listed(c)' <=> id \in DOMAIN active' /\ (Simulates => x # 0)
    BY <2>2, ListedFacts
  <2>5. Simulates
    BY <1>0, <1>3 DEF Members
  <2>. HIDE DEF id
  <2>. QED
    BY <1>3, <2>1, <2>3, <2>4, <2>5
<1>. QED
  BY <1>1, <1>2, <1>3 DEF Dispatch

\* The loss of a name takes nothing of anybody else, and an expiry no cookie.
LEMMA LostListed ==
    ASSUME TypeOK, OwnersApart, HandleNameLost,
           NEW c \in Clients, c # Head(inbox).from, NEW x
    PROVE  x \in Listed(c)' <=> x \in Listed(c)
<1>. DEFINE id == [sender |-> c, cookie |-> x]
            lost == Head(inbox).from
<1>1. DOMAIN active' = DOMAIN active \ ReleasedWith(lost) /\ face' = face
  BY DEF HandleNameLost, config
<1>2. id \notin ReleasedWith(lost)
  <2>1. ASSUME NEW e \in ReleasedWith(lost)
        PROVE  e.sender = lost \/ e.sender = ""
    <3>1. lost \in DOMAIN owners /\ e \in ToSet(owners[lost])
      BY DEF ReleasedWith, OwnersOf, ToSet
    <3>2. e.sender = lost \/ e = EmptyId
      BY <3>1 DEF OwnersApart
    <3>3. EmptyId.sender = ""
      BY DEF EmptyId
    <3>. QED
      BY <3>2, <3>3
  <2>2. id.sender = c /\ c # ""
    BY ClientsAssumption
  <2>. QED
    BY <2>1, <2>2
<1>3. DOMAIN active' \in SUBSET Id
  BY <1>1 DEF TypeOK
<1>4. /\ x \in Listed(c) <=> id \in DOMAIN active /\ (Simulates => x # 0)
      /\ x \in Listed(c)' <=> id \in DOMAIN active' /\ (Simulates => x # 0)
  BY <1>1, <1>3, ListedFacts
<1>. HIDE DEF id
<1>. QED
  BY <1>1, <1>2, <1>4

LEMMA PollListed ==
    ASSUME TypeOK, Poll, NEW c \in Clients, NEW x
    PROVE  x \in Listed(c)' <=> x \in Listed(c)
<1>. DEFINE id == [sender |-> c, cookie |-> x]
            old == {i \in DOMAIN active : Expired(i)}
<1>1. DOMAIN active' = DOMAIN active \ old /\ Simulates /\ face' = face
  BY DEF Poll, config
<1>2. id \in old => x = 0
  BY DEF Expired
<1>3. DOMAIN active' \in SUBSET Id
  BY <1>1 DEF TypeOK
<1>4. /\ x \in Listed(c) <=> id \in DOMAIN active /\ (Simulates => x # 0)
      /\ x \in Listed(c)' <=> id \in DOMAIN active' /\ (Simulates => x # 0)
  BY <1>1, <1>3, ListedFacts
<1>. HIDE DEF id, old
<1>. QED
  BY <1>1, <1>2, <1>4

LEMMA ClientCalls ==
    ASSUME TypeOK, NEW c \in Clients,
           ClientInhibit(c) \/ ClientUnInhibit(c) \/ ClientSimulate(c)
    PROVE  \E m \in Call :
                /\ m.from = c /\ m.serial = serial[c] + 1
                /\ serial[c] < FirstSerial[c] + MaxCalls[monitor][c]
                /\ serial' = [serial EXCEPT ![c] = @ + 1]
                /\ inbox' = IF link # NONE THEN Append(inbox, m) ELSE inbox
                /\ service' = IF OwnsName THEN service ELSE Append(service, m)
                /\ holds' = IF m.what = "UnInhibit" THEN [holds EXCEPT ![c] = @ \ {m.cookie}]
                            ELSE holds
                /\ UNCHANGED <<config, alive, daemonVars>>
<1>1. PICK what \in {"Inhibit", "UnInhibit", "SimulateUserActivity"}, k \in Cookies :
        /\ Send(c, what, k)
        /\ \/ what # "UnInhibit" /\ holds' = holds
           \/ what = "UnInhibit" /\ holds' = [holds EXCEPT ![c] = @ \ {k}]
  <2>1. 0 \in Cookies /\ \A d \in Clients : holds[d] \subseteq Cookies
    BY BoundsAssumption DEF Cookies, TypeOK
  <2>2. CASE ClientInhibit(c)
    <3>1. Send(c, "Inhibit", 0) /\ holds' = holds
      BY <2>2 DEF ClientInhibit
    <3>. QED
      BY <2>1, <3>1
  <2>3. CASE ClientUnInhibit(c)
    <3>1. PICK k \in UNION {holds[d] : d \in Clients} :
            Send(c, "UnInhibit", k) /\ holds' = [holds EXCEPT ![c] = @ \ {k}]
      BY <2>3 DEF ClientUnInhibit
    <3>2. k \in Cookies
      BY <2>1
    <3>. QED
      BY <3>1, <3>2
  <2>4. CASE ClientSimulate(c)
    <3>1. Send(c, "SimulateUserActivity", 0) /\ holds' = holds
      BY <2>4 DEF ClientSimulate
    <3>. QED
      BY <2>1, <3>1
  <2>. QED
    BY <2>2, <2>3, <2>4
<1>. DEFINE m == [what |-> what, from |-> c, serial |-> serial[c] + 1, cookie |-> k]
<1>2. m \in Call /\ m.what = what /\ m.cookie = k
  <2>1. what \in Members /\ serial[c] + 1 \in Nat
    BY <1>1 DEF Send, TypeOK
  <2>. QED
    BY <2>1 DEF Call
<1>3. /\ m.from = c /\ m.serial = serial[c] + 1
      /\ serial[c] < FirstSerial[c] + MaxCalls[monitor][c]
      /\ serial' = [serial EXCEPT ![c] = @ + 1]
      /\ inbox' = IF link # NONE THEN Append(inbox, m) ELSE inbox
      /\ service' = IF OwnsName THEN service ELSE Append(service, m)
      /\ UNCHANGED <<config, alive, daemonVars>>
  BY <1>1 DEF Send
<1>. HIDE DEF m
<1>. QED
  BY <1>1, <1>2, <1>3

LEMMA HandledReads ==
    ASSUME TypeOK, inbox # <<>>, NEW thrown, Handled(thrown)
    PROVE  \/ Reads(1) /\ missed' = missed
           \/ Reads(2) /\ missed' = missed \cup About(inbox[2])
<1>. DEFINE q == Tail(inbox)
<1>1. /\ Len(inbox) \in Nat \ {0}
      /\ q \in Seq(Message) /\ Len(q) = Len(inbox) - 1 /\ DOMAIN q = 1..Len(inbox) - 1
      /\ \A i \in 1..Len(inbox) - 1 : q[i] = inbox[i + 1]
  BY CallsFacts, TailFacts
<1>2. CASE inbox' = q /\ UNCHANGED missed
  <2>. HIDE DEF q
  <2>. QED
    BY <1>1, <1>2 DEF Reads
<1>3. CASE Len(inbox) > 1 /\ inbox' = Tail(q) /\ missed' = missed \cup About(inbox[2])
  <2>. HIDE DEF q
  <2>1. q # <<>>
    <3>1. Len(q) # 0
      BY <1>1, <1>3
    <3>. QED
      BY <1>1, <3>1, EmptySeq
  <2>2. DOMAIN inbox' = 1..Len(q) - 1 /\ \A i \in 1..Len(q) - 1 : inbox'[i] = q[i + 1]
    BY <1>1, <1>3, <2>1, TailFacts
  <2>3. DOMAIN inbox' = 1..Len(inbox) - 2
    BY <1>1, <2>2
  <2>4. ASSUME NEW i \in DOMAIN inbox'
        PROVE  inbox'[i] = inbox[i + 2]
    <3>1. i \in 1..Len(q) - 1 /\ i + 1 \in 1..Len(inbox) - 1 /\ (i + 1) + 1 = i + 2
      BY <1>1, <2>2
    <3>2. inbox'[i] = q[i + 1] /\ q[i + 1] = inbox[(i + 1) + 1]
      BY <1>1, <2>2, <3>1
    <3>. QED
      BY <3>1, <3>2
  <2>5. 2 \in {1, 2} /\ Len(inbox) >= 2
    BY <1>1, <1>3
  <2>6. Reads(2)
    BY <2>3, <2>4, <2>5 DEF Reads
  <2>. QED
    BY <1>3, <2>6
<1>. QED
  BY <1>2, <1>3 DEF Handled

\* What becomes of the calls when messages are read and calls are forgotten.
LEMMA ReadsKnown ==
    ASSUME TypeOK, NEW d, Reads(d),
           \A s \in DOMAIN methodCalls' : s \in DOMAIN methodCalls /\ methodCalls'[s] = methodCalls[s]
    PROVE  /\ Known' \subseteq Known
           /\ \A m \in Known :
                \/ m \in Known'
                \/ \E s \in DOMAIN methodCalls \ DOMAIN methodCalls' : m = methodCalls[s]
                \/ m = inbox[1] \/ (d = 2 /\ m = inbox[2])
<1>1. /\ d \in {1, 2} /\ Len(inbox) \in Nat /\ DOMAIN inbox = 1..Len(inbox)
      /\ DOMAIN inbox' = 1..Len(inbox) - d
      /\ \A i \in DOMAIN inbox' : i + d \in DOMAIN inbox /\ inbox'[i] = inbox[i + d]
  BY CallsFacts DEF Reads
<1>2. ToSet(inbox') \subseteq ToSet(inbox)
  BY <1>1 DEF ToSet
<1>3. ASSUME NEW m \in ToSet(inbox)
      PROVE  m \in ToSet(inbox') \/ m = inbox[1] \/ (d = 2 /\ m = inbox[2])
  <2>1. PICK i \in DOMAIN inbox : m = inbox[i]
    BY DEF ToSet
  <2>2. i > d => i - d \in DOMAIN inbox' /\ inbox'[i - d] = inbox[i]
    BY <1>1
  <2>3. i > d \/ i = 1 \/ (d = 2 /\ i = 2)
    BY <1>1
  <2>. QED
    BY <2>1, <2>2, <2>3 DEF ToSet
<1>. QED
  BY <1>2, <1>3 DEF Known

LEMMA PairsSame ==
    ASSUME Pairs, UNCHANGED <<monitor, serial, inbox, service, methodCalls, alive, missed>>
    PROVE  Pairs'
<1>1. Known' = Known /\ Calls' = Calls /\ \A c : Sent(c)' = Sent(c)
  BY DEF Known, Calls, Sent
<1>. QED
  BY <1>1 DEF Pairs, SerialsBounded, CallsDistinct, InOrder, ReturnsDue, Awaited

\* A call with the serial of a return, before which no call comes, was read already.
LEMMA CallOfReturn ==
    ASSUME TypeOK, Pairs, NEW i \in DOMAIN inbox, inbox[i].what = "return",
           \A j \in DOMAIN inbox : j < i => ~IsCall(inbox[j]),
           NEW m \in Known, m.serial = inbox[i].serial
    PROVE  m.serial \in DOMAIN methodCalls /\ m = methodCalls[m.serial]
<1>1. CASE \E s \in DOMAIN methodCalls : m = methodCalls[s]
  BY <1>1 DEF Pairs, InOrder
<1>2. CASE m \in ToSet(inbox) /\ IsCall(m)
  <2>1. PICK j \in DOMAIN inbox : m = inbox[j]
    BY <1>2 DEF ToSet
  <2>2. i < j
    BY <1>2, <2>1, CallsFacts DEF IsCall
  <2>3. inbox[j].what # "gone" /\ inbox[i].what # "gone" /\ ~IsCall(inbox[i])
    BY <1>2, <2>1 DEF IsCall
  <2>. QED
    BY <2>1, <2>2, <2>3 DEF Pairs, InOrder
<1>. QED
  BY <1>1, <1>2 DEF Known

\* One message was read, and no call forgotten.
LEMMA ReadOne ==
    ASSUME TypeOK, inbox # <<>>, inbox' = Tail(inbox), methodCalls' = methodCalls,
           ~IsCall(Head(inbox))
    PROVE  Reads(1) /\ Known' = Known /\ inbox[1] = Head(inbox)
<1>1. /\ Len(inbox) \in Nat \ {0} /\ Head(inbox) = inbox[1]
      /\ DOMAIN inbox' = 1..Len(inbox) - 1
      /\ \A i \in 1..Len(inbox) - 1 : inbox'[i] = inbox[i + 1]
      /\ \A x \in ToSet(inbox) : x = Head(inbox) \/ x \in ToSet(inbox')
  BY CallsFacts, TailFacts
<1>2. ToSet(inbox') \subseteq ToSet(inbox)
  BY CallsFacts, ToSetFacts
<1>. QED
  BY <1>1, <1>2 DEF Reads, Known

\* A monitor with what it overhears, step by step.
LEMMA OverheardCall ==
    ASSUME SerialsApart, TypeOK, Overhears, Pairs, NEW c \in Clients,
           ClientInhibit(c) \/ ClientUnInhibit(c) \/ ClientSimulate(c)
    PROVE  /\ Pairs'
           /\ \A d \in alive' \ missed', k \in Cookies : Follows(d, k) => Follows(d, k)'
<1>1. PICK m \in Call :
        /\ m.from = c /\ m.serial = serial[c] + 1
        /\ serial[c] < FirstSerial[c] + MaxCalls[monitor][c]
        /\ serial' = [serial EXCEPT ![c] = @ + 1]
        /\ inbox' = IF link # NONE THEN Append(inbox, m) ELSE inbox
        /\ service' = IF OwnsName THEN service ELSE Append(service, m)
        /\ holds' = IF m.what = "UnInhibit" THEN [holds EXCEPT ![c] = @ \ {m.cookie}] ELSE holds
        /\ UNCHANGED <<config, alive, daemonVars>>
  BY ClientCalls
<1>2. /\ inbox' = Append(inbox, m) /\ service' = Append(service, m)
      /\ UNCHANGED <<monitor, face, active, methodCalls, alive, missed>>
  BY <1>1 DEF Overhears, OwnsName, config, daemonVars
<1>3. Pairs'
  BY <1>1, <1>2, PairsSend
<1>4. alive' \ missed' \subseteq Clients
  BY <1>2 DEF TypeOK
<1>. QED
  BY <1>1, <1>2, <1>3, <1>4, FollowsSend

LEMMA OverheardGone ==
    ASSUME TypeOK, Pairs, NEW c \in Clients, ClientGone(c)
    PROVE  /\ Pairs'
           /\ \A d \in alive' \ missed', k \in Cookies : Follows(d, k) => Follows(d, k)'
<1>1. PICK m : m = [what |-> "gone", from |-> c, serial |-> 0, cookie |-> 0]
  OBVIOUS
<1>2. /\ m.what = "gone" /\ inbox' \in {inbox, Append(inbox, m)} /\ alive' \subseteq alive
      /\ UNCHANGED <<monitor, face, serial, service, active, methodCalls, missed>>
  BY <1>1 DEF ClientGone, config, daemonVars
<1>3. \A d \in alive' : d \in Clients /\ holds'[d] = holds[d]
  BY DEF ClientGone, TypeOK
<1>4. Pairs'
  BY <1>2, PairsGone
<1>. QED
  BY <1>2, <1>3, <1>4, FollowsGone

LEMMA OverheardAnswer ==
    ASSUME SerialsApart, TypeOK, Overhears, Pairs, ServiceAnswer
    PROVE  /\ Pairs'
           /\ \A d \in alive' \ missed', k \in Cookies : Follows(d, k) => Follows(d, k)'
<1>1. PICK m : m = Head(service)
  OBVIOUS
<1>2. PICK given : given = IF m.what = "Inhibit" THEN svcCookie + 1 ELSE Nothing
  OBVIOUS
<1>3. PICK r : r = ReturnOf(m.serial, given)
  OBVIOUS
<1>4. /\ service # <<>> /\ service' = Tail(service)
      /\ holds' = IF m.what = "Inhibit" /\ m.from \in alive
                  THEN [holds EXCEPT ![m.from] = @ \cup {given}] ELSE holds
      /\ inbox' \in {inbox, Append(inbox, r)}
      /\ m.from \in alive => inbox' = Append(inbox, r)
      /\ UNCHANGED <<monitor, face, alive, serial, active, methodCalls, missed>>
  BY <1>1, <1>2, <1>3 DEF ServiceAnswer, Overhears, config, daemonVars
<1>5. r.what = "return" /\ r.serial = m.serial
  BY <1>3 DEF ReturnOf
<1>6. Pairs'
  BY <1>1, <1>4, <1>5, PairsAnswer
<1>7. ASSUME NEW d \in alive' \ missed', NEW k \in Cookies, Follows(d, k)
      PROVE  Follows(d, k)'
  <2>1. d \in alive \ missed /\ d \in Clients
    BY <1>4 DEF TypeOK
  <2>2. holds'[d] = IF m.what = "Inhibit" /\ m.from = d THEN holds[d] \cup {given} ELSE holds[d]
    BY <1>4, <2>1 DEF TypeOK
  <2>. QED
    BY <1>1, <1>3, <1>4, <1>7, <2>1, <2>2, FollowsAnswer
<1>. QED
  BY <1>6, <1>7

LEMMA OverheardError ==
    ASSUME SerialsApart, TypeOK, Pairs, ServiceError
    PROVE  /\ Pairs'
           /\ \A d \in alive' \ missed', k \in Cookies : Follows(d, k) => Follows(d, k)'
<1>1. PICK r : r = ReturnOf(Head(service).serial, Nothing)
  OBVIOUS
<1>2. /\ service # <<>> /\ service' = Tail(service) /\ Head(service).what # "UnInhibit"
      /\ UNCHANGED <<monitor, face, alive, serial, holds, inbox, active, methodCalls, missed>>
  BY DEF ServiceError, config, clientVars, daemonVars
<1>3. r.what = "return" /\ r.serial = Head(service).serial
  BY <1>1 DEF ReturnOf
<1>4. Pairs'
  BY <1>2, <1>3, PairsAnswer
<1>5. alive' \ missed' \subseteq Clients
  BY <1>2 DEF TypeOK
<1>. QED
  BY <1>2, <1>4, <1>5, FollowsError

\* A return that is not for us pairs with nothing.
LEMMA OverheardStray ==
    ASSUME SerialsApart, TypeOK, Pairs, StrayReturn
    PROVE  /\ Pairs'
           /\ \A d \in alive' \ missed', k \in Cookies : Follows(d, k) => Follows(d, k)'
<1>1. /\ inbox = <<>> /\ service = <<>>
      /\ UNCHANGED <<monitor, face, alive, serial, holds, service, active, methodCalls, missed>>
  BY DEF StrayReturn, config, clientVars, daemonVars
<1>2. PICK s \in StraySerials : inbox' = <<ReturnOf(s, 1)>>
  BY DEF StrayReturn
<1>3. /\ DOMAIN inbox' = {1} /\ inbox'[1].what = "return" /\ inbox'[1].serial = s
      /\ DOMAIN inbox = {} /\ ToSet(service) = {}
  <2>1. PICK r : r = ReturnOf(s, 1)
    OBVIOUS
  <2>2. r.what = "return" /\ r.serial = s
    BY <2>1 DEF ReturnOf
  <2>3. inbox' = <<r>>
    BY <1>2, <2>1
  <2>4. DOMAIN inbox' = 1..1 /\ inbox'[1] = r
    BY <2>3
  <2>5. DOMAIN inbox = {} /\ DOMAIN service = {}
    BY <1>1
  <2>. QED
    BY <2>2, <2>4, <2>5 DEF ToSet
<1>4. Known' = Known /\ Calls' = Calls /\ \A c : Sent(c)' = Sent(c)
  BY <1>1, <1>3 DEF Known, Calls, Sent, ToSet, IsCall
<1>5. Pairs'
  BY <1>1, <1>3, <1>4 DEF Pairs, SerialsBounded, CallsDistinct, InOrder, ReturnsDue, Awaited, IsCall, ToSet
<1>6. \A m \in Known : m.serial # s
  <2>1. \A m \in Known : m.from \in Clients /\ m.serial \in Sent(m.from)
    BY CallsFacts, CallFacts DEF Pairs, CallsDistinct, Calls
  <2>. QED
    BY <2>1, SerialFacts DEF Pairs
<1>7. \A i \in DOMAIN inbox' : \A c, k : ~Grants(i, c, k)' /\ ~Releases(i, c, k)'
  BY <1>3, <1>4, <1>6 DEF Grants, Releases
<1>8. \A c, k : (Asked(c, k)' <=> Asked(c, k)) /\ Listed(c)' = Listed(c)
  BY <1>1 DEF Asked, Listed, ActiveOf, Simulates
<1>. QED
  BY <1>1, <1>3, <1>5, <1>7, <1>8 DEF Follows

LEMMA OverheardRecord ==
    ASSUME TypeOK, Pairs, RecordCall
    PROVE  /\ Pairs'
           /\ \A d \in alive' \ missed', k \in Cookies : Follows(d, k) => Follows(d, k)'
<1>1. PICK m : m = Head(inbox)
  OBVIOUS
<1>2. /\ inbox # <<>> /\ inbox' = Tail(inbox) /\ m.what \in Members
      /\ methodCalls' = MapInsert(methodCalls, m.serial, m)
      /\ UNCHANGED <<monitor, face, alive, serial, holds, service, active, missed>>
  BY <1>1 DEF RecordCall, Receive, Oldest, config, clientVars, registryVars
<1>3. /\ Len(inbox) \in Nat \ {0} /\ m = inbox[1] /\ DOMAIN inbox = 1..Len(inbox)
      /\ DOMAIN inbox' = 1..Len(inbox) - 1
      /\ \A i \in 1..Len(inbox) - 1 : inbox'[i] = inbox[i + 1]
      /\ \A x \in ToSet(inbox) : x = m \/ x \in ToSet(inbox')
  BY <1>1, <1>2, CallsFacts, TailFacts
<1>4. ToSet(inbox') \subseteq ToSet(inbox) /\ m \in ToSet(inbox)
  BY <1>1, <1>2, CallsFacts, ToSetFacts
<1>5. Reads(1)
  BY <1>3 DEF Reads
<1>6. IsCall(m) /\ m.what # "return"
  BY <1>2, MemberNames DEF IsCall
<1>7. m.serial \notin DOMAIN methodCalls
  BY <1>3, <1>6 DEF Pairs, InOrder
<1>8. /\ DOMAIN methodCalls' = DOMAIN methodCalls \cup {m.serial} /\ methodCalls'[m.serial] = m
      /\ \A s \in DOMAIN methodCalls : methodCalls'[s] = methodCalls[s]
  BY <1>2, <1>7 DEF MapInsert
<1>9. Known' = Known
  BY <1>3, <1>4, <1>6, <1>8 DEF Known
<1>10. \A s \in DOMAIN methodCalls' :
        /\ s \in DOMAIN methodCalls \/ (IsCall(inbox[1]) /\ s = inbox[1].serial)
        /\ methodCalls'[s].serial = s
  BY <1>3, <1>6, <1>8 DEF Pairs, InOrder
<1>11. Pairs'
  BY <1>2, <1>5, <1>9, <1>10, PairsRead
<1>12. \A d : Listed(d)' = Listed(d)
  BY <1>2 DEF Listed, ActiveOf, Simulates
<1>13. \A d, k : ~Grants(1, d, k) /\ ~Releases(1, d, k)
  BY <1>3, <1>6 DEF Grants, Releases
<1>14. alive' \ missed' \subseteq Clients
  BY <1>2 DEF TypeOK
<1>. QED
  BY <1>2, <1>5, <1>9, <1>11, <1>12, <1>13, <1>14, FollowsRead

LEMMA OverheardIgnore ==
    ASSUME TypeOK, Pairs, IgnoreReturn
    PROVE  /\ Pairs'
           /\ \A d \in alive' \ missed', k \in Cookies : Follows(d, k) => Follows(d, k)'
<1>1. /\ inbox # <<>> /\ inbox' = Tail(inbox) /\ Head(inbox).what = "return"
      /\ Head(inbox).serial \notin DOMAIN methodCalls
      /\ UNCHANGED <<monitor, face, alive, serial, holds, service, active, missed, methodCalls>>
  BY DEF IgnoreReturn, Receive, Oldest, config, clientVars, registryVars
<1>2. Reads(1) /\ Known' = Known /\ inbox[1] = Head(inbox)
  BY <1>1, ReadOne DEF IsCall
<1>3. Pairs'
  BY <1>1, <1>2, PairsRead DEF Pairs, InOrder
<1>4. 1 \in DOMAIN inbox /\ \A j \in DOMAIN inbox : ~(j < 1)
  BY <1>2, CallsFacts DEF Reads
<1>5. \A m \in Known : m.serial # inbox[1].serial
  BY <1>1, <1>2, <1>4, CallOfReturn
<1>6. \A d, k : ~Grants(1, d, k) /\ ~Releases(1, d, k)
  BY <1>5 DEF Grants, Releases
<1>7. \A d : Listed(d)' = Listed(d)
  BY <1>1 DEF Listed, ActiveOf, Simulates
<1>8. alive' \ missed' \subseteq Clients
  BY <1>1 DEF TypeOK
<1>. QED
  BY <1>1, <1>2, <1>3, <1>6, <1>7, <1>8, FollowsRead

LEMMA OverheardLost ==
    ASSUME TypeOK, LastInv, Pairs, HandleNameLost
    PROVE  /\ Pairs'
           /\ \A d \in alive' \ missed', k \in Cookies : Follows(d, k) => Follows(d, k)'
<1>1. /\ inbox # <<>> /\ inbox' = Tail(inbox) /\ Head(inbox).what = "gone"
      /\ UNCHANGED <<monitor, face, alive, serial, holds, service, missed, methodCalls>>
  BY DEF HandleNameLost, Receive, Oldest, config, clientVars
<1>2. Reads(1) /\ Known' = Known /\ inbox[1] = Head(inbox)
  BY <1>1, ReadOne DEF IsCall
<1>3. Pairs'
  BY <1>1, <1>2, PairsRead DEF Pairs, InOrder
<1>4. \A d, k : ~Grants(1, d, k) /\ ~Releases(1, d, k)
  BY <1>1, <1>2 DEF Grants, Releases
<1>5. Head(inbox).from \notin alive /\ OwnersApart
  BY <1>1, CallsFacts, ToSetFacts DEF LastInv, GoneHoldNothing
<1>6. ASSUME NEW d \in alive' \ missed', NEW k \in Cookies, Follows(d, k)
      PROVE  Follows(d, k)'
  <2>1. d \in Clients /\ d # Head(inbox).from
    BY <1>1, <1>5 DEF TypeOK
  <2>2. k \in Listed(d)' <=> k \in Listed(d)
    BY <1>5, <2>1, LostListed
  <2>. QED
    BY <1>1, <1>2, <1>4, <1>6, <2>1, <2>2, FollowsRead
<1>. QED
  BY <1>3, <1>6

\* What a return k does that the recorded call m waited for.
LEMMA ReturnListed ==
    ASSUME TypeOK, face' = face, NEW m \in Call, NEW k \in Cookies \cup {Nothing},
           IF m.what = "Inhibit" /\ k = Nothing THEN UNCHANGED active
           ELSE \E thrown : Dispatch(m, k, thrown),
           NEW c \in Clients, NEW x \in Cookies
    PROVE  /\ m.what = "Inhibit" =>
                (x \in Listed(c)' <=> x \in Listed(c) \/ (c = m.from /\ x = k /\ (Simulates => x # 0)))
           /\ m.what = "UnInhibit" =>
                (x \in Listed(c)' <=> x \in Listed(c) /\ ~(c = m.from /\ x = m.cookie))
           /\ m.what \notin {"Inhibit", "UnInhibit"} => (x \in Listed(c)' <=> x \in Listed(c))
<1>1. Nothing \notin Cookies
  BY BoundsAssumption DEF Nothing, Cookies
<1>2. CASE m.what = "Inhibit" /\ k = Nothing
  <2>1. Listed(c)' = Listed(c)
    BY <1>2 DEF Listed, ActiveOf, Simulates
  <2>. QED
    BY <1>1, <1>2, <2>1
<1>3. CASE ~(m.what = "Inhibit" /\ k = Nothing)
  <2>1. PICK thrown : Dispatch(m, k, thrown)
    BY <1>3
  <2>2. m.what = "Inhibit" => k \in Cookies
    BY <1>3
  <2>. QED
    BY <2>1, <2>2, DispatchListed
<1>. QED
  BY <1>2, <1>3

LEMMA OverheardReturn ==
    ASSUME TypeOK, LastInv, Pairs, HandleReturn
    PROVE  /\ Pairs'
           /\ \A d \in alive' \ missed', k \in Cookies : Follows(d, k) => Follows(d, k)'
<1>1. PICK r, m : r = Head(inbox) /\ m = methodCalls[r.serial]
  OBVIOUS
<1>2. /\ inbox # <<>> /\ r.what = "return" /\ r.serial \in DOMAIN methodCalls
      /\ UNCHANGED <<monitor, face, alive, serial, holds, service>>
  BY <1>1 DEF HandleReturn, Oldest, config, clientVars
<1>3. /\ \E thrown : Handled(thrown)
      /\ methodCalls' \in {methodCalls, MapErase(methodCalls, r.serial)}
  BY <1>1 DEF HandleReturn
<1>4. PICK n \in {1, 2} :
        Reads(n) /\ missed' = IF n = 1 THEN missed ELSE missed \cup About(inbox[2])
  BY <1>2, <1>3, HandledReads
<1>5. /\ \A s \in DOMAIN methodCalls' : s \in DOMAIN methodCalls /\ methodCalls'[s] = methodCalls[s]
      /\ \A s \in DOMAIN methodCalls \ DOMAIN methodCalls' : s = r.serial
  BY <1>3 DEF MapErase
<1>6. /\ r = inbox[1] /\ 1 \in DOMAIN inbox /\ DOMAIN inbox = 1..Len(inbox) /\ Len(inbox) \in Nat
      /\ n = 2 => 2 \in DOMAIN inbox
  BY <1>1, <1>2, <1>4, CallsFacts, TailFacts DEF Reads
<1>7. /\ m \in Known /\ m \in Call /\ m.serial = r.serial
      /\ \A x \in Known : x.serial = r.serial => x = m
  BY <1>1, <1>2, CallsFacts DEF Known, Pairs, InOrder, CallsDistinct, Calls
<1>8. /\ Known' \subseteq Known
      /\ \A x \in Known : x \in Known' \/ x.serial = r.serial \/ (n = 2 /\ x = inbox[2])
  <2>1. \A s \in DOMAIN methodCalls : methodCalls[s].serial = s
    BY DEF Pairs, InOrder
  <2>. QED
    BY <1>4, <1>5, <1>6, <2>1, ReadsKnown
\* Of the second message, if it was swallowed, the client is known.
<1>9. ASSUME n = 2
      PROVE  /\ inbox[2].what # "return" => inbox[2].from \in missed'
             /\ inbox[2].what = "return" =>
                    \A x \in Known : x.serial = inbox[2].serial => x.from \in missed'
  <2>1. About(inbox[2]) \subseteq missed'
    BY <1>4, <1>9
  <2>2. CASE inbox[2].what # "return"
    BY <2>1, <2>2 DEF About
  <2>3. CASE inbox[2].what = "return"
    <3>1. \A j \in DOMAIN inbox : j < 2 => ~IsCall(inbox[j])
      BY <1>2, <1>6 DEF IsCall
    <3>2. \A x \in Known : x.serial = inbox[2].serial =>
            x.serial \in DOMAIN methodCalls /\ x = methodCalls[x.serial]
      BY <1>6, <1>9, <2>3, <3>1, CallOfReturn
    <3>. QED
      BY <2>1, <2>3, <3>2 DEF About
  <2>. QED
    BY <2>2, <2>3
<1>10. \A x \in Known : x.from \notin missed' => x \in Known' \/ x.serial = r.serial
  <2>1. \A x \in Known : x.what # "return"
    BY CallsFacts, CallFacts DEF IsCall
  <2>. QED
    BY <1>8, <1>9, <2>1
<1>11. Pairs'
  <2>1. \A x \in ToSet(service) : x.serial # r.serial
    BY <1>2, <1>6 DEF Pairs, ReturnsDue
  <2>2. \A x \in ToSet(service) : x.from \in alive \ missed' /\ x \in Known => x \in Known'
    BY <1>10, <2>1
  <2>3. missed \subseteq missed'
    BY <1>4
  <2>4. \A s \in DOMAIN methodCalls' : s \in DOMAIN methodCalls /\ methodCalls'[s].serial = s
    BY <1>5 DEF Pairs, InOrder
  <2>. QED
    BY <1>2, <1>4, <1>8, <2>2, <2>3, <2>4, PairsRead
<1>12. ASSUME NEW c \in alive' \ missed', NEW k \in Cookies, Follows(c, k)
       PROVE  Follows(c, k)'
  <2>1. c \in Clients /\ c \notin missed'
    BY <1>2 DEF TypeOK
  <2>2. /\ Grants(1, c, k) <=> m.what = "Inhibit" /\ m.from = c /\ r.cookie = k
        /\ Releases(1, c, k) <=> m.what = "UnInhibit" /\ m.from = c /\ m.cookie = k
    BY <1>2, <1>6, <1>7 DEF Grants, Releases
  <2>3. n = 2 => ~Grants(2, c, k) /\ ~Releases(2, c, k)
    BY <1>9, <2>1 DEF Grants, Releases
  <2>4. /\ m.what = "Inhibit" =>
            (k \in Listed(c)' <=>
                k \in Listed(c) \/ (c = m.from /\ k = r.cookie /\ (Simulates => k # 0)))
        /\ m.what = "UnInhibit" =>
            (k \in Listed(c)' <=> k \in Listed(c) /\ ~(c = m.from /\ k = m.cookie))
        /\ m.what \notin {"Inhibit", "UnInhibit"} => (k \in Listed(c)' <=> k \in Listed(c))
    <3>1. r.cookie \in Cookies \cup {Nothing}
      <4>1. r \in Return
        BY <1>2, <1>6, CallsFacts, CallFacts DEF Message, NameLost, IsCall
      <4>. QED
        BY <4>1 DEF Return
    <3>2. IF m.what = "Inhibit" /\ r.cookie = Nothing THEN UNCHANGED active
          ELSE \E thrown : Dispatch(m, r.cookie, thrown)
      BY <1>1 DEF HandleReturn, registryVars
    <3>. QED
      BY <1>2, <1>7, <2>1, <3>1, <3>2, ReturnListed
  <2>5. m.what = "UnInhibit" => m.cookie \notin holds[m.from]
    BY <1>1, <1>2 DEF LastInv, ReleaseIsDue, Releasing
  <2>6. Simulates => 0 \notin holds[c]
    BY <2>1 DEF LastInv, ZeroIsFree
  <2>7. k \in Listed(c) \ Listed(c)' => k \notin holds[c]
    BY <2>4, <2>5
  <2>8. k \in holds[c] /\ Grants(1, c, k) => k \in Listed(c)'
    BY <2>2, <2>4, <2>6
  <2>9. k \in Listed(c)' \ Listed(c) => Grants(1, c, k)
    BY <2>2, <2>4
  <2>10. k \in Listed(c)' => ~Releases(1, c, k)
    BY <2>2, <2>4
  <2>11. \A x \in Known : x.from = c =>
            x \in Known' \/ (inbox[1].what = "return" /\ x.serial = inbox[1].serial)
    BY <1>2, <1>6, <1>10, <2>1
  <2>. QED
    BY <1>2, <1>4, <1>8, <1>12, <2>1, <2>3, <2>7, <2>8, <2>9, <2>10, <2>11, FollowsRead
<1>. QED
  BY <1>11, <1>12

LEMMA OverheardStep ==
    ASSUME SerialsApart, TypeOK, LastInv, PairInv, OverheardInv, [Next]_vars
    PROVE  PairInv' /\ OverheardInv'
<1>. SUFFICES ASSUME Overhears'
              PROVE  Pairs' /\ \A c \in alive' \ missed', k \in Cookies : Follows(c, k)'
  BY DEF PairInv, OverheardInv
<1>1. Overhears /\ ~OwnsName
  <2>1. monitor' = monitor
    BY DEF Next, Environment, Loop, ClientInhibit, ClientUnInhibit, ClientSimulate, Send, ClientGone,
           ServiceAnswer, ServiceError, NameComes, StrayReturn, Tick, HandleCall, RecordCall,
           HandleReturn, IgnoreReturn, HandleNameLost, Poll, config, vars
  <2>2. ~monitor \/ link' = link
    BY DEF Next, Environment, Loop, ClientInhibit, ClientUnInhibit, ClientSimulate, Send, ClientGone,
           ServiceAnswer, ServiceError, NameComes, StrayReturn, Tick, HandleCall, RecordCall,
           HandleReturn, IgnoreReturn, HandleNameLost, Poll, config, vars
  <2>. QED
    BY <2>1, <2>2 DEF Overhears, OwnsName
<1>2. Pairs /\ \A c \in alive \ missed, k \in Cookies : Follows(c, k)
  BY <1>1 DEF PairInv, OverheardInv
<1>3. alive' \ missed' \subseteq alive \ missed
  BY DEF Next, Environment, Loop, ClientInhibit, ClientUnInhibit, ClientSimulate, Send, ClientGone,
         ServiceAnswer, ServiceError, NameComes, StrayReturn, Tick, HandleCall, RecordCall,
         HandleReturn, IgnoreReturn, HandleNameLost, Poll, Handled, Receive, clientVars, daemonVars, vars
<1>. SUFFICES /\ Pairs'
              /\ \A d \in alive' \ missed', k \in Cookies : Follows(d, k) => Follows(d, k)'
  BY <1>2, <1>3
<1>4. ASSUME NEW c \in Clients,
             ClientInhibit(c) \/ ClientUnInhibit(c) \/ ClientSimulate(c) \/ ClientGone(c)
      PROVE  /\ Pairs'
             /\ \A d \in alive' \ missed', k \in Cookies : Follows(d, k) => Follows(d, k)'
  BY <1>1, <1>2, <1>4, OverheardCall, OverheardGone
<1>5. CASE ServiceAnswer
  BY <1>1, <1>2, <1>5, OverheardAnswer
<1>6. CASE ServiceError
  BY <1>2, <1>6, OverheardError
<1>7. CASE StrayReturn
  BY <1>2, <1>7, OverheardStray
<1>8. CASE NameComes \/ HandleCall
  BY <1>1, <1>8 DEF NameComes, HandleCall, Overhears
<1>9. CASE RecordCall
  BY <1>2, <1>9, OverheardRecord
<1>10. CASE HandleReturn
  BY <1>2, <1>10, OverheardReturn
<1>11. CASE IgnoreReturn
  BY <1>2, <1>11, OverheardIgnore
<1>12. CASE HandleNameLost
  BY <1>2, <1>12, OverheardLost
<1>13. CASE Poll \/ Tick \/ UNCHANGED vars
  <2>1. UNCHANGED <<monitor, serial, holds, inbox, service, methodCalls, alive, missed>>
    BY <1>13 DEF Poll, Tick, config, clientVars, busVars, daemonVars, vars
  <2>2. Pairs'
    BY <1>2, <2>1, PairsSame
  <2>3. ASSUME NEW d \in Clients, NEW k \in Cookies
        PROVE  k \in Listed(d)' <=> k \in Listed(d)
    <3>1. CASE Poll
      BY <3>1, PollListed
    <3>2. CASE Tick \/ UNCHANGED vars
      BY <3>2 DEF Tick, config, daemonVars, vars, Listed, ActiveOf, Simulates
    <3>. QED
      BY <1>13, <3>1, <3>2
  <2>4. alive' \ missed' \subseteq Clients
    BY <2>1 DEF TypeOK
  <2>. QED
    BY <2>1, <2>2, <2>3, <2>4, FollowsSame
<1>. QED
  BY <1>4, <1>5, <1>6, <1>7, <1>8, <1>9, <1>10, <1>11, <1>12, <1>13 DEF Next, Environment, Loop

\* Who owns the name, step by step.
LEMMA GivesBackKnown ==
    ASSUME DOMAIN methodCalls = {}, DOMAIN methodCalls' = {}, NEW c, NEW k
    PROVE  /\ GivesBack(c, k) <=> \E m \in Known : m.what = "UnInhibit" /\ m.from = c /\ m.cookie = k
           /\ GivesBack(c, k)' <=> \E m \in Known' : m.what = "UnInhibit" /\ m.from = c /\ m.cookie = k
BY DEF GivesBack, Known, IsCall

LEMMA ServedCall ==
    ASSUME TypeOK, LastInv, ServedInv, HandleCall,
           NEW c \in alive' \ missed', NEW k \in Cookies
    PROVE  /\ k \in holds'[c] => k \in Listed(c)'
           /\ k \in Listed(c)' \ holds'[c] => GivesBack(c, k)'
<1>1. PICK m : m = Head(inbox)
  OBVIOUS
<1>2. PICK thrown : Dispatch(m, NextCookie, thrown) /\ Handled(thrown)
  BY <1>1 DEF HandleCall
<1>3. /\ OwnsName /\ inbox # <<>> /\ m.what \in Members
      /\ holds' = IF m.what = "Inhibit" /\ m.from \in alive
                  THEN [holds EXCEPT ![m.from] = @ \cup {NextCookie}] ELSE holds
      /\ UNCHANGED <<face, alive, methodCalls>>
  BY <1>1 DEF HandleCall, Oldest, config
<1>4. DOMAIN methodCalls = {} /\ DOMAIN methodCalls' = {}
  BY <1>3 DEF LastInv, Unreached, OwnsName
<1>5. m \in Call /\ m \in ToSet(inbox)
  <2>1. IsCall(m) /\ m \in ToSet(inbox)
    BY <1>1, <1>3, MemberNames, CallsFacts, ToSetFacts DEF IsCall
  <2>. QED
    BY <2>1, CallsFacts, CallFacts
<1>6. NextCookie \in Cookies /\ (Simulates => NextCookie # 0)
  BY NextCookieFacts DEF TypeOK, Simulates, SESSION, GNOME, CINNAMON
<1>7. PICK n \in {1, 2} :
        Reads(n) /\ missed' = IF n = 1 THEN missed ELSE missed \cup About(inbox[2])
  BY <1>2, <1>3, HandledReads
<1>8. c \in alive /\ c \in Clients /\ c \notin missed /\ c \notin missed'
  BY <1>3, <1>7 DEF TypeOK
<1>9. /\ k \in holds[c] => k \in Listed(c)
      /\ k \in Listed(c) \ holds[c] => GivesBack(c, k)
  BY <1>3, <1>8 DEF ServedInv
<1>10. holds'[c] = IF m.what = "Inhibit" /\ m.from = c THEN holds[c] \cup {NextCookie} ELSE holds[c]
  BY <1>3, <1>8 DEF TypeOK
<1>11. /\ m.what = "Inhibit" =>
            (k \in Listed(c)' <=>
                k \in Listed(c) \/ (c = m.from /\ k = NextCookie /\ (Simulates => k # 0)))
       /\ m.what = "UnInhibit" =>
            (k \in Listed(c)' <=> k \in Listed(c) /\ ~(c = m.from /\ k = m.cookie))
       /\ m.what \notin {"Inhibit", "UnInhibit"} => (k \in Listed(c)' <=> k \in Listed(c))
  BY <1>2, <1>3, <1>5, <1>6, <1>8, DispatchListed
<1>12. m.what = "UnInhibit" => m.cookie \notin holds[m.from]
  BY <1>5 DEF LastInv, ReleaseIsDue, Releasing
<1>13. k \in holds'[c] => k \in Listed(c)'
  BY <1>6, <1>9, <1>10, <1>11, <1>12
<1>14. ASSUME k \in Listed(c)', k \notin holds'[c]
       PROVE  GivesBack(c, k)'
  <2>1. k \in Listed(c) /\ k \notin holds[c]
    BY <1>10, <1>11, <1>14
  <2>2. PICK x \in Known : x.what = "UnInhibit" /\ x.from = c /\ x.cookie = k
    BY <1>4, <1>9, <2>1, GivesBackKnown
  <2>3. x # m
    BY <1>11, <1>14, <2>2
  <2>4. x \in Known' \/ x = inbox[1] \/ (n = 2 /\ x = inbox[2])
    BY <1>4, <1>7, ReadsKnown
  <2>5. inbox[1] = m
    BY <1>1, <1>3, CallsFacts, TailFacts
  <2>6. ~(n = 2 /\ x = inbox[2])
    BY <1>7, <1>8, <2>2 DEF About
  <2>. QED
    BY <1>4, <2>2, <2>3, <2>4, <2>5, <2>6, GivesBackKnown
<1>. QED
  BY <1>13, <1>14

LEMMA ServedStep ==
    ASSUME TypeOK, LastInv, ServedInv, NothingYet, [Next]_vars
    PROVE  ServedInv'
<1>. SUFFICES ASSUME OwnsName', NEW c \in alive' \ missed', NEW k \in Cookies
              PROVE  /\ k \in holds'[c] => k \in Listed(c)'
                     /\ k \in Listed(c)' \ holds'[c] => GivesBack(c, k)'
  BY DEF ServedInv
<1>1. CASE NameComes
  <2>1. DOMAIN active = {} /\ active' = active /\ c \in Clients /\ holds' = [d \in Clients |-> {}]
    BY <1>1 DEF NameComes, NothingYet, daemonVars, TypeOK
  <2>2. Listed(c)' = {} /\ holds'[c] = {}
    BY <2>1 DEF Listed, ActiveOf
  <2>. QED
    BY <2>2
<1>2. CASE HandleCall
  BY <1>2, ServedCall
<1>. SUFFICES ASSUME ~NameComes, ~HandleCall
              PROVE  /\ k \in holds'[c] => k \in Listed(c)'
                     /\ k \in Listed(c)' \ holds'[c] => GivesBack(c, k)'
  BY <1>1, <1>2
<1>3. UNCHANGED <<monitor, link, face>>
  BY DEF Next, Environment, Loop, ClientInhibit, ClientUnInhibit, ClientSimulate, Send, ClientGone,
         ServiceAnswer, ServiceError, StrayReturn, Tick, RecordCall, HandleReturn, IgnoreReturn,
         HandleNameLost, Poll, config, vars
<1>4. OwnsName /\ ~monitor /\ link # NONE /\ DOMAIN methodCalls = {}
  BY <1>3 DEF OwnsName, LastInv, Unreached
<1>5. ~ServiceAnswer /\ ~ServiceError /\ ~StrayReturn /\ ~RecordCall /\ ~HandleReturn
  BY <1>4 DEF ServiceAnswer, ServiceError, StrayReturn, RecordCall, HandleReturn
<1>6. alive' \ missed' \subseteq alive \ missed
  BY <1>5 DEF Next, Environment, Loop, ClientInhibit, ClientUnInhibit, ClientSimulate, Send, ClientGone,
         Tick, IgnoreReturn, HandleNameLost, Poll, Receive, clientVars, daemonVars, vars
<1>7. c \in alive /\ c \in Clients
  BY <1>6 DEF TypeOK
<1>8. /\ k \in holds[c] => k \in Listed(c)
      /\ k \in Listed(c) \ holds[c] => GivesBack(c, k)
  BY <1>4, <1>6 DEF ServedInv
<1>9. ASSUME NEW d \in Clients, ClientInhibit(d) \/ ClientUnInhibit(d) \/ ClientSimulate(d)
      PROVE  /\ k \in holds'[c] => k \in Listed(c)'
             /\ k \in Listed(c)' \ holds'[c] => GivesBack(c, k)'
  <2>1. PICK m \in Call :
            /\ m.from = d
            /\ inbox' = IF link # NONE THEN Append(inbox, m) ELSE inbox
            /\ holds' = IF m.what = "UnInhibit" THEN [holds EXCEPT ![d] = @ \ {m.cookie}] ELSE holds
            /\ UNCHANGED <<config, alive, daemonVars>>
    BY <1>9, ClientCalls
  <2>2. ToSet(inbox') = ToSet(inbox) \cup {m}
    BY <1>4, <2>1, CallsFacts, AppendFacts
  <2>3. Listed(c)' = Listed(c)
    BY <2>1 DEF Listed, ActiveOf, Simulates, config, daemonVars
  <2>4. /\ k \in holds'[c] => k \in holds[c]
        /\ k \in holds[c] \ holds'[c] => m.what = "UnInhibit" /\ m.from = c /\ m.cookie = k
    BY <1>7, <2>1 DEF TypeOK
  <2>. QED
    BY <1>8, <2>2, <2>3, <2>4 DEF GivesBack
<1>10. ASSUME NEW d \in Clients, ClientGone(d)
       PROVE  /\ k \in holds'[c] => k \in Listed(c)'
              /\ k \in Listed(c)' \ holds'[c] => GivesBack(c, k)'
  <2>1. c # d /\ holds'[c] = holds[c] /\ UNCHANGED <<face, active>>
    BY <1>7, <1>10 DEF ClientGone, TypeOK, config, daemonVars
  <2>2. PICK m : inbox' = inbox \/ inbox' = Append(inbox, m)
    BY <1>10 DEF ClientGone
  <2>3. ToSet(inbox) \subseteq ToSet(inbox')
    <3>1. ToSet(Append(inbox, m)) = ToSet(inbox) \cup {m}
      BY CallsFacts, AppendFacts
    <3>. QED
      BY <2>2, <3>1
  <2>4. Listed(c)' = Listed(c)
    BY <2>1 DEF Listed, ActiveOf, Simulates
  <2>. QED
    BY <1>8, <2>1, <2>3, <2>4 DEF GivesBack
<1>11. CASE IgnoreReturn \/ HandleNameLost
  <2>1. /\ inbox # <<>> /\ inbox' = Tail(inbox) /\ ~IsCall(Head(inbox))
        /\ UNCHANGED <<holds, methodCalls>>
    BY <1>11 DEF IgnoreReturn, HandleNameLost, Receive, Oldest, clientVars, IsCall
  <2>2. Known' = Known
    BY <2>1, ReadOne
  <2>3. GivesBack(c, k)' <=> GivesBack(c, k)
    BY <1>4, <2>1, <2>2, GivesBackKnown
  <2>4. k \in Listed(c)' <=> k \in Listed(c)
    <3>1. CASE IgnoreReturn
      BY <3>1 DEF IgnoreReturn, registryVars, config, Listed, ActiveOf, Simulates
    <3>2. CASE HandleNameLost
      <4>1. Head(inbox).what = "gone" /\ Head(inbox) \in ToSet(inbox)
        BY <2>1, <3>2, CallsFacts, ToSetFacts DEF HandleNameLost, Receive, Oldest
      <4>2. c # Head(inbox).from /\ OwnersApart
        BY <1>7, <4>1 DEF LastInv, GoneHoldNothing
      <4>. QED
        BY <1>7, <3>2, <4>2, LostListed
    <3>. QED
      BY <1>11, <3>1, <3>2
  <2>. QED
    BY <1>8, <2>1, <2>3, <2>4
<1>12. CASE Poll \/ Tick \/ UNCHANGED vars
  <2>1. UNCHANGED <<holds, inbox>>
    BY <1>12 DEF Poll, Tick, clientVars, busVars, vars
  <2>2. GivesBack(c, k)' <=> GivesBack(c, k)
    BY <2>1 DEF GivesBack
  <2>3. k \in Listed(c)' <=> k \in Listed(c)
    <3>1. CASE Poll
      BY <1>7, <3>1, PollListed
    <3>2. CASE Tick \/ UNCHANGED vars
      BY <3>2 DEF Tick, config, daemonVars, vars, Listed, ActiveOf, Simulates
    <3>. QED
      BY <1>12, <3>1, <3>2
  <2>. QED
    BY <1>8, <2>1, <2>2, <2>3
<1>. QED
  BY <1>5, <1>9, <1>10, <1>11, <1>12 DEF Next, Environment, Loop

LEMMA NothingYetStep ==
    ASSUME TypeOK, LastInv, NothingYet, [Next]_vars
    PROVE  NothingYet'
<1>. SUFFICES ASSUME link' = NONE
              PROVE  DOMAIN active' = {}
  BY DEF NothingYet
<1>1. CASE Environment \/ UNCHANGED vars
  <2>1. active' = active
    BY <1>1 DEF Environment, ClientInhibit, ClientUnInhibit, ClientSimulate, Send, ClientGone,
                ServiceAnswer, ServiceError, NameComes, StrayReturn, Tick, daemonVars, vars
  <2>2. link = NONE
    BY <1>1 DEF Environment, ClientInhibit, ClientUnInhibit, ClientSimulate, Send, ClientGone,
                ServiceAnswer, ServiceError, NameComes, StrayReturn, Tick, config, vars, NONE, UNMATCHED
  <2>. QED
    BY <2>1, <2>2 DEF NothingYet
<1>2. CASE Loop \/ Poll
  <2>1. link = NONE
    BY <1>2 DEF Loop, HandleCall, RecordCall, HandleReturn, IgnoreReturn, HandleNameLost, Poll, config
  <2>2. inbox = <<>> /\ DOMAIN active = {}
    BY <2>1 DEF LastInv, Unreached, NothingYet
  <2>. QED
    BY <1>2, <2>2 DEF Loop, HandleCall, RecordCall, HandleReturn, IgnoreReturn, HandleNameLost, Poll,
                      Receive, Oldest
<1>. QED
  BY <1>1, <1>2 DEF Next

AgreeInv == PairInv /\ OverheardInv /\ ServedInv /\ NothingYet

LEMMA AgreeInit == Init => AgreeInv
<1>. SUFFICES ASSUME Init PROVE AgreeInv
  OBVIOUS
<1>1. /\ inbox = <<>> /\ service = <<>> /\ DOMAIN methodCalls = {} /\ DOMAIN active = {}
      /\ holds = [c \in Clients |-> {}] /\ alive \subseteq Clients /\ serial = FirstSerial
      /\ monitor \in Modes
  BY DEF Init, EmptyMap
<1>2. ToSet(inbox) = {} /\ ToSet(service) = {} /\ DOMAIN inbox = {} /\ DOMAIN service = {}
  BY <1>1 DEF ToSet
<1>3. Known = {} /\ Calls = {}
  BY <1>1, <1>2 DEF Known, Calls
<1>4. SerialsBounded
  BY <1>1, BoundsAssumption DEF SerialsBounded
<1>5. PairInv
  BY <1>1, <1>2, <1>3, <1>4 DEF PairInv, Pairs, CallsDistinct, InOrder, ReturnsDue, Awaited
<1>6. \A c \in alive : holds[c] = {} /\ Listed(c) = {}
  BY <1>1 DEF Listed, ActiveOf
<1>. QED
  BY <1>1, <1>2, <1>5, <1>6 DEF AgreeInv, OverheardInv, Follows, ServedInv, NothingYet

LEMMA AgreeStep == SerialsApart => (TypeOK /\ LastInv /\ AgreeInv /\ [Next]_vars => AgreeInv')
BY OverheardStep, ServedStep, NothingYetStep DEF AgreeInv

\* With nothing on its way, no grant, release or call explains a difference.
LEMMA QuietAgrees == TypeOK /\ LastInv /\ AgreeInv => RegistryAgrees
<1>. SUFFICES ASSUME TypeOK, LastInv, AgreeInv, Quiet, link # NONE, NEW c \in alive \ missed
              PROVE  Listed(c) = holds[c]
  BY DEF RegistryAgrees, Listed
<1>1. DOMAIN inbox = {} /\ ToSet(inbox) = {} /\ ToSet(service) = {}
  BY DEF Quiet, ToSet
<1>2. c \in Clients /\ holds[c] \subseteq Cookies
  BY DEF TypeOK
<1>3. Listed(c) \subseteq Cookies
  BY DEF Listed, ActiveOf, TypeOK, Id
<1>4. ASSUME NEW k \in Cookies
      PROVE  k \in Listed(c) <=> k \in holds[c]
  <2>1. CASE monitor
    BY <1>1, <2>1 DEF AgreeInv, OverheardInv, Overhears, Follows, Asked
  <2>2. CASE ~monitor
    BY <1>1, <2>2 DEF AgreeInv, ServedInv, OwnsName, GivesBack
  <2>. QED
    BY <2>1, <2>2
<1>. QED
  BY <1>2, <1>3, <1>4

\* Whenever all messages are dealt with, the daemon's registry is what its clients
\* hold, if no serials collide.
THEOREM RegistryIsExact ==
    ASSUME SerialsApart
    PROVE  Spec => []RegistryAgrees
<1>1. TypeOK /\ LastInv /\ AgreeInv /\ [Next]_vars => AgreeInv'
  BY AgreeStep
<1>. QED
  BY <1>1, TypeInit, TypeStep, LastInit, LastStep, AgreeInit, QuietAgrees, PTL DEF Spec

=============================================================================
