------------------------ MODULE SystemdInhibitProofs ------------------------
(***************************************************************************)
(* Proofs about org.freedesktop.login1, for every number of locks and of   *)
(* requests, any descriptors and both values of monitor.                   *)
(***************************************************************************)
EXTENDS SystemdInhibit, FiniteSetTheorems, SequenceTheorems, TLAPS

----------------------------------------------------------------------------
(* Descriptors                                                             *)

\* There is a free number, however many are in use.
LEMMA FreeFacts ==
    ASSUME NEW first \in Nat, NEW used, IsFiniteSet(used), NEW n \in Nat \ {0}
    PROVE  Free(first, used, n) \in Nat /\ Free(first, used, n) \notin used
<1>. DEFINE c == Cardinality(used)
            C(k) == Cardinality((first..k) \ used)
            Enough == {k \in Nat : k >= first /\ C(k) >= n}
<1>1. c \in Nat
  BY FS_CardinalityType
<1>2. \A k \in Nat : C(k) \in Nat /\ IsFiniteSet((first..k) \ used)
  <2>. TAKE k \in Nat
  <2>1. IsFiniteSet(first..k)
    BY FS_Interval
  <2>2. IsFiniteSet((first..k) \ used)
    BY <2>1, FS_Difference
  <2>. QED
    BY <2>2, FS_CardinalityType
<1>. DEFINE last == first + c + n
<1>3. last \in Enough
  <2>1. last \in Nat /\ last >= first
    BY <1>1
  <2>2. IsFiniteSet(first..last) /\ Cardinality(first..last) = c + n + 1
    BY <1>1, <2>1, FS_Interval
  <2>3. /\ C(last) = Cardinality(first..last) - Cardinality((first..last) \cap used)
        /\ Cardinality((first..last) \cap used) <= c
        /\ Cardinality((first..last) \cap used) \in Nat
    BY <2>2, FS_Difference, FS_Intersection, FS_CardinalityType
  <2>4. C(last) >= n
    <3>. HIDE DEF C, c
    <3>. QED
      BY <1>1, <2>2, <2>3
  <2>. QED
    BY <2>1, <2>4
<1>. HIDE DEF C, c
<1>4. PICK k \in Enough : \A j \in Enough : ~(j < k)
  <2>1. IsWellFoundedOn(OpToRel(<, Nat), Nat)
    BY NatLessThanWellFounded
  <2>2. \E k \in Enough : \A j \in Enough : <<j, k>> \notin OpToRel(<, Nat)
    BY <1>3, <2>1, WFMin
  <2>. QED
    BY <2>2 DEF OpToRel
<1>5. k \in Nat /\ k >= first /\ C(k) >= n /\ C(k) \in Nat
  BY <1>2
<1>6. k \in first..first + c + n
  BY <1>1, <1>3, <1>4, <1>5
<1>7. k \notin used /\ C(k) = n
  <2>1. CASE k = first
    <3>1. (first..k) \ used \subseteq {k}
      BY <2>1
    <3>2. C(k) <= 1
      <4>1. IsFiniteSet({k}) /\ Cardinality({k}) = 1
        BY FS_Singleton
      <4>. QED
        BY <3>1, <4>1, FS_Subset DEF C
    <3>3. (first..k) \ used # {}
      BY <1>5, FS_EmptySet DEF C
    <3>. QED
      BY <1>5, <3>1, <3>2, <3>3
  <2>2. CASE k > first
    <3>0. k - 1 \in Nat /\ k - 1 >= first /\ k - 1 < k
      BY <1>5, <2>2
    <3>1. k - 1 \in Nat /\ k - 1 >= first /\ k - 1 < k /\ C(k - 1) \in Nat
      BY <1>2, <3>0
    <3>2. C(k - 1) < n
      <4>1. k - 1 \notin Enough
        BY <1>4, <3>1
      <4>. QED
        BY <3>1, <4>1
    <3>3. (first..k) \ used = IF k \in used THEN (first..k - 1) \ used
                              ELSE ((first..k - 1) \ used) \cup {k}
      BY <1>5, <2>2
    <3>4. C(k) = IF k \in used THEN C(k - 1) ELSE C(k - 1) + 1
      <4>1. IsFiniteSet((first..k - 1) \ used) /\ k \notin (first..k - 1) \ used
        BY <1>2, <3>1
      <4>. QED
        BY <3>3, <4>1, FS_AddElement DEF C
    <3>. QED
      BY <1>5, <3>1, <3>2, <3>4
  <2>. QED
    BY <1>5, <2>1, <2>2
<1>8. \E j \in first..first + Cardinality(used) + n : j \notin used /\ Cardinality((first..j) \ used) = n
  BY <1>6, <1>7 DEF C, c
<1>9. Free(first, used, n) \in first..first + Cardinality(used) + n /\ Free(first, used, n) \notin used
  BY <1>8 DEF Free
<1>. QED
  BY <1>1, <1>9 DEF c

----------------------------------------------------------------------------
(* Types                                                                   *)

\* What the types need beside them: only a monitor overhears its own helper,
\* descriptors are finite in number, and the id of the requests that were denied
\* is never that of an application's lock.
AnswersOnly == ~monitor => inbox \in Seq(Locks)

FiniteFds == IsFiniteSet(fds) /\ IsFiniteSet(DOMAIN helper)

DeniedIsHubs == Denied \in DOMAIN active => active[Denied] \in Forwards

TypeInv == TypeOK /\ AnswersOnly /\ FiniteFds /\ DeniedIsHubs

Message == Locks \cup {Echo}

Entry == [id : Nat, lock : Locks]

\* The two registries keep their types when an entry is added to them, and the
\* new id is that of a lock or a request.
LEMMA RegisterTyped ==
    ASSUME TypeInv, NEW id \in Nat \cup {Denied}, NEW x \in Locks \cup Forwards,
           id = Denied => x \in Forwards, active' = MapInsert(active, id, x)
    PROVE  /\ DOMAIN active' \subseteq Nat \cup {Denied}
           /\ \A i \in DOMAIN active' : active'[i] \in Locks \cup Forwards
           /\ DeniedIsHubs'
<1>1. DOMAIN active' = DOMAIN active \cup {id}
  BY DEF MapInsert
<1>2. \A i \in DOMAIN active' : active'[i] = IF i \in DOMAIN active THEN active[i] ELSE x
  BY DEF MapInsert
<1>. QED
  BY <1>1, <1>2 DEF TypeInv, TypeOK, DeniedIsHubs

\* An id that is given is a descriptor that was free.
LEMMA FreeFds ==
    ASSUME TypeInv, NEW n \in Nat \ {0}
    PROVE  /\ Free(FirstFd, fds, n) \in Nat /\ Free(FirstFd, fds, n) \notin fds
           /\ Free(HelperFd, DOMAIN helper, n) \in Nat
           /\ Free(HelperFd, DOMAIN helper, n) \notin DOMAIN helper
  BY FreeFacts, FdAssumption DEF TypeInv, FiniteFds

\* The message at the head of the queue is a lock, unless it is our helper's.
LEMMA HeadIsLock ==
    ASSUME TypeInv, inbox # <<>>
    PROVE  /\ Tail(inbox) \in Seq(Message)
           /\ ~monitor => Head(inbox) \in Locks /\ Tail(inbox) \in Seq(Locks)
           /\ monitor /\ ~FromUs(Head(inbox)) => Head(inbox) \in Locks
           /\ Len(inbox) \in Nat
<1>1. inbox \in Seq(Message)
  BY DEF TypeInv, TypeOK, Message
<1>2. Head(inbox) \in Message /\ Tail(inbox) \in Seq(Message)
  BY <1>1, HeadTailProperties
<1>3. CASE ~monitor
  <2>1. inbox \in Seq(Locks)
    BY <1>3 DEF TypeInv, AnswersOnly
  <2>2. Head(inbox) \in Locks /\ Tail(inbox) \in Seq(Locks)
    BY <2>1, HeadTailProperties
  <2>. QED
    BY <1>1, <1>2, <1>3, <2>2, LenProperties
<1>4. CASE monitor
  BY <1>1, <1>2, <1>4, LenProperties DEF FromUs, Message
<1>. QED
  BY <1>3, <1>4

\* A handler that registers a lock keeps the types.
LEMMA RegisterKeepsTypes ==
    ASSUME TypeInv, NEW id \in Nat, NEW l \in Locks, NEW thrown \in BOOLEAN,
           Register(id, l), Watch(id, l, thrown)
    PROVE  /\ DOMAIN active' \subseteq Nat \cup {Denied}
           /\ \A i \in DOMAIN active' : active'[i] \in Locks \cup Forwards
           /\ DeniedIsHubs' /\ clashed' \in BOOLEAN
           /\ watch' \subseteq Thread /\ unwatched' \subseteq Locks
<1>1. id # Denied
  BY DEF Denied
<1>2. active' = MapInsert(active, id, l)
  BY DEF Register
<1>3. /\ DOMAIN active' \subseteq Nat \cup {Denied}
      /\ \A i \in DOMAIN active' : active'[i] \in Locks \cup Forwards
      /\ DeniedIsHubs'
  BY <1>1, <1>2, RegisterTyped
<1>4. [lock |-> l, id |-> id, path |-> l] \in Thread
  BY DEF Thread
<1>5. watch' \subseteq Thread /\ unwatched' \subseteq Locks
  BY <1>4 DEF Watch, TypeInv, TypeOK
<1>6. clashed' \in BOOLEAN
  BY DEF Register, TypeInv, TypeOK
<1>. QED
  BY <1>3, <1>5, <1>6

LEMMA StartTyped == Init => TypeInv
<1>. SUFFICES ASSUME Init
              PROVE  TypeInv
  OBVIOUS
<1>1. DOMAIN EmptyMap = {} /\ IsFiniteSet({})
  BY FS_EmptySet DEF EmptyMap
<1>2. <<>> \in Seq(Message) /\ <<>> \in Seq(Locks) /\ <<>> \in Seq(Entry)
  BY EmptySeq
<1>3. [l \in Locks |-> "new"] \in [Locks -> {"new", "asked", "held", "dropped"}]
  OBVIOUS
<1>4. inbox \in Seq(Locks \cup {Echo}) /\ queue \in Seq([id : Nat, lock : Locks])
  BY <1>2 DEF Init, Message, Entry
<1>5. /\ DOMAIN helper = {} /\ DOMAIN active = {} /\ DOMAIN placed = {}
      /\ lock \in [Locks -> {"new", "asked", "held", "dropped"}]
  BY <1>1, <1>3 DEF Init
<1>6. TypeOK
  BY <1>4, <1>5 DEF Init, TypeOK
<1>. QED
  BY <1>1, <1>2, <1>5, <1>6 DEF Init, TypeInv, AnswersOnly, FiniteFds, DeniedIsHubs

LEMMA ServeLockTyped == TypeInv /\ ServeLock => TypeInv'
<1>. SUFFICES ASSUME TypeInv, ServeLock
              PROVE  TypeInv'
  OBVIOUS
<1>. DEFINE l == Head(inbox)
            r == Free(FirstFd, fds, 1)
            w == Free(FirstFd, fds, 2)
<1>1. l \in Locks /\ inbox' \in Seq(Locks) /\ inbox' \in Seq(Message)
  BY HeadIsLock DEF ServeLock
<1>2. r \in Nat /\ w \in Nat
  BY FreeFds
<1>3. PICK thrown \in {FALSE, HubThrows} : Watch(w, l, thrown)
  BY DEF ServeLock
<1>4. thrown \in BOOLEAN
  BY SystemdBoundsAssumption
<1>5. Register(w, l)
  BY DEF ServeLock
<1>. HIDE DEF l, r, w
<1>6. /\ DOMAIN active' \subseteq Nat \cup {Denied}
      /\ \A i \in DOMAIN active' : active'[i] \in Locks \cup Forwards
      /\ DeniedIsHubs' /\ clashed' \in BOOLEAN
      /\ watch' \subseteq Thread /\ unwatched' \subseteq Locks
  BY <1>1, <1>2, <1>3, <1>4, <1>5, RegisterKeepsTypes
<1>7. lock' \in [Locks -> {"new", "asked", "held", "dropped"}]
  BY DEF ServeLock, TypeInv, TypeOK
<1>8. fds' \subseteq Nat /\ FiniteFds'
  <2>1. fds' = fds \cup {r} /\ helper' = helper
    BY DEF ServeLock, r
  <2>. QED
    BY <1>2, <2>1, FS_AddElement DEF TypeInv, TypeOK, FiniteFds
<1>9. TypeOK'
  BY <1>1, <1>6, <1>7, <1>8 DEF ServeLock, TypeInv, TypeOK, Message, hubVars
<1>. QED
  BY <1>1, <1>6, <1>8, <1>9 DEF TypeInv, AnswersOnly

LEMMA MonitorLockTyped == TypeInv /\ MonitorLock => TypeInv'
<1>. SUFFICES ASSUME TypeInv, MonitorLock
              PROVE  TypeInv'
  OBVIOUS
<1>. DEFINE l == Head(inbox)
<1>1. l \in Locks /\ inbox' \in Seq(Message) /\ Len(inbox) \in Nat
  BY HeadIsLock DEF MonitorLock
<1>. HIDE DEF l
<1>2. PICK read \in 1..Len(inbox), thrown \in {FALSE, HubThrows} :
        LET id == Free(FirstFd, fds, read + 1)
        IN  /\ Register(id, l)
            /\ Watch(id, l, thrown)
            /\ fds' = IF thrown THEN fds \cup {id} ELSE fds
  BY DEF MonitorLock, l
<1>3. read \in 1..Len(inbox) /\ thrown \in BOOLEAN
  BY <1>2, SystemdBoundsAssumption
<1>. DEFINE id == Free(FirstFd, fds, read + 1)
<1>4. id \in Nat
  <2>1. read + 1 \in Nat \ {0}
    BY <1>1, <1>3
  <2>. QED
    BY <2>1, FreeFds
<1>5. Register(id, l) /\ Watch(id, l, thrown) /\ fds' = IF thrown THEN fds \cup {id} ELSE fds
  BY <1>2
<1>. HIDE DEF id
<1>6. /\ DOMAIN active' \subseteq Nat \cup {Denied}
      /\ \A i \in DOMAIN active' : active'[i] \in Locks \cup Forwards
      /\ DeniedIsHubs' /\ clashed' \in BOOLEAN
      /\ watch' \subseteq Thread /\ unwatched' \subseteq Locks
  BY <1>1, <1>3, <1>4, <1>5, RegisterKeepsTypes
<1>7. fds' \subseteq Nat /\ FiniteFds'
  <2>1. helper' = helper
    BY DEF MonitorLock
  <2>. QED
    BY <1>4, <1>5, <2>1, FS_AddElement DEF TypeInv, TypeOK, FiniteFds
<1>8. TypeOK'
  BY <1>1, <1>6, <1>7 DEF MonitorLock, TypeInv, TypeOK, Message, hubVars
<1>. QED
  BY <1>6, <1>7, <1>8 DEF MonitorLock, TypeInv, AnswersOnly

\* What the hub asks for keeps the types, whatever id it is given.
LEMMA PlaceTyped ==
    ASSUME TypeInv, NEW f \in Forwards, NEW id \in Nat \cup {Denied}, Place(f, id),
           inbox' \in Seq(Message), ~monitor => inbox' = inbox,
           fds' \subseteq Nat, DOMAIN helper' \subseteq Nat,
           \A n \in DOMAIN helper' : helper'[n] \in Forwards, FiniteFds', queue' = queue
    PROVE  TypeInv'
<1>1. active' = MapInsert(active, id, f)
  BY DEF Place
<1>2. /\ DOMAIN active' \subseteq Nat \cup {Denied}
      /\ \A i \in DOMAIN active' : active'[i] \in Locks \cup Forwards
      /\ DeniedIsHubs'
  BY <1>1, RegisterTyped
<1>3. /\ DOMAIN placed' \subseteq Forwards
      /\ \A g \in DOMAIN placed' : placed'[g] \in Nat \cup {Denied}
  <2>1. DOMAIN placed' = DOMAIN placed \cup {f}
    BY DEF Place, MapInsert
  <2>2. \A g \in DOMAIN placed' : placed'[g] = IF g \in DOMAIN placed THEN placed[g] ELSE id
    BY DEF Place, MapInsert
  <2>. QED
    BY <2>1, <2>2 DEF TypeInv, TypeOK
<1>4. requests' \in Nat /\ clashed' \in BOOLEAN
  BY DEF Place, TypeInv, TypeOK
<1>5. TypeOK'
  BY <1>2, <1>3, <1>4 DEF Place, TypeInv, TypeOK, Message, threadVars
<1>. QED
  BY <1>2, <1>5 DEF TypeInv, AnswersOnly, Place

LEMMA InhibitTyped ==
    ASSUME TypeInv, NEW f \in Forwards, InhibitServing(f) \/ InhibitMonitoring(f)
    PROVE  TypeInv'
<1>. DEFINE r == Free(FirstFd, fds, 1)
            n == Free(HelperFd, DOMAIN helper, 2)
<1>1. r \in Nat /\ n \in Nat
  BY FreeFds
<1>2. queue' = queue
  BY DEF InhibitServing, InhibitMonitoring, Place, threadVars
<1>3. inbox \in Seq(Message) /\ Append(inbox, Echo) \in Seq(Message)
  <2>1. inbox \in Seq(Message)
    BY DEF TypeInv, TypeOK, Message
  <2>. QED
    BY <2>1, AppendProperties DEF Message
<1>. HIDE DEF r, n
<1>4. CASE InhibitServing(f)
  <2>1. fds' = fds \cup {r} /\ helper' = helper /\ inbox' = inbox /\ Place(f, r)
    BY <1>4 DEF InhibitServing, r
  <2>2. fds' \subseteq Nat /\ FiniteFds'
    BY <1>1, <2>1, FS_AddElement DEF TypeInv, TypeOK, FiniteFds
  <2>3. DOMAIN helper' \subseteq Nat /\ \A k \in DOMAIN helper' : helper'[k] \in Forwards
    BY <2>1 DEF TypeInv, TypeOK
  <2>. QED
    BY <1>1, <1>2, <1>3, <2>1, <2>2, <2>3, PlaceTyped
<1>5. CASE InhibitMonitoring(f)
  <2>1. monitor /\ fds' = fds
    BY <1>5 DEF InhibitMonitoring
  <2>2. CASE helper' = MapInsert(helper, n, f) /\ inbox' = Append(inbox, Echo) /\ Place(f, n)
    <3>1. /\ DOMAIN helper' = DOMAIN helper \cup {n}
          /\ \A k \in DOMAIN helper' : helper'[k] = IF k \in DOMAIN helper THEN helper[k] ELSE f
      BY <2>2 DEF MapInsert
    <3>2. DOMAIN helper' \subseteq Nat /\ \A k \in DOMAIN helper' : helper'[k] \in Forwards
      BY <1>1, <3>1 DEF TypeInv, TypeOK
    <3>3. IsFiniteSet(DOMAIN helper \cup {n})
      BY FS_AddElement DEF TypeInv, FiniteFds
    <3>4. fds' \subseteq Nat /\ FiniteFds'
      BY <2>1, <3>1, <3>3 DEF TypeInv, TypeOK, FiniteFds
    <3>. QED
      BY <1>1, <1>2, <1>3, <2>1, <2>2, <3>2, <3>4, PlaceTyped
  <2>3. CASE helper' = helper /\ inbox' = inbox /\ Place(f, Denied)
    <3>1. /\ fds' \subseteq Nat /\ FiniteFds'
          /\ DOMAIN helper' \subseteq Nat /\ \A k \in DOMAIN helper' : helper'[k] \in Forwards
      BY <2>1, <2>3 DEF TypeInv, TypeOK, FiniteFds
    <3>. QED
      BY <1>2, <1>3, <2>3, <3>1, PlaceTyped
  <2>. QED
    BY <1>5, <2>2, <2>3 DEF InhibitMonitoring, n
<1>. QED
  BY <1>4, <1>5

LEMMA UnInhibitTyped ==
    ASSUME TypeInv, NEW f \in Forwards, UnInhibit(f)
    PROVE  TypeInv'
<1>1. DOMAIN active' \subseteq DOMAIN active /\ \A i \in DOMAIN active' : active'[i] = active[i]
  BY DEF UnInhibit, MapErase
<1>2. DOMAIN helper' \subseteq DOMAIN helper /\ \A n \in DOMAIN helper' : helper'[n] = helper[n]
  BY DEF UnInhibit, HelperReleases, MapErase
<1>3. DOMAIN placed' \subseteq DOMAIN placed /\ \A g \in DOMAIN placed' : placed'[g] = placed[g]
  BY DEF UnInhibit, MapErase
<1>4. IsFiniteSet(DOMAIN helper')
  BY <1>2, FS_Subset DEF TypeInv, FiniteFds
<1>5. TypeOK'
  BY <1>1, <1>2, <1>3 DEF UnInhibit, TypeInv, TypeOK, threadVars
<1>. QED
  BY <1>1, <1>4, <1>5 DEF UnInhibit, TypeInv, AnswersOnly, FiniteFds, DeniedIsHubs

LEMMA PollTyped == TypeInv /\ Poll => TypeInv'
<1>. SUFFICES ASSUME TypeInv, Poll
              PROVE  TypeInv'
  OBVIOUS
<1>1. DOMAIN active' \subseteq DOMAIN active /\ \A i \in DOMAIN active' : active'[i] = active[i]
  BY DEF Poll
<1>2. queue' \in Seq(Entry)
  BY DEF Poll, QueueLeft, TypeInv, TypeOK, Entry
<1>3. TypeOK'
  BY <1>1, <1>2 DEF Poll, TypeInv, TypeOK, hubVars, Entry
<1>. QED
  BY <1>1, <1>3 DEF Poll, TypeInv, AnswersOnly, FiniteFds, DeniedIsHubs

LEMMA ThreadTyped ==
    ASSUME TypeInv, NEW t \in watch, ThreadEnds(t) \/ StackReused(t)
    PROVE  TypeInv'
<1>1. watch \subseteq Thread /\ t \in Thread
  BY DEF TypeInv, TypeOK
<1>2. t.id \in Nat /\ t.lock \in Locks
  BY <1>1 DEF Thread
<1>3. watch' \subseteq Thread
  <2>1. CASE ThreadEnds(t)
    BY <1>1, <2>1 DEF ThreadEnds
  <2>2. CASE StackReused(t)
    <3>1. PICK p \in {Absent, Lasting} \cup {u.lock : u \in watch} :
            watch' = (watch \ {t}) \cup {[t EXCEPT !.path = p]}
      BY <2>2 DEF StackReused
    <3>2. p \in Locks \cup {Absent, Lasting}
      BY <1>1 DEF Thread
    <3>3. [t EXCEPT !.path = p] \in Thread
      BY <1>1, <3>2 DEF Thread
    <3>. QED
      BY <1>1, <3>1, <3>3
  <2>. QED
    BY <2>1, <2>2
<1>4. queue' \in Seq(Entry)
  <2>1. queue \in Seq(Entry) /\ [id |-> t.id, lock |-> t.lock] \in Entry
    BY <1>2 DEF TypeInv, TypeOK, Entry
  <2>2. Append(queue, [id |-> t.id, lock |-> t.lock]) \in Seq(Entry)
    BY <2>1, AppendProperties
  <2>. QED
    BY <2>1, <2>2 DEF ThreadEnds, StackReused
<1>5. spoiled' \subseteq Locks
  BY <1>2 DEF ThreadEnds, StackReused, TypeInv, TypeOK
<1>6. TypeOK'
  BY <1>3, <1>4, <1>5 DEF ThreadEnds, StackReused, TypeInv, TypeOK, hubVars, Entry
<1>. QED
  BY <1>6 DEF ThreadEnds, StackReused, TypeInv, AnswersOnly, FiniteFds, DeniedIsHubs

LEMMA ApplicationsTyped ==
    ASSUME TypeInv, NEW l \in Locks, Ask(l) \/ Drop(l)
    PROVE  TypeInv'
<1>1. lock' \in [Locks -> {"new", "asked", "held", "dropped"}]
  BY DEF Ask, Drop, TypeInv, TypeOK
<1>2. inbox' \in Seq(Message)
  <2>1. inbox \in Seq(Message) /\ l \in Message
    BY DEF TypeInv, TypeOK, Message
  <2>. QED
    BY <2>1, AppendProperties DEF Ask, Drop
<1>3. AnswersOnly'
  <2>1. ~monitor => inbox' \in Seq(Locks)
    BY AppendProperties DEF Ask, Drop, TypeInv, AnswersOnly
  <2>. QED
    BY <2>1 DEF Ask, Drop, AnswersOnly
<1>4. TypeOK'
  BY <1>1, <1>2 DEF Ask, Drop, TypeInv, TypeOK, hubVars, threadVars, Message
<1>. QED
  BY <1>3, <1>4 DEF Ask, Drop, TypeInv, FiniteFds, DeniedIsHubs

LEMMA NextTyped == TypeInv /\ [Next]_vars => TypeInv'
<1>. SUFFICES ASSUME TypeInv, [Next]_vars
              PROVE  TypeInv'
  OBVIOUS
<1>1. CASE UNCHANGED vars
  BY <1>1 DEF vars, hubVars, threadVars, TypeInv, TypeOK, AnswersOnly, FiniteFds, DeniedIsHubs
<1>2. CASE Applications
  BY <1>2, ApplicationsTyped DEF Applications
<1>3. CASE Hub
  BY <1>3, InhibitTyped, UnInhibitTyped DEF Hub
<1>4. CASE Loop
  <2>1. CASE IgnoreEcho
    <3>1. inbox' \in Seq(Message) /\ monitor
      BY <2>1, HeadIsLock DEF IgnoreEcho
    <3>. QED
      BY <2>1, <3>1 DEF IgnoreEcho, TypeInv, TypeOK, AnswersOnly, FiniteFds, DeniedIsHubs,
                        hubVars, threadVars, Message
  <2>. QED
    BY <1>4, <2>1, ServeLockTyped, MonitorLockTyped, PollTyped DEF Loop
<1>5. CASE Threads
  BY <1>5, ThreadTyped DEF Threads
<1>6. CASE \E t \in watch : StackReused(t)
  BY <1>6, ThreadTyped
<1>. QED
  BY <1>1, <1>2, <1>3, <1>4, <1>5, <1>6 DEF Next

LEMMA AlwaysTyped == Spec => []TypeInv
  BY StartTyped, NextTyped, PTL DEF Spec

\* The types of the login1 interface: what is registered under an id is a lock of
\* an application or a request of the hub, never our own helper's call, and only
\* requests are registered under the id of a lock that was denied.
THEOREM TypeCorrect == Spec => []TypeOK
<1>1. TypeInv => TypeOK
  BY DEF TypeInv
<1>. QED
  BY <1>1, AlwaysTyped, PTL

----------------------------------------------------------------------------
(* The release of a lock can come                                          *)

\* Reusing the memory of a path changes neither the lock nor the id.
LEMMA ReuseKeeps ==
    ASSUME TypeInv, NEW t \in watch, StackReused(t)
    PROVE  \E p \in Locks \cup {Absent, Lasting} :
            /\ watch' = (watch \ {t}) \cup {[t EXCEPT !.path = p]}
            /\ [t EXCEPT !.path = p].lock = t.lock
            /\ [t EXCEPT !.path = p].id = t.id
<1>1. watch \subseteq Thread /\ t \in Thread
  BY DEF TypeInv, TypeOK
<1>2. PICK p \in {Absent, Lasting} \cup {u.lock : u \in watch} :
        watch' = (watch \ {t}) \cup {[t EXCEPT !.path = p]}
  BY DEF StackReused
<1>3. p \in Locks \cup {Absent, Lasting}
  BY <1>1 DEF Thread
<1>4. [t EXCEPT !.path = p].lock = t.lock /\ [t EXCEPT !.path = p].id = t.id
  BY <1>1 DEF Thread
<1>. QED
  BY <1>2, <1>3, <1>4

\* The new entry of the queue comes last, and the others stay where they are.
LEMMA ThreadQueues ==
    ASSUME TypeInv, NEW t \in watch, ThreadEnds(t)
    PROVE  /\ DOMAIN queue' = DOMAIN queue \cup {Len(queue) + 1}
           /\ \A n \in DOMAIN queue : queue'[n] = queue[n]
           /\ queue'[Len(queue) + 1] = [id |-> t.id, lock |-> t.lock]
           /\ t \in Thread
<1>1. t \in Thread
  BY DEF TypeInv, TypeOK
<1>2. queue \in Seq(Entry) /\ [id |-> t.id, lock |-> t.lock] \in Entry
  BY <1>1 DEF TypeInv, TypeOK, Entry, Thread
<1>3. queue' = Append(queue, [id |-> t.id, lock |-> t.lock])
  BY DEF ThreadEnds
<1>4. DOMAIN queue = 1..Len(queue) /\ Len(queue) \in Nat
  BY <1>2, LenProperties
<1>5. /\ Len(queue') = Len(queue) + 1
      /\ \A n \in 1..Len(queue) + 1 :
            queue'[n] = IF n <= Len(queue) THEN queue[n] ELSE [id |-> t.id, lock |-> t.lock]
      /\ queue' \in Seq(Entry)
  BY <1>2, <1>3, AppendProperties
<1>6. DOMAIN queue' = 1..Len(queue) + 1
  BY <1>5, LenProperties
<1>. QED
  BY <1>1, <1>4, <1>5, <1>6

\* What poll removes are ids of the queue; when no callback throws it removes
\* them all, and otherwise the queue stays as it is.
LEMMA PollRemoves ==
    ASSUME TypeInv, Poll
    PROVE  /\ \A id \in DOMAIN active \ DOMAIN active' : id \in Queued
           /\ DOMAIN active' \subseteq DOMAIN active
           /\ \A id \in DOMAIN active' : active'[id] = active[id]
           /\ \/ queue' = queue
              \/ DOMAIN queue' = {} /\ DOMAIN active' \cap Queued = {}
<1>1. DOMAIN queue = 1..Len(queue) /\ Len(queue) \in Nat
  BY LenProperties DEF TypeInv, TypeOK
<1>2. PICK n \in DOMAIN queue, thrown \in {FALSE, HubThrows} :
        LET before == {queue[k].id : k \in 1..n - 1}
        IN  /\ IF thrown THEN queue[n].id \in DOMAIN active \ before ELSE n = Len(queue)
            /\ active' = [id \in DOMAIN active \ (before \cup {queue[n].id}) |-> active[id]]
            /\ queue' = QueueLeft(thrown)
  BY DEF Poll
<1>. DEFINE before == {queue[k].id : k \in 1..n - 1}
<1>3. n \in 1..Len(queue)
  BY <1>1, <1>2
<1>4. before \cup {queue[n].id} \subseteq Queued
  BY <1>1, <1>3 DEF Queued
<1>5. active' = [id \in DOMAIN active \ (before \cup {queue[n].id}) |-> active[id]]
  BY <1>2
<1>6. CASE thrown
  BY <1>2, <1>4, <1>5, <1>6 DEF QueueLeft
<1>7. CASE ~thrown
  <2>1. n = Len(queue) /\ queue' = <<>>
    BY <1>2, <1>7 DEF QueueLeft
  <2>2. before \cup {queue[n].id} = Queued
    BY <1>1, <1>3, <2>1 DEF Queued
  <2>. QED
    BY <1>4, <1>5, <2>1, <2>2
<1>. QED
  BY <1>6, <1>7

\* Somebody will report the end of what is registered under id.
WillEnd(id) ==
    \/ \E t \in watch : t.lock = active[id] /\ t.id = id
    \/ \E n \in DOMAIN queue : queue[n] = [id |-> id, lock |-> active[id]]

\* A handler that registers a lock starts its thread, or throws.
LEMMA RegisterWatches ==
    ASSUME ReleaseComes, NEW id, NEW l, NEW thrown \in BOOLEAN,
           Register(id, l), Watch(id, l, thrown), queue' = queue
    PROVE  ReleaseComes'
<1>. SUFFICES ASSUME NEW i \in DOMAIN active', active'[i] \in Locks \ unwatched'
              PROVE  WillEnd(i)'
  BY DEF ReleaseComes, WillEnd
<1>1. DOMAIN active' = DOMAIN active \cup {id}
  BY DEF Register, MapInsert
<1>2. active'[i] = IF i \in DOMAIN active THEN active[i] ELSE l
  BY DEF Register, MapInsert
<1>3. watch \subseteq watch' /\ unwatched \subseteq unwatched'
  BY DEF Watch
<1>4. CASE i \in DOMAIN active
  BY <1>2, <1>3, <1>4 DEF ReleaseComes, WillEnd
<1>5. CASE i \notin DOMAIN active
  <2>1. i = id /\ active'[i] = l
    BY <1>1, <1>2, <1>5
  <2>2. ~thrown
    BY <2>1 DEF Watch
  <2>3. [lock |-> l, id |-> id, path |-> l] \in watch'
    BY <2>2 DEF Watch
  <2>. QED
    BY <2>1, <2>3 DEF WillEnd
<1>. QED
  BY <1>4, <1>5

\* What the hub is given is none of an application's locks.
LEMMA PlaceReleases ==
    ASSUME ReleaseComes, NEW f \in Forwards, NEW id, Place(f, id), queue' = queue
    PROVE  ReleaseComes'
<1>. SUFFICES ASSUME NEW i \in DOMAIN active', active'[i] \in Locks \ unwatched'
              PROVE  WillEnd(i)'
  BY DEF ReleaseComes, WillEnd
<1>1. active'[i] = IF i \in DOMAIN active THEN active[i] ELSE f
  BY DEF Place, MapInsert
<1>2. i \in DOMAIN active
  BY <1>1, NamesAssumption
<1>. QED
  BY <1>1, <1>2 DEF ReleaseComes, WillEnd, Place, threadVars

LEMMA ReleaseStep == TypeInv /\ ReleaseComes /\ [Next]_vars => ReleaseComes'
<1>. SUFFICES ASSUME TypeInv, ReleaseComes, [Next]_vars
              PROVE  ReleaseComes'
  OBVIOUS
<1>1. CASE UNCHANGED <<active, watch, queue, unwatched>>
  BY <1>1 DEF ReleaseComes
<1>2. CASE ServeLock
  <2>1. PICK thrown \in {FALSE, HubThrows} : Watch(Free(FirstFd, fds, 2), Head(inbox), thrown)
    BY <1>2 DEF ServeLock
  <2>2. Register(Free(FirstFd, fds, 2), Head(inbox)) /\ queue' = queue
    BY <1>2 DEF ServeLock
  <2>3. thrown \in BOOLEAN
    BY SystemdBoundsAssumption
  <2>. QED
    BY <2>1, <2>2, <2>3, RegisterWatches
<1>3. CASE MonitorLock
  <2>1. PICK read \in 1..Len(inbox), thrown \in {FALSE, HubThrows} :
          /\ Register(Free(FirstFd, fds, read + 1), Head(inbox))
          /\ Watch(Free(FirstFd, fds, read + 1), Head(inbox), thrown)
    BY <1>3 DEF MonitorLock
  <2>2. thrown \in BOOLEAN /\ queue' = queue
    BY <1>3, <2>1, SystemdBoundsAssumption DEF MonitorLock
  <2>. QED
    BY <2>1, <2>2, RegisterWatches
<1>4. CASE Poll
  <2>. SUFFICES ASSUME NEW i \in DOMAIN active', active'[i] \in Locks \ unwatched'
                PROVE  WillEnd(i)'
    BY DEF ReleaseComes, WillEnd
  <2>1. i \in DOMAIN active /\ active'[i] = active[i]
    BY <1>4, PollRemoves
  <2>2. watch' = watch /\ unwatched' = unwatched
    BY <1>4 DEF Poll
  <2>3. WillEnd(i)
    BY <2>1, <2>2 DEF ReleaseComes, WillEnd
  <2>4. CASE queue' = queue
    BY <2>1, <2>2, <2>3, <2>4 DEF WillEnd
  <2>5. CASE DOMAIN active' \cap Queued = {}
    <3>1. i \notin Queued
      BY <2>5
    <3>2. ~\E n \in DOMAIN queue : queue[n] = [id |-> i, lock |-> active[i]]
      BY <3>1 DEF Queued
    <3>. QED
      BY <2>1, <2>2, <2>3, <3>2 DEF WillEnd
  <2>. QED
    BY <1>4, <2>4, <2>5, PollRemoves
<1>5. ASSUME NEW f \in Forwards, InhibitServing(f) \/ InhibitMonitoring(f)
      PROVE  ReleaseComes'
  <2>1. \E id : Place(f, id)
    BY <1>5 DEF InhibitServing, InhibitMonitoring
  <2>2. queue' = queue
    BY <2>1 DEF Place, threadVars
  <2>. QED
    BY <2>1, <2>2, PlaceReleases
<1>6. ASSUME NEW f \in Forwards, UnInhibit(f)
      PROVE  ReleaseComes'
  <2>1. DOMAIN active' \subseteq DOMAIN active /\ \A i \in DOMAIN active' : active'[i] = active[i]
    BY <1>6 DEF UnInhibit, MapErase
  <2>2. UNCHANGED <<watch, queue, unwatched>>
    BY <1>6 DEF UnInhibit, threadVars
  <2>. QED
    BY <2>1, <2>2 DEF ReleaseComes
<1>7. ASSUME NEW t \in watch, StackReused(t)
      PROVE  ReleaseComes'
  <2>1. PICK p : /\ watch' = (watch \ {t}) \cup {[t EXCEPT !.path = p]}
                 /\ [t EXCEPT !.path = p].lock = t.lock
                 /\ [t EXCEPT !.path = p].id = t.id
    BY <1>7, ReuseKeeps
  <2>2. \A u \in watch : \E v \in watch' : v.lock = u.lock /\ v.id = u.id
    BY <2>1
  <2>3. UNCHANGED <<active, queue, unwatched>>
    BY <1>7 DEF StackReused
  <2>. SUFFICES ASSUME NEW i \in DOMAIN active', active'[i] \in Locks \ unwatched'
                PROVE  WillEnd(i)'
    BY DEF ReleaseComes, WillEnd
  <2>4. WillEnd(i)
    BY <2>3 DEF ReleaseComes, WillEnd
  <2>. QED
    BY <2>2, <2>3, <2>4 DEF WillEnd
<1>8. ASSUME NEW t \in watch, ThreadEnds(t)
      PROVE  ReleaseComes'
  <2>1. /\ DOMAIN queue' = DOMAIN queue \cup {Len(queue) + 1}
        /\ \A n \in DOMAIN queue : queue'[n] = queue[n]
        /\ queue'[Len(queue) + 1] = [id |-> t.id, lock |-> t.lock]
    BY <1>8, ThreadQueues
  <2>2. watch' = watch \ {t} /\ UNCHANGED <<active, unwatched>>
    BY <1>8 DEF ThreadEnds
  <2>. SUFFICES ASSUME NEW i \in DOMAIN active', active'[i] \in Locks \ unwatched'
                PROVE  WillEnd(i)'
    BY DEF ReleaseComes, WillEnd
  <2>3. WillEnd(i)
    BY <2>2 DEF ReleaseComes, WillEnd
  <2>. QED
    BY <2>1, <2>2, <2>3 DEF WillEnd
<1>. QED
  BY <1>1, <1>2, <1>3, <1>4, <1>5, <1>6, <1>7, <1>8
  DEF Next, Applications, Ask, Drop, Hub, Loop, IgnoreEcho, Threads, vars, threadVars

\* Every lock of an application that is registered is watched by its own thread or
\* waits in releaseQueue for poll(), whatever ids were given twice, whichever
\* callbacks threw in poll(), and whatever a thread's path came to name; the only
\* exception is a lock whose registration threw before its thread was started.
THEOREM ReleasesCome == Spec => []ReleaseComes
<1>1. Init => ReleaseComes
  BY DEF Init, ReleaseComes, EmptyMap
<1>. QED
  BY <1>1, AlwaysTyped, ReleaseStep, PTL DEF Spec

----------------------------------------------------------------------------
(* As long as no id was given twice                                        *)

WatchedAreActive ==
    \A t \in watch : t.id \in DOMAIN active /\ active[t.id] = t.lock /\ t.id \notin Queued

WatchedApart == \A t, u \in watch : t.id = u.id => t = u

QueuedAreTheirs ==
    \A n \in DOMAIN queue :
        queue[n].id \in DOMAIN active => active[queue[n].id] = queue[n].lock

PlacedAreActive ==
    \A f \in DOMAIN placed :
        placed[f] # Denied => placed[f] \in DOMAIN active /\ active[placed[f]] = f

\* Each id stands for one thing, wherever it is kept: in a thread, in the queue,
\* in the registry or with the hub.
OneMeaning == WatchedAreActive /\ WatchedApart /\ QueuedAreTheirs /\ PlacedAreActive

IdInv == ~clashed => OneMeaning

\* A new id that is in use nowhere keeps its meaning.
LEMMA RegisterMeans ==
    ASSUME TypeInv, OneMeaning, NEW id \in Nat, NEW l \in Locks, NEW thrown \in BOOLEAN,
           Register(id, l), Watch(id, l, thrown), ~clashed',
           UNCHANGED <<queue, placed>>
    PROVE  OneMeaning'
<1>0. ~Clashes(id)
  <2>1. clashed' = (clashed \/ Clashes(id))
    BY DEF Register
  <2>. HIDE DEF Clashes
  <2>. QED
    BY <2>1, Zenon
<1>1. id \notin DOMAIN active /\ id \notin Queued
  <2>1. id # Denied
    BY DEF Denied
  <2>. QED
    BY <1>0, <2>1 DEF Clashes
<1>2. /\ DOMAIN active' = DOMAIN active \cup {id}
      /\ \A i \in DOMAIN active : active'[i] = active[i]
      /\ active'[id] = l
  BY <1>1 DEF Register, MapInsert
<1>. DEFINE new == [lock |-> l, id |-> id, path |-> l]
<1>3. new.lock = l /\ new.id = id
  OBVIOUS
<1>4. \A t \in watch' : t \in watch \/ t = new
  BY DEF Watch
<1>. HIDE DEF new
<1>5. Queued' = Queued
  BY DEF Queued
<1>6. WatchedAreActive'
  BY <1>1, <1>2, <1>3, <1>4, <1>5 DEF OneMeaning, WatchedAreActive
<1>7. WatchedApart'
  <2>. SUFFICES ASSUME NEW t \in watch', NEW u \in watch', t.id = u.id
                PROVE  t = u
    BY DEF WatchedApart
  <2>1. \A v \in watch : v.id # id
    BY <1>1 DEF OneMeaning, WatchedAreActive
  <2>. QED
    BY <1>3, <1>4, <2>1 DEF OneMeaning, WatchedApart
<1>8. QueuedAreTheirs'
  <2>1. \A n \in DOMAIN queue : queue[n].id # id
    BY <1>1 DEF Queued
  <2>. QED
    BY <1>2, <2>1 DEF OneMeaning, QueuedAreTheirs
<1>9. PlacedAreActive'
  BY <1>2 DEF OneMeaning, PlacedAreActive
<1>. QED
  BY <1>6, <1>7, <1>8, <1>9 DEF OneMeaning

LEMMA PlaceMeans ==
    ASSUME TypeInv, OneMeaning, NEW f \in Forwards, NEW id \in Nat \cup {Denied},
           f \notin DOMAIN placed, Place(f, id), ~clashed'
    PROVE  OneMeaning'
<1>1. id # Denied => id \notin DOMAIN active /\ id \notin Queued
  BY DEF Place, Clashes
<1>2. /\ DOMAIN active' = DOMAIN active \cup {id}
      /\ \A i \in DOMAIN active : active'[i] = active[i]
      /\ id # Denied => active'[id] = f
  BY <1>1 DEF Place, MapInsert
<1>3. UNCHANGED <<watch, queue>> /\ Queued' = Queued
  BY DEF Place, threadVars, Queued
<1>4. WatchedAreActive'
  BY <1>2, <1>3 DEF OneMeaning, WatchedAreActive
<1>5. WatchedApart'
  BY <1>3 DEF OneMeaning, WatchedApart
<1>6. QueuedAreTheirs'
  <2>1. \A n \in DOMAIN queue : queue[n].id \in Nat
    <3>. TAKE n \in DOMAIN queue
    <3>1. queue \in Seq(Entry)
      BY DEF TypeInv, TypeOK, Entry
    <3>2. queue[n] \in Entry
      BY <3>1, ElementOfSeq, LenProperties
    <3>. QED
      BY <3>2 DEF Entry
  <2>2. \A n \in DOMAIN queue : queue[n].id # id
    <3>1. Denied \notin Nat
      BY DEF Denied
    <3>. QED
      BY <1>1, <2>1, <3>1 DEF Queued
  <2>. QED
    BY <1>2, <1>3, <2>2 DEF OneMeaning, QueuedAreTheirs
<1>7. PlacedAreActive'
  <2>1. DOMAIN placed' = DOMAIN placed \cup {f}
    BY DEF Place, MapInsert
  <2>2. \A g \in DOMAIN placed' : placed'[g] = IF g = f THEN id ELSE placed[g]
    BY DEF Place, MapInsert
  <2>. QED
    BY <1>2, <2>1, <2>2 DEF OneMeaning, PlacedAreActive
<1>. QED
  BY <1>4, <1>5, <1>6, <1>7 DEF OneMeaning

\* What the hub gives up was its own.
LEMMA UnInhibitMeans ==
    ASSUME TypeInv, OneMeaning, NEW f \in Forwards, UnInhibit(f)
    PROVE  OneMeaning'
<1>. DEFINE id == placed[f]
<1>1. /\ DOMAIN active' = DOMAIN active \ {id}
      /\ \A i \in DOMAIN active' : active'[i] = active[i]
  BY DEF UnInhibit, MapErase
<1>2. UNCHANGED <<watch, queue>> /\ Queued' = Queued
  BY DEF UnInhibit, threadVars, Queued
<1>3. /\ DOMAIN placed' = DOMAIN placed \ {f}
      /\ \A g \in DOMAIN placed' : placed'[g] = placed[g]
      /\ f \in DOMAIN placed
  BY DEF UnInhibit, MapErase
<1>4. id # Denied => id \in DOMAIN active /\ active[id] = f
  BY <1>3 DEF OneMeaning, PlacedAreActive
<1>. HIDE DEF id
<1>5. \A t \in watch : t.id # id
  <2>. TAKE t \in watch
  <2>1. t \in Thread
    BY DEF TypeInv, TypeOK
  <2>2. t.id \in Nat /\ t.lock \in Locks /\ active[t.id] = t.lock
    BY <2>1 DEF Thread, OneMeaning, WatchedAreActive
  <2>3. f \notin Locks
    BY NamesAssumption
  <2>4. Denied \notin Nat
    BY DEF Denied
  <2>. QED
    BY <1>4, <2>2, <2>3, <2>4
<1>6. WatchedAreActive'
  BY <1>1, <1>2, <1>5 DEF OneMeaning, WatchedAreActive
<1>7. WatchedApart'
  BY <1>2 DEF OneMeaning, WatchedApart
<1>8. QueuedAreTheirs'
  BY <1>1, <1>2 DEF OneMeaning, QueuedAreTheirs
<1>9. PlacedAreActive'
  <2>. SUFFICES ASSUME NEW g \in DOMAIN placed', placed'[g] # Denied
                PROVE  placed'[g] \in DOMAIN active' /\ active'[placed'[g]] = g
    BY DEF PlacedAreActive
  <2>1. g \in DOMAIN placed /\ g # f /\ placed'[g] = placed[g]
    BY <1>3
  <2>2. placed[g] \in DOMAIN active /\ active[placed[g]] = g
    BY <2>1 DEF OneMeaning, PlacedAreActive
  <2>3. placed[g] # id
    BY <1>4, <2>1, <2>2
  <2>. QED
    BY <1>1, <2>1, <2>2, <2>3
<1>. QED
  BY <1>6, <1>7, <1>8, <1>9 DEF OneMeaning

LEMMA PollMeans ==
    ASSUME TypeInv, OneMeaning, Poll
    PROVE  OneMeaning'
<1>1. UNCHANGED <<watch, placed>>
  BY DEF Poll, hubVars
<1>2. /\ \A id \in DOMAIN active \ DOMAIN active' : id \in Queued
      /\ DOMAIN active' \subseteq DOMAIN active
      /\ \A id \in DOMAIN active' : active'[id] = active[id]
      /\ queue' = queue \/ DOMAIN queue' = {}
  BY PollRemoves
<1>3. Queued' \subseteq Queued
  BY <1>2 DEF Queued
<1>4. WatchedAreActive'
  BY <1>1, <1>2, <1>3 DEF OneMeaning, WatchedAreActive
<1>5. WatchedApart'
  BY <1>1 DEF OneMeaning, WatchedApart
<1>6. QueuedAreTheirs'
  BY <1>2 DEF OneMeaning, QueuedAreTheirs
<1>7. PlacedAreActive'
  <2>. SUFFICES ASSUME NEW f \in DOMAIN placed, placed[f] # Denied
                PROVE  placed[f] \in DOMAIN active' /\ active'[placed[f]] = f
    BY <1>1 DEF PlacedAreActive
  <2>1. placed[f] \in DOMAIN active /\ active[placed[f]] = f
    BY DEF OneMeaning, PlacedAreActive
  <2>2. f \in Forwards
    BY DEF TypeInv, TypeOK
  <2>3. placed[f] \notin Queued
    <3>. SUFFICES ASSUME NEW n \in DOMAIN queue, queue[n].id = placed[f]
                  PROVE  FALSE
      BY DEF Queued
    <3>1. queue[n].lock = f
      BY <2>1 DEF OneMeaning, QueuedAreTheirs
    <3>2. queue[n] \in Entry
      <4>1. queue \in Seq(Entry)
        BY DEF TypeInv, TypeOK, Entry
      <4>. QED
        BY <4>1, ElementOfSeq, LenProperties
    <3>. QED
      BY <2>2, <3>1, <3>2, NamesAssumption DEF Entry
  <2>. QED
    BY <1>2, <2>1, <2>3
<1>. QED
  BY <1>4, <1>5, <1>6, <1>7 DEF OneMeaning

LEMMA ThreadMeans ==
    ASSUME TypeInv, OneMeaning, NEW t \in watch, ThreadEnds(t)
    PROVE  OneMeaning'
<1>1. /\ DOMAIN queue' = DOMAIN queue \cup {Len(queue) + 1}
      /\ \A n \in DOMAIN queue : queue'[n] = queue[n]
      /\ queue'[Len(queue) + 1] = [id |-> t.id, lock |-> t.lock]
  BY ThreadQueues
<1>2. watch' = watch \ {t} /\ UNCHANGED <<active, placed>>
  BY DEF ThreadEnds, hubVars
<1>3. Queued' = Queued \cup {t.id}
  BY <1>1 DEF Queued
<1>4. WatchedAreActive'
  BY <1>2, <1>3 DEF OneMeaning, WatchedAreActive, WatchedApart
<1>5. WatchedApart'
  BY <1>2 DEF OneMeaning, WatchedApart
<1>6. QueuedAreTheirs'
  BY <1>1, <1>2 DEF OneMeaning, QueuedAreTheirs, WatchedAreActive
<1>7. PlacedAreActive'
  BY <1>2 DEF OneMeaning, PlacedAreActive
<1>. QED
  BY <1>4, <1>5, <1>6, <1>7 DEF OneMeaning

LEMMA ReuseMeans ==
    ASSUME TypeInv, OneMeaning, NEW t \in watch, StackReused(t)
    PROVE  OneMeaning'
<1>1. PICK p : /\ watch' = (watch \ {t}) \cup {[t EXCEPT !.path = p]}
               /\ [t EXCEPT !.path = p].lock = t.lock
               /\ [t EXCEPT !.path = p].id = t.id
  BY ReuseKeeps
<1>. DEFINE moved == [t EXCEPT !.path = p]
<1>. HIDE DEF moved
<1>2. watch' = (watch \ {t}) \cup {moved} /\ moved.lock = t.lock /\ moved.id = t.id
  BY <1>1 DEF moved
<1>3. UNCHANGED <<active, queue, placed>> /\ Queued' = Queued
  BY DEF StackReused, hubVars, Queued
<1>4. WatchedAreActive'
  BY <1>2, <1>3 DEF OneMeaning, WatchedAreActive
<1>5. WatchedApart'
  BY <1>2 DEF OneMeaning, WatchedApart
<1>. QED
  BY <1>3, <1>4, <1>5 DEF OneMeaning, QueuedAreTheirs, PlacedAreActive

\* The history never forgets a clash, and monitor never changes.
LEMMA HistoryStays ==
    ASSUME [Next]_vars
    PROVE  (~clashed' => ~clashed) /\ monitor' = monitor
<1>1. ~clashed' => ~clashed
  BY DEF Next, Applications, Ask, Drop, Hub, InhibitServing, InhibitMonitoring, UnInhibit,
         Place, Loop, ServeLock, MonitorLock, IgnoreEcho, Poll, Threads, ThreadEnds,
         StackReused, Register, vars
<1>2. monitor' = monitor
  BY DEF Next, Applications, Ask, Drop, Hub, InhibitServing, InhibitMonitoring, UnInhibit,
         Place, Loop, ServeLock, MonitorLock, IgnoreEcho, Poll, Threads, ThreadEnds,
         StackReused, vars
<1>. QED
  BY <1>1, <1>2

LEMMA IdStep == TypeInv /\ IdInv /\ [Next]_vars => IdInv'
<1>. SUFFICES ASSUME TypeInv, IdInv, [Next]_vars, ~clashed'
              PROVE  OneMeaning'
  BY DEF IdInv
<1>1. ~clashed
  BY HistoryStays
<1>. USE <1>1
<1>2. OneMeaning
  BY DEF IdInv
<1>3. CASE UNCHANGED <<active, watch, queue, placed>>
  BY <1>2, <1>3 DEF OneMeaning, WatchedAreActive, WatchedApart, QueuedAreTheirs,
                    PlacedAreActive, Queued
<1>4. CASE ServeLock
  <2>1. PICK thrown \in {FALSE, HubThrows} : Watch(Free(FirstFd, fds, 2), Head(inbox), thrown)
    BY <1>4 DEF ServeLock
  <2>2. Register(Free(FirstFd, fds, 2), Head(inbox)) /\ UNCHANGED <<queue, placed>>
    BY <1>4 DEF ServeLock, hubVars
  <2>3. Head(inbox) \in Locks /\ thrown \in BOOLEAN
    BY <1>4, HeadIsLock, SystemdBoundsAssumption DEF ServeLock
  <2>4. Free(FirstFd, fds, 2) \in Nat
    BY FreeFds
  <2>. QED
    BY <1>2, <2>1, <2>2, <2>3, <2>4, RegisterMeans
<1>5. CASE MonitorLock
  <2>1. PICK read \in 1..Len(inbox), thrown \in {FALSE, HubThrows} :
          /\ Register(Free(FirstFd, fds, read + 1), Head(inbox))
          /\ Watch(Free(FirstFd, fds, read + 1), Head(inbox), thrown)
    BY <1>5 DEF MonitorLock
  <2>2. UNCHANGED <<queue, placed>> /\ Head(inbox) \in Locks /\ thrown \in BOOLEAN
    BY <1>5, HeadIsLock, SystemdBoundsAssumption DEF MonitorLock, hubVars
  <2>3. read + 1 \in Nat \ {0}
    BY <1>5, <2>1, HeadIsLock DEF MonitorLock
  <2>4. Free(FirstFd, fds, read + 1) \in Nat
    BY <2>3, FreeFds
  <2>. QED
    BY <1>2, <2>1, <2>2, <2>4, RegisterMeans
<1>6. CASE Poll
  BY <1>2, <1>6, PollMeans
<1>7. ASSUME NEW f \in Forwards, InhibitServing(f) \/ InhibitMonitoring(f)
      PROVE  OneMeaning'
  <2>1. PICK id : Place(f, id) /\ id \in Nat \cup {Denied}
    <3>1. Free(FirstFd, fds, 1) \in Nat /\ Free(HelperFd, DOMAIN helper, 2) \in Nat
      BY FreeFds
    <3>. QED
      BY <1>7, <3>1 DEF InhibitServing, InhibitMonitoring
  <2>2. f \notin DOMAIN placed
    BY <1>7 DEF InhibitServing, InhibitMonitoring
  <2>. QED
    BY <1>2, <2>1, <2>2, PlaceMeans
<1>8. ASSUME NEW f \in Forwards, UnInhibit(f)
      PROVE  OneMeaning'
  BY <1>2, <1>8, UnInhibitMeans
<1>9. ASSUME NEW t \in watch, StackReused(t) \/ ThreadEnds(t)
      PROVE  OneMeaning'
  BY <1>2, <1>9, ReuseMeans, ThreadMeans
<1>. QED
  BY <1>3, <1>4, <1>5, <1>6, <1>7, <1>8, <1>9
  DEF Next, Applications, Ask, Drop, Hub, Loop, IgnoreEcho, Threads, vars, hubVars, threadVars

LEMMA AlwaysOneMeaning == Spec => []IdInv
<1>1. Init => IdInv
  BY DEF Init, IdInv, OneMeaning, WatchedAreActive, WatchedApart, QueuedAreTheirs,
         PlacedAreActive, EmptyMap
<1>. QED
  BY <1>1, AlwaysTyped, IdStep, PTL DEF Spec

\* Ids are unique as include/InhibitInterface.hpp says they are, until the first
\* one is given that an inhibit has, or an entry of releaseQueue: giving out a
\* descriptor's number too early is the only way two inhibits get one id.
THEOREM UniqueUntilClash == Spec => [](~clashed => IdsUnique)
<1>1. TypeInv /\ IdInv => (~clashed => IdsUnique)
  <2>. SUFFICES ASSUME TypeInv, OneMeaning
                PROVE  IdsUnique
    BY DEF IdInv
  <2>1. \A t, u \in watch : t.id = u.id => t.lock = u.lock
    BY DEF OneMeaning, WatchedApart
  <2>2. ASSUME NEW t \in watch, NEW f \in DOMAIN placed
        PROVE  placed[f] # t.id
    <3>1. t \in Thread /\ f \in Forwards
      BY DEF TypeInv, TypeOK
    <3>2. t.id \in Nat /\ t.lock \in Locks /\ active[t.id] = t.lock
      BY <3>1 DEF Thread, OneMeaning, WatchedAreActive
    <3>. QED
      BY <3>1, <3>2, NamesAssumption DEF OneMeaning, PlacedAreActive, Denied
  <2>3. \A f, g \in DOMAIN placed : placed[f] = placed[g] /\ placed[f] # Denied => f = g
    BY DEF OneMeaning, PlacedAreActive
  <2>. QED
    BY <2>1, <2>2, <2>3 DEF IdsUnique
<1>. QED
  BY <1>1, AlwaysTyped, AlwaysOneMeaning, PTL

----------------------------------------------------------------------------
(* Nothing is given up early                                               *)

\* While it monitors, a thread that does not watch its own path has lost it.
Misled == monitor => \A t \in watch : t.path = t.lock \/ t.lock \in spoiled

\* What is queued was dropped, or is a lock that may be reported early.
QueueJustified ==
    \A n \in DOMAIN queue :
        \/ lock[queue[n].lock] = "dropped"
        \/ monitor /\ queue[n].lock \in Delay \cup spoiled

EndInv == Misled /\ QueueJustified

\* A lock that was dropped stays dropped.
LEMMA DroppedStays ==
    ASSUME TypeInv, [Next]_vars, NEW l \in Locks, lock[l] = "dropped"
    PROVE  lock'[l] = "dropped"
<1>0. lock \in [Locks -> {"new", "asked", "held", "dropped"}]
  BY DEF TypeInv, TypeOK
<1>1. CASE UNCHANGED lock
  BY <1>1
<1>2. ASSUME NEW k \in Locks, Ask(k) \/ Drop(k)
      PROVE  lock'[l] = "dropped"
  BY <1>0, <1>2 DEF Ask, Drop
<1>3. CASE ServeLock
  BY <1>0, <1>3 DEF ServeLock
<1>. QED
  BY <1>1, <1>2, <1>3
  DEF Next, Applications, Hub, InhibitServing, InhibitMonitoring, UnInhibit, Place, Loop,
      MonitorLock, IgnoreEcho, Poll, Threads, ThreadEnds, StackReused, vars

LEMMA EndStep == TypeInv /\ EndInv /\ [Next]_vars => EndInv'
<1>. SUFFICES ASSUME TypeInv, EndInv, [Next]_vars
              PROVE  EndInv'
  OBVIOUS
<1>1. monitor' = monitor /\ spoiled \subseteq spoiled'
  BY DEF Next, Applications, Ask, Drop, Hub, InhibitServing, InhibitMonitoring, UnInhibit,
         Place, Loop, ServeLock, MonitorLock, IgnoreEcho, Poll, Threads, ThreadEnds,
         StackReused, vars, threadVars
<1>2. \A n \in DOMAIN queue : queue[n] \in Entry
  <2>1. queue \in Seq(Entry)
    BY DEF TypeInv, TypeOK, Entry
  <2>. QED
    BY <2>1, ElementOfSeq, LenProperties
<1>3. ASSUME NEW n \in DOMAIN queue
      PROVE  \/ lock'[queue[n].lock] = "dropped"
             \/ monitor' /\ queue[n].lock \in Delay \cup spoiled'
  <2>1. queue[n].lock \in Locks
    BY <1>2 DEF Entry
  <2>. QED
    BY <1>1, <2>1, DroppedStays DEF EndInv, QueueJustified
<1>4. CASE UNCHANGED <<watch, queue>>
  BY <1>1, <1>3, <1>4 DEF EndInv, Misled, QueueJustified
<1>5. ASSUME NEW id, NEW l, NEW thrown, Watch(id, l, thrown), queue' = queue
      PROVE  EndInv'
  <2>1. \A t \in watch' : t \in watch \/ t.path = t.lock
    BY <1>5 DEF Watch
  <2>. QED
    BY <1>1, <1>3, <1>5, <2>1 DEF EndInv, Misled, QueueJustified
<1>6. CASE Poll
  <2>1. watch' = watch /\ (queue' = queue \/ DOMAIN queue' = {})
    BY <1>6, PollRemoves DEF Poll
  <2>. QED
    BY <1>1, <1>3, <2>1 DEF EndInv, Misled, QueueJustified
<1>7. ASSUME NEW t \in watch, StackReused(t)
      PROVE  EndInv'
  <2>1. PICK p : /\ watch' = (watch \ {t}) \cup {[t EXCEPT !.path = p]}
                 /\ [t EXCEPT !.path = p].lock = t.lock
    BY <1>7, ReuseKeeps
  <2>2. t.lock \in spoiled' /\ queue' = queue
    BY <1>7 DEF StackReused
  <2>. QED
    BY <1>1, <1>3, <2>1, <2>2 DEF EndInv, Misled, QueueJustified
<1>8. ASSUME NEW t \in watch, ThreadEnds(t)
      PROVE  EndInv'
  <2>1. /\ DOMAIN queue' = DOMAIN queue \cup {Len(queue) + 1}
        /\ \A n \in DOMAIN queue : queue'[n] = queue[n]
        /\ queue'[Len(queue) + 1] = [id |-> t.id, lock |-> t.lock]
        /\ t \in Thread
    BY <1>8, ThreadQueues
  <2>2. /\ watch' = watch \ {t} /\ Ended(t)
        /\ UNCHANGED <<monitor, lock, spoiled>>
    BY <1>8 DEF ThreadEnds
  <2>3. t.lock \in Locks
    BY <2>1 DEF Thread
  <2>4. \/ lock[t.lock] = "dropped"
        \/ monitor /\ t.lock \in Delay \cup spoiled
    <3>1. CASE ~monitor
      BY <2>2, <3>1 DEF Ended
    <3>2. CASE monitor /\ t.path = t.lock
      BY <2>2, <2>3, <3>2 DEF Ended, Gone
    <3>3. CASE monitor /\ t.path # t.lock
      BY <3>3 DEF EndInv, Misled
    <3>. QED
      BY <3>1, <3>2, <3>3
  <2>5. QueueJustified'
    <3>1. queue'[Len(queue) + 1].lock = t.lock
      BY <2>1
    <3>. QED
      BY <1>3, <2>1, <2>2, <2>4, <3>1 DEF QueueJustified
  <2>. QED
    BY <1>1, <2>2, <2>5 DEF EndInv, Misled
<1>9. CASE ServeLock
  BY <1>5, <1>9 DEF ServeLock
<1>10. CASE MonitorLock
  BY <1>5, <1>10 DEF MonitorLock
<1>. QED
  BY <1>4, <1>6, <1>7, <1>8, <1>9, <1>10
  DEF Next, Applications, Ask, Drop, Hub, InhibitServing, InhibitMonitoring, UnInhibit, Place,
      Loop, IgnoreEcho, Threads, vars, threadVars

LEMMA AlwaysJustified == Spec => []EndInv
<1>1. Init => EndInv
  BY DEF Init, EndInv, Misled, QueueJustified
<1>. QED
  BY <1>1, AlwaysTyped, EndStep, PTL DEF Spec

\* As long as no id was given twice, a lock that was registered stays registered
\* until its application drops it, through every handler, every call of the hub and
\* whatever a throwing callback leaves in the queue; only a delay lock, or one whose
\* thread lost its path, may end early, and only while we monitor.
THEOREM LocksLast == Spec => LockLasts
<1>. DEFINE Lasts ==
        \A id \in DOMAIN active \ DOMAIN active' :
            active[id] \in Locks /\ ~clashed =>
                \/ lock[active[id]] = "dropped"
                \/ monitor /\ active[id] \in Delay \cup spoiled
<1>1. ASSUME TypeInv, IdInv, EndInv, [Next]_vars
      PROVE  [Lasts]_vars
  <2>. SUFFICES ASSUME NEW id \in DOMAIN active \ DOMAIN active',
                       active[id] \in Locks, ~clashed
                PROVE  \/ lock[active[id]] = "dropped"
                       \/ monitor /\ active[id] \in Delay \cup spoiled
    OBVIOUS
  <2>1. OneMeaning
    BY <1>1 DEF IdInv
  <2>2. CASE Poll
    <3>1. id \in Queued
      BY <1>1, <2>2, PollRemoves
    <3>2. PICK n \in DOMAIN queue : queue[n].id = id
      BY <3>1 DEF Queued
    <3>3. active[id] = queue[n].lock
      BY <2>1, <3>2 DEF OneMeaning, QueuedAreTheirs
    <3>. QED
      BY <1>1, <3>3 DEF EndInv, QueueJustified
  <2>3. ASSUME NEW f \in Forwards, UnInhibit(f)
        PROVE  FALSE
    <3>1. id = placed[f] /\ f \in DOMAIN placed
      BY <2>3 DEF UnInhibit, MapErase
    <3>2. id # Denied => active[id] = f
      BY <2>1, <3>1 DEF OneMeaning, PlacedAreActive
    <3>3. active[id] \in Forwards
      BY <1>1, <3>2 DEF TypeInv, DeniedIsHubs
    <3>. QED
      BY <3>3, NamesAssumption
  <2>4. CASE UNCHANGED active
    BY <2>4
  <2>5. ASSUME NEW i, NEW x, active' = MapInsert(active, i, x)
        PROVE  FALSE
    <3>1. DOMAIN active' = DOMAIN active \cup {i}
      BY <2>5 DEF MapInsert
    <3>. QED
      BY <3>1
  <2>6. ASSUME NEW f \in Forwards, InhibitServing(f) \/ InhibitMonitoring(f)
        PROVE  FALSE
    BY <2>5, <2>6 DEF InhibitServing, InhibitMonitoring, Place
  <2>7. CASE ServeLock
    BY <2>5, <2>7 DEF ServeLock, Register
  <2>8. CASE MonitorLock
    BY <2>5, <2>8 DEF MonitorLock, Register
  <2>. QED
    BY <1>1, <2>2, <2>3, <2>4, <2>6, <2>7, <2>8
    DEF Next, Applications, Ask, Drop, Hub, Loop, IgnoreEcho, Threads, ThreadEnds, StackReused, vars
<1>2. Spec => [][Lasts]_vars
  <2>1. TypeInv /\ IdInv /\ EndInv /\ [Next]_vars => [Lasts]_vars
    BY <1>1
  <2>. HIDE DEF Lasts
  <2>. QED
    BY <2>1, AlwaysTyped, AlwaysOneMeaning, AlwaysJustified, PTL DEF Spec
<1>. QED
  BY <1>2 DEF LockLasts

----------------------------------------------------------------------------
(* The helper process                                                      *)

\* The agreement, read from either side.
Exact ==
    /\ \A n \in DOMAIN helper :
        helper[n] \in DOMAIN placed /\ placed[helper[n]] = n /\ n # Denied
    /\ \A f \in DOMAIN placed :
        placed[f] # Denied => placed[f] \in DOMAIN helper /\ helper[placed[f]] = f

LEMMA ExactAgrees ==
    Exact <=> {<<helper[n], n>> : n \in DOMAIN helper} =
                {<<f, placed[f]>> : f \in {g \in DOMAIN placed : placed[g] # Denied}}
<1>. DEFINE held == {<<helper[n], n>> : n \in DOMAIN helper}
            given == {g \in DOMAIN placed : placed[g] # Denied}
            wanted == {<<f, placed[f]>> : f \in given}
<1>1. ASSUME Exact
      PROVE  held = wanted
  <2>1. held \subseteq wanted
    <3>. SUFFICES ASSUME NEW n \in DOMAIN helper
                  PROVE  <<helper[n], n>> \in wanted
      OBVIOUS
    <3>1. helper[n] \in given /\ placed[helper[n]] = n
      BY <1>1 DEF Exact
    <3>. QED
      BY <3>1
  <2>2. wanted \subseteq held
    <3>. SUFFICES ASSUME NEW f \in given
                  PROVE  <<f, placed[f]>> \in held
      OBVIOUS
    <3>1. placed[f] \in DOMAIN helper /\ helper[placed[f]] = f
      BY <1>1 DEF Exact
    <3>. QED
      BY <3>1
  <2>. QED
    BY <2>1, <2>2
<1>2. ASSUME held = wanted
      PROVE  Exact
  <2>1. ASSUME NEW n \in DOMAIN helper
        PROVE  helper[n] \in DOMAIN placed /\ placed[helper[n]] = n /\ n # Denied
    <3>1. <<helper[n], n>> \in wanted
      BY <1>2
    <3>2. PICK f \in given : <<helper[n], n>> = <<f, placed[f]>>
      BY <3>1
    <3>. QED
      BY <3>2
  <2>2. ASSUME NEW f \in DOMAIN placed, placed[f] # Denied
        PROVE  placed[f] \in DOMAIN helper /\ helper[placed[f]] = f
    <3>1. <<f, placed[f]>> \in held
      BY <1>2, <2>2
    <3>2. PICK n \in DOMAIN helper : <<f, placed[f]>> = <<helper[n], n>>
      BY <3>1
    <3>. QED
      BY <3>2
  <2>. QED
    BY <2>1, <2>2 DEF Exact
<1>. QED
  BY <1>1, <1>2

LEMMA HelperStep == TypeInv /\ IdInv /\ HelperAgrees /\ [Next]_vars => HelperAgrees'
<1>. SUFFICES ASSUME TypeInv, IdInv, HelperAgrees, [Next]_vars, monitor', ~clashed'
              PROVE  Exact'
  <2>1. (Exact <=> {<<helper[n], n>> : n \in DOMAIN helper} =
            {<<f, placed[f]>> : f \in {g \in DOMAIN placed : placed[g] # Denied}})'
    BY ExactAgrees, PTL
  <2>. QED
    BY <2>1 DEF HelperAgrees
<1>1. monitor /\ ~clashed
  BY HistoryStays
<1>2. OneMeaning
  BY <1>1 DEF IdInv
<1>3. Exact
  BY <1>1, ExactAgrees DEF HelperAgrees
<1>4. Denied \notin Nat
  BY DEF Denied
<1>5. CASE UNCHANGED <<helper, placed>>
  BY <1>3, <1>5 DEF Exact
<1>6. ASSUME NEW f \in Forwards, InhibitMonitoring(f)
      PROVE  Exact'
  <2>. DEFINE n == Free(HelperFd, DOMAIN helper, 2)
  <2>1. n \in Nat /\ n \notin DOMAIN helper
    BY FreeFds
  <2>. HIDE DEF n
  <2>2. f \notin DOMAIN placed
    BY <1>6 DEF InhibitMonitoring
  <2>3. CASE helper' = MapInsert(helper, n, f) /\ Place(f, n)
    <3>1. /\ DOMAIN placed' = DOMAIN placed \cup {f}
          /\ \A g \in DOMAIN placed' : placed'[g] = IF g = f THEN n ELSE placed[g]
      BY <2>2, <2>3 DEF Place, MapInsert
    <3>2. /\ DOMAIN helper' = DOMAIN helper \cup {n}
          /\ \A k \in DOMAIN helper' : helper'[k] = IF k = n THEN f ELSE helper[k]
      BY <2>1, <2>3 DEF MapInsert
    <3>. QED
      BY <1>3, <1>4, <2>1, <2>2, <3>1, <3>2 DEF Exact
  <2>4. CASE helper' = helper /\ Place(f, Denied)
    <3>1. /\ DOMAIN placed' = DOMAIN placed \cup {f}
          /\ \A g \in DOMAIN placed' : placed'[g] = IF g = f THEN Denied ELSE placed[g]
      BY <2>2, <2>4 DEF Place, MapInsert
    <3>. QED
      BY <1>3, <2>2, <2>4, <3>1 DEF Exact
  <2>. QED
    BY <1>6, <2>3, <2>4 DEF InhibitMonitoring, n
<1>7. ASSUME NEW f \in Forwards, UnInhibit(f)
      PROVE  Exact'
  <2>. DEFINE id == placed[f]
  <2>1. /\ DOMAIN placed' = DOMAIN placed \ {f}
        /\ \A g \in DOMAIN placed' : placed'[g] = placed[g]
        /\ f \in DOMAIN placed
    BY <1>7 DEF UnInhibit, MapErase
  <2>2. id # Denied => id \in DOMAIN active
    BY <1>2, <2>1 DEF OneMeaning, PlacedAreActive
  <2>3. DOMAIN helper \subseteq Nat
    BY DEF TypeInv, TypeOK
  <2>4. /\ DOMAIN helper' = DOMAIN helper \ {id}
        /\ \A n \in DOMAIN helper' : helper'[n] = helper[n]
    <3>1. CASE id \in DOMAIN active
      BY <1>1, <1>7, <3>1 DEF UnInhibit, HelperReleases, MapErase
    <3>2. CASE id \notin DOMAIN active
      BY <1>4, <1>7, <2>2, <2>3, <3>2 DEF UnInhibit
    <3>. QED
      BY <3>1, <3>2
  <2>. QED
    BY <1>3, <2>1, <2>4 DEF Exact
<1>. QED
  BY <1>1, <1>5, <1>6, <1>7
  DEF Next, Applications, Ask, Drop, Hub, InhibitServing, Loop, ServeLock, MonitorLock,
      IgnoreEcho, Poll, Threads, ThreadEnds, StackReused, vars, hubVars

\* As long as no id was given twice, the helper process holds logind's locks exactly
\* for the requests in force that it was not denied, under the numbers that were
\* returned to the hub: none is leaked and none released that is needed.
THEOREM HelperIsExact == Spec => []HelperAgrees
<1>1. Init => HelperAgrees
  BY DEF Init, HelperAgrees, EmptyMap
<1>. QED
  BY <1>1, AlwaysTyped, AlwaysOneMeaning, HelperStep, PTL DEF Spec

=============================================================================
