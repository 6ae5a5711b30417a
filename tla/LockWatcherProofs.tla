------------------------- MODULE LockWatcherProofs --------------------------
(***************************************************************************)
(* Proofs about the kernel's wake locks and sxmo's tokens, for any names,  *)
(* any bounds and both interfaces.                                         *)
(***************************************************************************)
EXTENDS LockWatcher, FiniteSetTheorems, SequenceTheorems, TLAPS

----------------------------------------------------------------------------
(* Sequences                                                               *)

LEMMA QueueFacts ==
    ASSUME NEW S, NEW s \in Seq(S)
    PROVE  /\ ToSet(s) \subseteq S
           /\ \A e \in S : Append(s, e) \in Seq(S) /\ ToSet(Append(s, e)) = ToSet(s) \cup {e}
           /\ s # <<>> => /\ Head(s) \in ToSet(s) /\ Tail(s) \in Seq(S)
                          /\ ToSet(Tail(s)) \subseteq ToSet(s)
                          /\ ToSet(s) \subseteq ToSet(Tail(s)) \cup {Head(s)}
<1>1. ToSet(s) \subseteq S
  BY ElementOfSeq, LenProperties DEF ToSet
<1>2. ASSUME NEW e \in S
      PROVE  Append(s, e) \in Seq(S) /\ ToSet(Append(s, e)) = ToSet(s) \cup {e}
  <2>1. DOMAIN Append(s, e) = 1..Len(s) + 1 /\ DOMAIN s = 1..Len(s) /\ Len(s) \in Nat
    BY LenProperties
  <2>2. \A n \in 1..Len(s) + 1 : Append(s, e)[n] = IF n = Len(s) + 1 THEN e ELSE s[n]
    BY <2>1
  <2>. QED
    BY <2>1, <2>2, AppendProperties DEF ToSet
<1>3. ASSUME s # <<>>
      PROVE  /\ Head(s) \in ToSet(s) /\ Tail(s) \in Seq(S)
             /\ ToSet(Tail(s)) \subseteq ToSet(s)
             /\ ToSet(s) \subseteq ToSet(Tail(s)) \cup {Head(s)}
  <2>1. Len(s) \in Nat \ {0} /\ DOMAIN s = 1..Len(s)
    BY <1>3, EmptySeq, LenProperties
  <2>2. /\ Tail(s) \in Seq(S) /\ Len(Tail(s)) = Len(s) - 1
        /\ \A n \in 1..Len(Tail(s)) : Tail(s)[n] = s[n + 1]
    BY <1>3, HeadTailProperties
  <2>3. DOMAIN Tail(s) = 1..Len(s) - 1
    BY <2>2, LenProperties
  <2>4. Head(s) = s[1]
    BY <1>3
  <2>5. ToSet(s) \subseteq ToSet(Tail(s)) \cup {Head(s)}
    <3>. SUFFICES ASSUME NEW n \in 1..Len(s), n # 1
                  PROVE  s[n] \in ToSet(Tail(s))
      BY <2>1, <2>4 DEF ToSet
    <3>1. n - 1 \in 1..Len(s) - 1 /\ s[n] = Tail(s)[n - 1]
      BY <2>1, <2>2
    <3>. QED
      BY <2>3, <3>1 DEF ToSet
  <2>. QED
    BY <2>1, <2>2, <2>3, <2>4, <2>5 DEF ToSet
<1>. QED
  BY <1>1, <1>2, <1>3

\* SetToSeq lists a finite set.
LEMMA SetToSeqFacts ==
    ASSUME NEW S, IsFiniteSet(S)
    PROVE  SetToSeq(S) \in Seq(S) /\ ToSet(SetToSeq(S)) = S
<1>. DEFINE c == Cardinality(S)
            f == SetToSeq(S)
<1>1. c \in Nat /\ ExistsBijection(1..c, S)
  BY FS_CardinalityType
<1>2. \E g \in [1..c -> S] : IsInjective(g)
  BY <1>1 DEF ExistsBijection, Bijection, Injection
<1>3. f \in [1..c -> S] /\ IsInjective(f)
  BY <1>2 DEF SetToSeq
<1>4. f \in Seq(S) /\ DOMAIN f = 1..c
  BY <1>1, <1>3, SeqDef
<1>5. f \in Surjection(1..c, S)
  <2>1. f \in Injection(1..c, S)
    BY <1>3 DEF Injection
  <2>2. IsFiniteSet(1..c) /\ Cardinality(1..c) = c
    BY <1>1, FS_Interval
  <2>. QED
    BY <1>1, <2>1, <2>2, FS_Injection
<1>6. ToSet(f) = S
  BY <1>3, <1>4, <1>5 DEF ToSet, Surjection
<1>. QED
  BY <1>4, <1>6

----------------------------------------------------------------------------
(* Types                                                                   *)

\* A thread that is in the middle of something is so with a name.
Named ==
    /\ main.op \in {"taking", "taken", "freeing", "freed"} => main.name \in Names
    /\ watcher.at \in {"looking", "queueing", "unqueueing"} => watcher.name \in Names

\* Only finitely many names are active, so that handleExit can list them.
TypeInv == TypeOK /\ Named /\ IsFiniteSet(active)

\* What a write leaves: sxmo's tells the watcher, or finds no watch in place.
LEMMA WriteFacts ==
    ASSUME TypeInv, NEW names \in SUBSET Names, Write(names)
    PROVE  /\ listed' \subseteq Names /\ listed' = names
           /\ events' \in Seq(Event) /\ watched' \in BOOLEAN
           /\ kind = SXMO => events' # <<>> \/ ~watched'
<1>1. events \in Seq(Event) /\ watched \in BOOLEAN
  BY DEF TypeInv, TypeOK
<1>2. CASE UNCHANGED <<events, watched>> /\ kind = KERNEL
  BY <1>1, <1>2 DEF Write, KERNEL, SXMO
<1>3. ASSUME events' = IF ~watched \/ (events # <<>> /\ Last(events) = "modify")
                       THEN events ELSE Append(events, "modify"),
             watched' = watched
      PROVE  events' \in Seq(Event) /\ (events' # <<>> \/ ~watched')
  <2>1. Append(events, "modify") \in Seq(Event) /\ Append(events, "modify") # <<>>
    BY <1>1, AppendProperties DEF Event
  <2>. QED
    BY <1>1, <1>3, <2>1
<1>4. ASSUME events' = events \o (IF watched THEN <<"delete_self", "ignored">> ELSE <<>>)
                              \o <<"create">>,
             watched' = FALSE
      PROVE  events' \in Seq(Event)
  <2>. DEFINE gone == IF watched THEN <<"delete_self", "ignored">> ELSE <<>>
  <2>1. gone \in Seq(Event) /\ <<"create">> \in Seq(Event)
    <3>1. <<"delete_self">> \in Seq(Event) /\ <<"create">> \in Seq(Event)
      BY DEF Event
    <3>2. <<"delete_self", "ignored">> \in Seq(Event)
      BY DEF Event
    <3>. QED
      BY <3>1, <3>2, EmptySeq
  <2>2. events \o gone \in Seq(Event)
    BY <1>1, <2>1, ConcatProperties
  <2>. HIDE DEF gone
  <2>3. (events \o gone) \o <<"create">> \in Seq(Event)
    BY <2>1, <2>2, ConcatProperties
  <2>. QED
    BY <1>4, <2>3 DEF gone
<1>. QED
  BY <1>1, <1>2, <1>3, <1>4 DEF Write

\* Changing one name keeps activeInhibits finite.
LEMMA ChangeFacts ==
    ASSUME TypeInv, NEW names \in SUBSET Names, Change(names)
    PROVE  /\ active' \subseteq Names /\ racing' \subseteq Names
           /\ IsFiniteSet(names) => IsFiniteSet(active')
           /\ racing' \subseteq racing \cup names
           /\ names \subseteq active => active' = active \ names
           /\ names \cap active = {} => active' = active \cup names
<1>1. active' = (active \cup names) \ (active \cap names)
  BY DEF Change
<1>2. IsFiniteSet(names) => IsFiniteSet(active \cup names)
  BY FS_Union DEF TypeInv
<1>3. IsFiniteSet(names) => IsFiniteSet(active')
  BY <1>1, <1>2, FS_Subset
<1>4. racing' \subseteq racing \cup names
  BY DEF Change
<1>. QED
  BY <1>1, <1>3, <1>4 DEF TypeInv, TypeOK

LEMMA StartTyped == Init => TypeInv
<1>. SUFFICES ASSUME Init
              PROVE  TypeInv
  OBVIOUS
<1>1. /\ pipe \in Seq(Line) /\ regQ \in Seq(Names) /\ unregQ \in Seq(Names)
      /\ events \in Seq(Event)
  BY EmptySeq DEF Init
<1>2. takes \in [Names -> Nat] /\ asks \in [Names -> Nat] /\ want \in [Names -> Nat]
  BY DEF Init
<1>3. /\ main \in [op : Ops, name : Names \cup {NoName}]
      /\ watcher \in [at : Places, todo : SUBSET Names, file : SUBSET Names,
                      name : Names \cup {NoName}]
  BY DEF Init, Ops, Places
<1>4. kind \in Kinds /\ canSend \in BOOLEAN
  BY DEF Init
<1>5. listed \subseteq Names /\ apps \subseteq Names
  BY DEF Init
<1>6. TypeOK
  BY <1>1, <1>2, <1>3, <1>4, <1>5 DEF Init, TypeOK
<1>. QED
  BY <1>6, FS_EmptySet DEF Init, TypeInv, Named

\* The files, the helper and the applications.
LEMMA WorldTyped ==
    ASSUME TypeInv, NEW n \in Names, AppTakes(n) \/ AppFrees(n)
    PROVE  TypeInv'
<1>1. \E names \in SUBSET Names : Write(names)
  BY DEF AppTakes, AppFrees, TypeInv, TypeOK
<1>2. listed' \subseteq Names /\ events' \in Seq(Event) /\ watched' \in BOOLEAN
  BY <1>1, WriteFacts
<1>3. apps' \subseteq Names
  BY DEF AppTakes, AppFrees, TypeInv, TypeOK
<1>4. takes' \in [Names -> Nat]
  <2>1. takes \in [Names -> Nat] /\ takes[n] + 1 \in Nat
    BY DEF TypeInv, TypeOK
  <2>. QED
    BY <2>1 DEF AppTakes, AppFrees
<1>. QED
  BY <1>2, <1>3, <1>4 DEF AppTakes, AppFrees, TypeInv, TypeOK, Named, config, mapVars, queueVars

LEMMA HelperTyped == TypeInv /\ HelperStep => TypeInv'
<1>. SUFFICES ASSUME TypeInv, HelperStep
              PROVE  TypeInv'
  OBVIOUS
<1>1. pipe \in Seq(Line) /\ pipe # <<>>
  BY DEF TypeInv, TypeOK, HelperStep
<1>2. Head(pipe) \in Line /\ pipe' \in Seq(Line)
  BY <1>1, HeadTailProperties DEF HelperStep
<1>3. listed' \subseteq Names
  BY <1>2 DEF HelperStep, Line, TypeInv, TypeOK
<1>. QED
  BY <1>2, <1>3 DEF HelperStep, TypeInv, TypeOK, Named, config, worldVars, mapVars, queueVars

\* The main thread's requests for the hub.
LEMMA RequestsTyped ==
    ASSUME TypeInv,
           \/ \E n \in Names : TakeBegin(n) \/ FreeBegin(n)
           \/ TakeEnd \/ TakeActive \/ FreeEnd \/ FreeActive
    PROVE  TypeInv'
<1>1. main \in [op : Ops, name : Names \cup {NoName}]
  BY DEF TypeInv, TypeOK
<1>2. pipe \in Seq(Line)
  BY DEF TypeInv, TypeOK
<1>3. ASSUME NEW n \in Names, TakeBegin(n)
      PROVE  TypeInv'
  <2>1. main' \in [op : Ops, name : Names \cup {NoName}] /\ asks' \in [Names -> Nat]
    BY <1>3 DEF TakeBegin, Do, Ops, TypeInv, TypeOK
  <2>2. ours' \subseteq Names
    BY <1>3 DEF TakeBegin, TypeInv, TypeOK
  <2>3. listed' \subseteq Names /\ events' \in Seq(Event) /\ watched' \in BOOLEAN
    <3>1. listed \cup {n} \in SUBSET Names
      BY DEF TypeInv, TypeOK
    <3>. QED
      BY <1>3, <3>1, WriteFacts DEF TakeBegin, TypeInv, TypeOK, fileVars
  <2>. QED
    BY <1>3, <2>1, <2>2, <2>3 DEF TakeBegin, Do, TypeInv, TypeOK, Named, config, queueVars
<1>4. ASSUME NEW n \in Names, FreeBegin(n)
      PROVE  TypeInv'
  <2>1. want' \in [Names -> Nat]
    BY <1>4 DEF FreeBegin, Due, TypeInv, TypeOK
  <2>2. main' \in [op : Ops, name : Names \cup {NoName}] /\ ours' \subseteq Names
    BY <1>1, <1>4 DEF FreeBegin, Do, Ops, TypeInv, TypeOK
  <2>3. pipe' \in Seq(Line)
    <3>1. Append(pipe, [what |-> "unlock", name |-> n]) \in Seq(Line)
      BY <1>2, AppendProperties DEF Line
    <3>. QED
      BY <1>2, <1>4, <3>1 DEF FreeBegin
  <2>4. Named'
    BY <1>4 DEF FreeBegin, Do, TypeInv, Named
  <2>5. UNCHANGED <<kind, canSend, listed, events, watched, apps, takes, asks, active,
                    forwarded, racing, regQ, unregQ, watcher>>
    BY <1>4 DEF FreeBegin, config, fileVars, worldVars, queueVars
  <2>. QED
    BY <2>1, <2>2, <2>3, <2>4, <2>5 DEF TypeInv, TypeOK
<1>5. ASSUME main.op \in {"taking", "taken", "freeing", "freed"}, TakeEnd \/ FreeEnd \/ TakeActive \/ FreeActive,
             main.name \in Names
      PROVE  TypeInv'
  <2>1. main' \in [op : Ops, name : Names \cup {NoName}]
    BY <1>1, <1>5 DEF TakeEnd, FreeEnd, TakeActive, FreeActive, Do, Ops
  <2>2. CASE TakeEnd
    <3>1. Append(pipe, [what |-> "lock", name |-> main.name]) \in Seq(Line)
      BY <1>2, <1>5, AppendProperties DEF Line
    <3>2. pipe' \in Seq(Line) /\ ours' \subseteq Names
      BY <1>2, <1>5, <2>2, <3>1 DEF TakeEnd, TypeInv, TypeOK
    <3>. QED
      BY <2>1, <2>2, <3>2 DEF TakeEnd, Do, TypeInv, TypeOK, Named, config, fileVars, worldVars, queueVars
  <2>3. CASE FreeEnd
    <3>1. listed' \subseteq Names /\ events' \in Seq(Event) /\ watched' \in BOOLEAN
      <4>1. listed \ {main.name} \in SUBSET Names
        BY DEF TypeInv, TypeOK
      <4>. QED
        BY <2>3, <4>1, WriteFacts DEF FreeEnd, TypeInv, TypeOK, fileVars
    <3>2. ours' \subseteq Names
      BY <2>3 DEF FreeEnd, TypeInv, TypeOK
    <3>. QED
      BY <2>1, <2>3, <3>1, <3>2 DEF FreeEnd, Do, TypeInv, TypeOK, Named, config, worldVars, queueVars
  <2>4. CASE TakeActive
    <3>1. {main.name} \ active \in SUBSET Names /\ IsFiniteSet({main.name} \ active)
      <4>1. IsFiniteSet({main.name}) /\ {main.name} \ active \subseteq {main.name}
        BY FS_Singleton
      <4>. QED
        BY <1>5, <4>1, FS_Subset
    <3>2. active' \subseteq Names /\ racing' \subseteq Names /\ IsFiniteSet(active')
      BY <2>4, <3>1, ChangeFacts DEF TakeActive
    <3>3. want' \in [Names -> Nat]
      BY <1>5, <2>4 DEF TakeActive, TypeInv, TypeOK
    <3>. QED
      BY <2>1, <2>4, <3>2, <3>3 DEF TakeActive, Do, TypeInv, TypeOK, Named, config, fileVars, worldVars, queueVars
  <2>5. CASE FreeActive
    <3>1. {main.name} \cap active \in SUBSET Names /\ IsFiniteSet({main.name} \cap active)
      <4>1. IsFiniteSet({main.name}) /\ {main.name} \cap active \subseteq {main.name}
        BY FS_Singleton
      <4>. QED
        BY <1>5, <4>1, FS_Subset
    <3>2. active' \subseteq Names /\ racing' \subseteq Names /\ IsFiniteSet(active')
      BY <2>5, <3>1, ChangeFacts DEF FreeActive
    <3>. QED
      BY <2>1, <2>5, <3>2 DEF FreeActive, Do, TypeInv, TypeOK, Named, config, fileVars, worldVars, queueVars
  <2>. QED
    BY <1>5, <2>2, <2>3, <2>4, <2>5
<1>. QED
  BY <1>1, <1>3, <1>4, <1>5 DEF TakeEnd, TakeActive, FreeEnd, FreeActive, TypeInv, Named

\* The main thread's queues.
LEMMA DrainTyped ==
    ASSUME TypeInv, DrainBegin \/ DrainEnd \/ DrainRegister \/ DrainUnregister
    PROVE  TypeInv'
<1>1. CASE DrainBegin \/ DrainEnd
  <2>1. main' \in [op : Ops, name : Names \cup {NoName}] /\ main'.op \in {"draining", "idle"}
    BY <1>1 DEF DrainBegin, DrainEnd, Do, Ops
  <2>. QED
    BY <1>1, <2>1 DEF DrainBegin, DrainEnd, TypeInv, TypeOK, Named, config, fileVars, worldVars,
                      mapVars, queueVars
<1>2. ASSUME NEW q \in Seq(Names), q # <<>>
      PROVE  Head(q) \in Names /\ Tail(q) \in Seq(Names)
  BY <1>2, HeadTailProperties
<1>3. regQ \in Seq(Names) /\ unregQ \in Seq(Names)
  BY DEF TypeInv, TypeOK
<1>4. CASE DrainRegister
  <2>1. Head(regQ) \in Names /\ regQ' \in Seq(Names)
    BY <1>2, <1>3, <1>4 DEF DrainRegister
  <2>2. IsFiniteSet({Head(regQ)} \ active)
    <3>1. IsFiniteSet({Head(regQ)}) /\ {Head(regQ)} \ active \subseteq {Head(regQ)}
      BY FS_Singleton
    <3>. QED
      BY <3>1, FS_Subset
  <2>3. Change({Head(regQ)} \ active) /\ forwarded' = forwarded \cup {Head(regQ)}
    BY <1>4 DEF DrainRegister
  <2>4. active' \subseteq Names /\ racing' \subseteq Names /\ IsFiniteSet(active')
    BY <2>1, <2>2, <2>3, ChangeFacts
  <2>. QED
    BY <1>4, <2>1, <2>3, <2>4 DEF DrainRegister, TypeInv, TypeOK, Named, config, fileVars, worldVars
<1>5. CASE DrainUnregister
  <2>1. Head(unregQ) \in Names /\ unregQ' \in Seq(Names)
    BY <1>2, <1>3, <1>5 DEF DrainUnregister
  <2>2. /\ active' \subseteq Names /\ racing' \subseteq Names /\ IsFiniteSet(active')
        /\ forwarded' \subseteq Names
    <3>1. CASE Head(unregQ) \in active
      <4>1. Change({Head(unregQ)}) /\ forwarded' \subseteq forwarded
        BY <1>5, <3>1 DEF DrainUnregister, Withdrawn
      <4>2. IsFiniteSet({Head(unregQ)})
        BY FS_Singleton
      <4>. QED
        BY <2>1, <4>1, <4>2, ChangeFacts DEF TypeInv, TypeOK
    <3>2. CASE Head(unregQ) \notin active
      BY <1>5, <3>2 DEF DrainUnregister, TypeInv, TypeOK
    <3>. QED
      BY <3>1, <3>2
  <2>. QED
    BY <1>5, <2>1, <2>2 DEF DrainUnregister, TypeInv, TypeOK, Named, config, fileVars, worldVars
<1>. QED
  BY <1>1, <1>4, <1>5

\* What handleExit frees can be listed, each name in a line of its own.
LEMMA PlannedLines ==
    ASSUME TypeInv
    PROVE  /\ Planned \subseteq active /\ IsFiniteSet(Planned)
           /\ SetToSeq([what : {"unlock"}, name : Planned]) \in Seq(Line)
           /\ ToSet(SetToSeq([what : {"unlock"}, name : Planned])) =
                [what : {"unlock"}, name : Planned]
<1>1. Planned \subseteq active /\ IsFiniteSet(Planned)
  BY FS_Subset DEF Planned, TypeInv
<1>. DEFINE lines == [what : {"unlock"}, name : Planned]
            f == [n \in Planned |-> [what |-> "unlock", name |-> n]]
<1>2. f \in Surjection(Planned, lines)
  <2>1. f \in [Planned -> lines]
    OBVIOUS
  <2>2. \A m \in lines : m.name \in Planned /\ f[m.name] = m
    OBVIOUS
  <2>. QED
    BY <2>1, <2>2 DEF Surjection
<1>3. IsFiniteSet(lines)
  BY <1>1, <1>2, FS_Surjection
<1>4. lines \subseteq Line
  BY <1>1 DEF Line, TypeInv, TypeOK
<1>. HIDE DEF lines
<1>5. SetToSeq(lines) \in Seq(lines) /\ ToSet(SetToSeq(lines)) = lines
  BY <1>3, SetToSeqFacts
<1>6. SetToSeq(lines) \in Seq(Line)
  <2>1. Len(SetToSeq(lines)) \in Nat /\ DOMAIN SetToSeq(lines) = 1..Len(SetToSeq(lines))
    BY <1>5, LenProperties
  <2>2. \A i \in 1..Len(SetToSeq(lines)) : SetToSeq(lines)[i] \in Line
    BY <1>4, <1>5, <2>1, ElementOfSeq
  <2>. QED
    BY <1>5, <2>1, <2>2, IsASeq
<1>. QED
  BY <1>1, <1>5, <1>6 DEF lines

LEMMA SigintTyped == TypeInv /\ Sigint => TypeInv'
<1>. SUFFICES ASSUME TypeInv, Sigint
              PROVE  TypeInv'
  OBVIOUS
<1>1. main.name \in Names \cup {NoName} /\ ~(main'.op \in {"taking", "taken", "freeing", "freed"})
      /\ main' \in [op : Ops, name : Names \cup {NoName}]
  BY DEF Sigint, Do, Ops, TypeInv, TypeOK
<1>2. CASE UNCHANGED <<want, pipe, mapVars, fileVars>>
  BY <1>1, <1>2 DEF Sigint, TypeInv, TypeOK, Named, config, worldVars, mapVars, fileVars, queueVars
<1>3. CASE /\ want' = [n \in Names |-> 0]
           /\ Change(Planned) /\ ours' = ours \ Planned
           /\ \/ /\ kind = KERNEL
                 /\ pipe' = pipe \o SetToSeq([what : {"unlock"}, name : Planned])
                 /\ UNCHANGED fileVars
              \/ kind = SXMO /\ Write(listed \ Planned) /\ UNCHANGED pipe
           /\ UNCHANGED forwarded
  <2>1. Planned \in SUBSET Names /\ IsFiniteSet(Planned)
    BY PlannedLines DEF TypeInv, TypeOK
  <2>2. active' \subseteq Names /\ racing' \subseteq Names /\ IsFiniteSet(active')
    BY <1>3, <2>1, ChangeFacts
  <2>3. pipe' \in Seq(Line)
    <3>1. pipe \in Seq(Line)
      BY DEF TypeInv, TypeOK
    <3>. QED
      BY <1>3, <3>1, PlannedLines, ConcatProperties
  <2>4. listed' \subseteq Names /\ events' \in Seq(Event) /\ watched' \in BOOLEAN
    <3>1. listed \ Planned \in SUBSET Names
      BY DEF TypeInv, TypeOK
    <3>. QED
      BY <1>3, <3>1, WriteFacts DEF TypeInv, TypeOK, fileVars
  <2>5. want' \in [Names -> Nat] /\ ours' \subseteq Names
    BY <1>3 DEF TypeInv, TypeOK
  <2>. QED
    BY <1>1, <1>3, <2>2, <2>3, <2>4, <2>5
    DEF Sigint, TypeInv, TypeOK, Named, config, worldVars, queueVars
<1>. QED
  BY <1>2, <1>3 DEF Sigint

\* The watcher's steps.
LEMMA WatcherTyped == TypeInv /\ Watcher => TypeInv'
<1>. SUFFICES ASSUME TypeInv, Watcher
              PROVE  TypeInv'
  OBVIOUS
<1>. DEFINE State == [at : Places, todo : SUBSET Names, file : SUBSET Names,
                      name : Names \cup {NoName}]
<1>1. watcher \in State
  BY DEF TypeInv, TypeOK
<1>2. ASSUME NEW at \in Places, NEW todo \in SUBSET Names, NEW file \in SUBSET Names,
             NEW n \in Names \cup {NoName}, Awake(at, todo, file, n),
             at \in {"looking", "queueing", "unqueueing"} => n \in Names
      PROVE  /\ watcher' \in State
             /\ watcher'.at \in {"looking", "queueing", "unqueueing"} => watcher'.name \in Names
  BY <1>2 DEF Awake
<1>3. /\ watcher.todo \in SUBSET Names /\ watcher.file \in SUBSET Names
      /\ watcher.name \in Names \cup {NoName}
  BY <1>1
<1>. HIDE DEF State
<1>4. CASE ReadFile \/ ReadEvents
  <2>1. events' \in Seq(Event) /\ watched' \in BOOLEAN
    <3>1. <<>> \in Seq(Event) /\ <<"ignored">> \in Seq(Event)
      BY DEF Event
    <3>2. events \in Seq(Event) /\ watched \in BOOLEAN
      BY DEF TypeInv, TypeOK
    <3>3. CASE ReadFile
      BY <3>2, <3>3 DEF ReadFile, fileVars
    <3>4. CASE ReadEvents
      BY <3>1, <3>2, <3>4 DEF ReadEvents
    <3>. QED
      BY <1>4, <3>3, <3>4
  <2>2. listed \in SUBSET Names /\ listed' = listed
    BY <1>4 DEF ReadFile, ReadEvents, fileVars, TypeInv, TypeOK
  <2>3. watcher' \in State /\ ~(watcher'.at \in {"looking", "queueing", "unqueueing"})
    <3>1. CASE ReadFile
      BY <1>2, <2>2, <3>1 DEF ReadFile, Awake, Places
    <3>2. CASE ReadEvents
      BY <1>2, <1>3, <3>2 DEF ReadEvents, Awake, Places
    <3>. QED
      BY <1>4, <3>1, <3>2
  <2>. QED
    BY <1>4, <2>1, <2>2, <2>3
    DEF ReadFile, ReadEvents, TypeInv, TypeOK, Named, config, worldVars, mapVars, queueVars,
        fileVars, State
<1>5. ASSUME NEW n \in Names, LookFor(n) \/ LookGone(n)
      PROVE  TypeInv'
  <2>1. /\ watcher' \in State
        /\ watcher'.at \in {"looking", "queueing", "unqueueing"} => watcher'.name \in Names
    <3>1. CASE LookFor(n)
      BY <1>2, <1>3, <3>1 DEF LookFor, Places
    <3>2. CASE LookGone(n)
      <4>1. PICK todo \in {watcher.todo \ {n}} \cup (IF racing # {} THEN {{}, active \ {n}} ELSE {}) :
              Awake(IF n \in watcher.file \/ Spared(n) THEN "old" ELSE "unqueueing",
                    todo, watcher.file, n)
        BY <3>2 DEF LookGone
      <4>2. todo \in SUBSET Names
        BY <1>3, <4>1 DEF TypeInv, TypeOK
      <4>3. (IF n \in watcher.file \/ Spared(n) THEN "old" ELSE "unqueueing") \in Places
        BY DEF Places
      <4>. QED
        BY <1>2, <1>3, <4>1, <4>2, <4>3
    <3>. QED
      BY <1>5, <3>1, <3>2
  <2>. QED
    BY <1>5, <2>1 DEF LookFor, LookGone, TypeInv, TypeOK, Named, config, fileVars, worldVars,
                      queueVars, State
<1>6. regQ \in Seq(Names) /\ unregQ \in Seq(Names)
  BY DEF TypeInv, TypeOK
<1>7. CASE Queue \/ Unqueue
  <2>1. watcher.name \in Names
    BY <1>7 DEF Queue, Unqueue, TypeInv, Named
  <2>2. Append(regQ, watcher.name) \in Seq(Names) /\ Append(unregQ, watcher.name) \in Seq(Names)
    BY <1>6, <2>1, AppendProperties
  <2>3. regQ' \in Seq(Names) /\ unregQ' \in Seq(Names)
    BY <1>6, <1>7, <2>2 DEF Queue, Unqueue
  <2>4. watcher' \in State /\ ~(watcher'.at \in {"looking", "queueing", "unqueueing"})
    <3>1. CASE Queue
      BY <1>2, <1>3, <3>1 DEF Queue, Awake, Places
    <3>2. CASE Unqueue
      BY <1>2, <1>3, <3>2 DEF Unqueue, Awake, Places
    <3>. QED
      BY <1>7, <3>1, <3>2
  <2>. QED
    BY <1>7, <2>3, <2>4 DEF Queue, Unqueue, TypeInv, TypeOK, Named, config, fileVars, worldVars,
                            mapVars, State
<1>8. CASE LookFound
  <2>1. watcher.name \in Names
    BY <1>8 DEF LookFound, TypeInv, Named
  <2>2. Append(regQ, watcher.name) \in Seq(Names)
    BY <1>6, <2>1, AppendProperties
  <2>3. regQ' \in Seq(Names)
    BY <1>6, <1>8, <2>2 DEF LookFound
  <2>4. /\ watcher' \in State
        /\ watcher'.at \in {"looking", "queueing", "unqueueing"} => watcher'.name \in Names
    <3>1. \/ Awake("new", watcher.todo, watcher.file, watcher.name)
          \/ Awake("queueing", watcher.todo, watcher.file, watcher.name)
          \/ Awake("new", watcher.todo, watcher.file, NoName)
      BY <1>8 DEF LookFound
    <3>. QED
      BY <1>2, <1>3, <2>1, <3>1 DEF Places
  <2>. QED
    BY <1>8, <2>3, <2>4 DEF LookFound, TypeInv, TypeOK, Named, config, fileVars, worldVars, State
<1>9. CASE LookForOld \/ LookDone
  <2>1. watcher' \in State /\ ~(watcher'.at \in {"looking", "queueing", "unqueueing"})
    <3>1. active \in SUBSET Names
      BY DEF TypeInv, TypeOK
    <3>2. CASE LookForOld
      BY <1>2, <1>3, <3>1, <3>2 DEF LookForOld, Awake, Places
    <3>3. CASE LookDone
      BY <1>2, <3>3 DEF LookDone, Awake, Places
    <3>. QED
      BY <1>9, <3>2, <3>3
  <2>. QED
    BY <1>9, <2>1 DEF LookForOld, LookDone, TypeInv, TypeOK, Named, config, fileVars, worldVars,
                      queueVars, State
<1>. QED
  BY <1>4, <1>5, <1>7, <1>8, <1>9 DEF Watcher

LEMMA NextTyped == TypeInv /\ [Next]_vars => TypeInv'
<1>. SUFFICES ASSUME TypeInv, [Next]_vars
              PROVE  TypeInv'
  OBVIOUS
<1>1. CASE UNCHANGED vars
  BY <1>1 DEF vars, TypeInv, TypeOK, Named
<1>2. CASE Environment
  BY <1>2, WorldTyped, RequestsTyped, SigintTyped DEF Environment
<1>3. CASE Main
  BY <1>3, RequestsTyped, DrainTyped DEF Main
<1>. QED
  BY <1>1, <1>2, <1>3, WatcherTyped, HelperTyped DEF Next

LEMMA AlwaysTyped == Spec => []TypeInv
  BY StartTyped, NextTyped, PTL DEF Spec

\* The types of the two watchers: names that are queued, sent, registered and
\* forwarded are names of the file or of the hub, and never the absence of one.
THEOREM TypeCorrect == Spec => []TypeOK
<1>1. TypeInv => TypeOK
  BY DEF TypeInv
<1>. QED
  BY <1>1, AlwaysTyped, PTL

----------------------------------------------------------------------------
(* What the hub took and gave back                                         *)

\* A wake lock that no application ever took, and the hub at most once.
HubsAlone(n) == kind = KERNEL /\ takes[n] = 0 /\ asks[n] <= 1

BeingTaken(n) == main.op \in {"taking", "taken"} /\ main.name = n

\* The watcher has it down as gone.
Reported(n) == n \in ToSet(unregQ) \/ (watcher.at = "unqueueing" /\ watcher.name = n)

NoLine(n) == \A j \in DOMAIN pipe : pipe[j].name # n

\* Nobody has the name.
Unknown(n) ==
    /\ n \notin active \cup ours \cup listed \cup watcher.todo \cup ToSet(regQ) \cup ToSet(unregQ)
    /\ watcher.name # n /\ main.name # n /\ want[n] = 0
    /\ NoLine(n)

Lock(n) == [what |-> "lock", name |-> n]
Unlock(n) == [what |-> "unlock", name |-> n]

\* Once the helper has caught up, the name is not in the file.
GoneAfter(n) ==
    /\ \A j \in DOMAIN pipe : pipe[j] = Lock(n) =>
          \E i \in DOMAIN pipe : i > j /\ pipe[i] = Unlock(n)
    /\ n \in listed => \E i \in DOMAIN pipe : pipe[i] = Unlock(n)

\* From the request to the release the name is among ourInhibits, so that the
\* watcher never reports it gone and the release finds it active.
Own(n) ==
    /\ asks[n] = 0 => Unknown(n)
    /\ BeingTaken(n) => n \in ours /\ want[n] = 0 /\ ~Reported(n)
    /\ want[n] > 0 => want[n] = 1 /\ n \in ours \cap active /\ ~Reported(n) /\ main.name # n
    /\ asks[n] = 1 /\ want[n] = 0 =>
          (main.op \in {"taking", "taken", "exited", "hung"} /\ main.name = n) \/ GoneAfter(n)
    /\ ~canSend => n \notin listed

OwnInv == \A n \in Names : HubsAlone(n) => Own(n)

\* A further line that does not take the name changes nothing for it, and one
\* that frees it is enough.
LEMMA LineSent ==
    ASSUME TypeInv, NEW n \in Names, NEW m \in Line, pipe' = Append(pipe, m),
           n \in listed' => n \in listed
    PROVE  /\ m.name # n /\ NoLine(n) => NoLine(n)'
           /\ m # Lock(n) /\ GoneAfter(n) => GoneAfter(n)'
           /\ m = Unlock(n) => GoneAfter(n)'
<1>1. DOMAIN pipe = 1..Len(pipe) /\ Len(pipe) \in Nat
  BY LenProperties DEF TypeInv, TypeOK
<1>2. pipe \in Seq(Line)
  BY DEF TypeInv, TypeOK
<1>3. DOMAIN pipe' = DOMAIN pipe \cup {Len(pipe) + 1}
  BY <1>1, <1>2, AppendProperties
<1>4. /\ \A j \in DOMAIN pipe : pipe'[j] = pipe[j]
      /\ pipe'[Len(pipe) + 1] = m
  BY <1>1, <1>2, AppendProperties
<1>5. m.name # n /\ NoLine(n) => NoLine(n)'
  BY <1>3, <1>4 DEF NoLine
<1>6. m # Lock(n) /\ GoneAfter(n) => GoneAfter(n)'
  BY <1>3, <1>4 DEF GoneAfter
<1>7. m = Unlock(n) => GoneAfter(n)'
  <2>1. Lock(n) # Unlock(n)
    BY DEF Lock, Unlock
  <2>2. \A j \in DOMAIN pipe : Len(pipe) + 1 > j
    BY <1>1
  <2>. QED
    BY <1>3, <1>4, <2>1, <2>2 DEF GoneAfter
<1>. QED
  BY <1>5, <1>6, <1>7

\* So it is for the lines of handleExit.
LEMMA LinesSent ==
    ASSUME TypeInv, NEW n \in Names, listed' = listed,
           pipe' = pipe \o SetToSeq([what : {"unlock"}, name : Planned])
    PROVE  /\ n \notin Planned /\ GoneAfter(n) => GoneAfter(n)'
           /\ n \in Planned => GoneAfter(n)'
           /\ n \notin Planned /\ NoLine(n) => NoLine(n)'
<1>. DEFINE more == SetToSeq([what : {"unlock"}, name : Planned])
<1>1. pipe \in Seq(Line) /\ more \in Seq(Line) /\ ToSet(more) = [what : {"unlock"}, name : Planned]
  BY PlannedLines DEF TypeInv, TypeOK
<1>. HIDE DEF more
<1>2. /\ DOMAIN pipe = 1..Len(pipe) /\ Len(pipe) \in Nat
      /\ DOMAIN more = 1..Len(more) /\ Len(more) \in Nat
  BY <1>1, LenProperties
<1>3. /\ Len(pipe') = Len(pipe) + Len(more)
      /\ \A j \in 1..Len(pipe) + Len(more) :
            pipe'[j] = IF j <= Len(pipe) THEN pipe[j] ELSE more[j - Len(pipe)]
      /\ pipe' \in Seq(Line)
  BY <1>1, ConcatProperties DEF more
<1>4. DOMAIN pipe' = 1..Len(pipe) + Len(more)
  BY <1>3, LenProperties
<1>5. \A j \in DOMAIN pipe : j \in DOMAIN pipe' /\ pipe'[j] = pipe[j]
  BY <1>2, <1>3, <1>4
<1>6. \A j \in DOMAIN pipe' \ DOMAIN pipe :
        pipe'[j].what = "unlock" /\ pipe'[j].name \in Planned /\ \A k \in DOMAIN pipe : j > k
  <2>. TAKE j \in DOMAIN pipe' \ DOMAIN pipe
  <2>1. j - Len(pipe) \in DOMAIN more /\ pipe'[j] = more[j - Len(pipe)] /\ \A k \in DOMAIN pipe : j > k
    <3>1. j \in 1..Len(pipe) + Len(more) /\ j \notin 1..Len(pipe)
      BY <1>2, <1>4
    <3>2. j \in Nat /\ j > Len(pipe)
      BY <1>2, <3>1
    <3>3. j - Len(pipe) \in 1..Len(more)
      BY <1>2, <3>1, <3>2
    <3>4. pipe'[j] = more[j - Len(pipe)]
      <4>1. pipe'[j] = IF j <= Len(pipe) THEN pipe[j] ELSE more[j - Len(pipe)]
        BY <1>3, <3>1
      <4>2. ~(j <= Len(pipe))
        BY <1>2, <3>2
      <4>. QED
        BY <4>1, <4>2
    <3>5. \A k \in 1..Len(pipe) : j > k
      BY <1>2, <3>2
    <3>. QED
      BY <1>2, <3>3, <3>4, <3>5
  <2>2. pipe'[j] \in [what : {"unlock"}, name : Planned]
    BY <1>1, <2>1 DEF ToSet
  <2>. QED
    BY <2>1, <2>2
<1>7. Lock(n).what # "unlock" /\ Lock(n).name = n /\ Unlock(n).name = n
  BY DEF Lock, Unlock
<1>8. ASSUME n \notin Planned, GoneAfter(n)
      PROVE  GoneAfter(n)'
  <2>1. ASSUME NEW j \in DOMAIN pipe', pipe'[j] = Lock(n)
        PROVE  \E i \in DOMAIN pipe' : i > j /\ pipe'[i] = Unlock(n)
    <3>1. j \in DOMAIN pipe /\ pipe[j] = Lock(n)
      BY <1>5, <1>6, <1>7, <2>1
    <3>2. PICK i \in DOMAIN pipe : i > j /\ pipe[i] = Unlock(n)
      BY <1>8, <3>1 DEF GoneAfter
    <3>. QED
      BY <1>5, <3>2
  <2>2. ASSUME n \in listed'
        PROVE  \E i \in DOMAIN pipe' : pipe'[i] = Unlock(n)
    <3>1. PICK i \in DOMAIN pipe : pipe[i] = Unlock(n)
      BY <1>8, <2>2 DEF GoneAfter
    <3>. QED
      BY <1>5, <3>1
  <2>. QED
    BY <2>1, <2>2 DEF GoneAfter
<1>9. ASSUME n \in Planned
      PROVE  GoneAfter(n)'
  <2>1. Unlock(n) \in ToSet(more)
    BY <1>1, <1>9 DEF Unlock
  <2>2. PICK k \in DOMAIN more : more[k] = Unlock(n)
    BY <2>1 DEF ToSet
  <2>. DEFINE i == Len(pipe) + k
  <2>3. /\ i \in 1..Len(pipe) + Len(more) /\ ~(i <= Len(pipe)) /\ i - Len(pipe) = k
        /\ \A j \in 1..Len(pipe) : i > j
    BY <1>2, <2>2
  <2>. HIDE DEF i
  <2>4. i \in DOMAIN pipe' /\ pipe'[i] = Unlock(n)
    BY <1>3, <1>4, <2>2, <2>3
  <2>5. ASSUME NEW j \in DOMAIN pipe', pipe'[j] = Lock(n)
        PROVE  i > j
    BY <1>2, <1>6, <1>7, <2>3, <2>5
  <2>. QED
    BY <2>4, <2>5 DEF GoneAfter
<1>10. n \notin Planned /\ NoLine(n) => NoLine(n)'
  BY <1>5, <1>6 DEF NoLine
<1>. QED
  BY <1>8, <1>9, <1>10

\* The helper works off what brings a name to its end.
LEMMA HelperCatchesUp ==
    ASSUME TypeInv, NEW n \in Names, HelperStep, ~canSend => n \notin listed
    PROVE  /\ GoneAfter(n) => GoneAfter(n)'
           /\ NoLine(n) => NoLine(n)' /\ (n \in listed' => n \in listed)
           /\ ~canSend => n \notin listed'
<1>1. pipe \in Seq(Line) /\ pipe # <<>> /\ pipe' = Tail(pipe)
  BY DEF TypeInv, TypeOK, HelperStep
<1>2. /\ DOMAIN pipe = 1..Len(pipe) /\ Len(pipe) \in Nat \ {0}
      /\ Head(pipe) = pipe[1]
      /\ pipe' \in Seq(Line) /\ Len(pipe') = Len(pipe) - 1
      /\ \A j \in 1..Len(pipe') : pipe'[j] = pipe[j + 1]
  BY <1>1, HeadTailProperties, LenProperties, EmptySeq
<1>3. DOMAIN pipe' = 1..Len(pipe) - 1
  BY <1>2, LenProperties
<1>4. \A j \in DOMAIN pipe' : j + 1 \in DOMAIN pipe /\ pipe'[j] = pipe[j + 1]
  BY <1>2, <1>3
<1>5. \A j \in DOMAIN pipe : j # 1 => j - 1 \in DOMAIN pipe' /\ pipe'[j - 1] = pipe[j]
  BY <1>2, <1>3
<1>6. 1 \in DOMAIN pipe /\ \A j \in DOMAIN pipe : j \in Nat /\ j >= 1
  BY <1>2
<1>7. /\ pipe[1] = Lock(n) \/ pipe[1] = Unlock(n) \/ pipe[1].name # n
      /\ Lock(n).what = "lock" /\ Lock(n).name = n
      /\ Unlock(n).what # "lock" /\ Unlock(n).name = n
  <2>1. 1 \in 1..Len(pipe)
    BY <1>2
  <2>2. pipe[1] \in Line
    BY <1>1, <2>1, ElementOfSeq
  <2>3. pipe[1] = Lock(n) \/ pipe[1] = Unlock(n) \/ pipe[1].name # n
    BY <2>2 DEF Lock, Unlock, Line
  <2>. QED
    BY <2>3 DEF Lock, Unlock
<1>8. listed' = IF ~canSend THEN listed
                ELSE IF pipe[1].what = "lock" THEN listed \cup {pipe[1].name}
                ELSE listed \ {pipe[1].name}
  BY <1>2 DEF HelperStep
<1>9. ASSUME GoneAfter(n)
      PROVE  GoneAfter(n)'
  <2>1. \A j \in DOMAIN pipe' : pipe'[j] = Lock(n) =>
            \E i \in DOMAIN pipe' : i > j /\ pipe'[i] = Unlock(n)
    <3>. SUFFICES ASSUME NEW j \in DOMAIN pipe', pipe'[j] = Lock(n)
                  PROVE  \E i \in DOMAIN pipe' : i > j /\ pipe'[i] = Unlock(n)
      OBVIOUS
    <3>1. PICK i \in DOMAIN pipe : i > j + 1 /\ pipe[i] = Unlock(n)
      BY <1>4, <1>9 DEF GoneAfter
    <3>2. i # 1 /\ i - 1 > j
      BY <1>2, <1>3, <3>1
    <3>. QED
      BY <1>5, <3>1, <3>2
  <2>2. ASSUME n \in listed'
        PROVE  \E i \in DOMAIN pipe' : pipe'[i] = Unlock(n)
    <3>1. CASE canSend /\ pipe[1] = Lock(n)
      <4>1. PICK i \in DOMAIN pipe : i > 1 /\ pipe[i] = Unlock(n)
        BY <1>6, <1>9, <3>1 DEF GoneAfter
      <4>. QED
        BY <1>5, <4>1
    <3>2. CASE canSend /\ pipe[1] # Lock(n)
      <4>1. pipe[1] # Unlock(n) /\ n \in listed
        BY <1>7, <1>8, <2>2, <3>2
      <4>2. PICK i \in DOMAIN pipe : pipe[i] = Unlock(n)
        BY <1>9, <4>1 DEF GoneAfter
      <4>. QED
        BY <1>5, <4>1, <4>2
    <3>3. CASE ~canSend
      BY <1>8, <2>2, <3>3
    <3>. QED
      BY <3>1, <3>2, <3>3
  <2>. QED
    BY <2>1, <2>2 DEF GoneAfter
<1>10. ASSUME NoLine(n)
       PROVE  NoLine(n)' /\ (n \in listed' => n \in listed)
  BY <1>4, <1>6, <1>8, <1>10 DEF NoLine
<1>. QED
  BY <1>8, <1>9, <1>10

\* Applications write other names only.
LEMMA OwnWorld ==
    ASSUME TypeInv, NEW n \in Names, HubsAlone(n), Own(n), HubsAlone(n)',
           NEW m \in Names, AppTakes(m) \/ AppFrees(m)
    PROVE  Own(n)'
<1>1. n \in listed' => n \in listed
  <2>1. CASE AppTakes(m)
    <3>1. m # n
      <4>1. takes'[m] = takes[m] + 1 /\ takes[m] \in Nat
        BY <2>1 DEF AppTakes, TypeInv, TypeOK
      <4>. QED
        BY <4>1 DEF HubsAlone
    <3>2. listed' = listed \cup {m}
      BY <2>1 DEF AppTakes, Write
    <3>. QED
      BY <3>1, <3>2
  <2>2. CASE AppFrees(m)
    BY <2>2 DEF AppFrees, Write
  <2>. QED
    BY <2>1, <2>2
<1>2. UNCHANGED <<canSend, asks, want, pipe, active, ours, regQ, unregQ, main, watcher>>
  BY DEF AppTakes, AppFrees, config, mapVars, queueVars
<1>. QED
  BY <1>1, <1>2 DEF Own, Unknown, NoLine, BeingTaken, Reported, GoneAfter

LEMMA OwnHelper ==
    ASSUME TypeInv, NEW n \in Names, HubsAlone(n), Own(n), HubsAlone(n)', HelperStep
    PROVE  Own(n)'
<1>1. /\ GoneAfter(n) => GoneAfter(n)'
      /\ NoLine(n) => NoLine(n)' /\ (n \in listed' => n \in listed)
      /\ ~canSend => n \notin listed'
  BY HelperCatchesUp DEF Own
<1>2. UNCHANGED <<canSend, asks, want, active, ours, regQ, unregQ, main, watcher>>
  BY DEF HelperStep, config, worldVars, mapVars, queueVars
<1>. HIDE DEF GoneAfter, NoLine
<1>. QED
  BY <1>1, <1>2 DEF Own, Unknown, BeingTaken, Reported

LEMMA OwnTakes ==
    ASSUME TypeInv, NEW n \in Names, HubsAlone(n), Own(n), HubsAlone(n)',
           \/ \E m \in Names : TakeBegin(m)
           \/ TakeEnd \/ TakeActive
    PROVE  Own(n)'
<1>1. kind = KERNEL /\ kind # SXMO
  BY DEF HubsAlone, KERNEL, SXMO
<1>2. asks \in [Names -> Nat] /\ asks' [n] <= 1 /\ asks[n] <= 1 /\ want \in [Names -> Nat]
  BY DEF HubsAlone, TypeInv, TypeOK
<1>3. ASSUME NEW m \in Names, TakeBegin(m)
      PROVE  Own(n)'
  <2>1. /\ asks' = [asks EXCEPT ![m] = @ + 1] /\ ours' = ours \cup {m}
        /\ main' = [op |-> "taking", name |-> m] /\ main.op = "idle"
        /\ UNCHANGED <<canSend, listed, want, pipe, active, regQ, unregQ, watcher>>
    BY <1>1, <1>3 DEF TakeBegin, Do, config, fileVars, queueVars
  <2>2. CASE m = n
    <3>1. asks[n] = 0 /\ asks'[n] = 1
      BY <1>2, <2>1, <2>2
    <3>2. Unknown(n)
      BY <3>1 DEF Own
    <3>3. ~Reported(n) /\ ~Reported(n)'
      BY <2>1, <3>2 DEF Unknown, Reported
    <3>4. main'.op = "taking" /\ main'.name = n
      BY <2>1, <2>2
    <3>5. want'[n] = 0 /\ n \in ours' /\ n \notin listed'
      BY <2>1, <2>2, <3>2 DEF Unknown
    <3>. QED
      BY <3>1, <3>3, <3>4, <3>5 DEF Own, BeingTaken
  <2>3. CASE m # n
    <3>1. asks'[n] = asks[n] /\ main'.name # n
      BY <1>2, <2>1, <2>3
    <3>2. (n \in ours' <=> n \in ours) /\ ~(main.op \in {"taking", "taken", "exited", "hung"})
      BY <2>1, <2>3
    <3>3. (asks[n] = 0 => Unknown(n)) => (asks[n] = 0 => Unknown(n)')
      BY <2>1, <3>1, <3>2 DEF Unknown, NoLine
    <3>4. GoneAfter(n) => GoneAfter(n)'
      BY <2>1 DEF GoneAfter
    <3>5. Reported(n)' = Reported(n)
      BY <2>1 DEF Reported
    <3>. HIDE DEF GoneAfter, Unknown, Reported
    <3>. QED
      BY <2>1, <3>1, <3>2, <3>3, <3>4, <3>5 DEF Own, BeingTaken
  <2>. QED
    BY <2>2, <2>3
<1>4. CASE TakeEnd
  <2>1. /\ main.op = "taking" /\ main' = [op |-> "taken", name |-> main.name]
        /\ pipe' = Append(pipe, Lock(main.name))
        /\ UNCHANGED <<canSend, listed, asks, want, active, ours, regQ, unregQ, watcher>>
    BY <1>1, <1>4 DEF TakeEnd, Do, Lock, config, fileVars, worldVars, queueVars
  <2>2. main.name \in Names
    BY <2>1 DEF TypeInv, Named
  <2>3. Lock(main.name) \in Line /\ Lock(main.name).name = main.name
        /\ (main.name # n => Lock(main.name) # Lock(n))
    BY <2>2 DEF Lock, Line
  <2>4. main.name # n /\ NoLine(n) => NoLine(n)'
    BY <2>1, <2>3, LineSent
  <2>5. main.name # n /\ GoneAfter(n) => GoneAfter(n)'
    BY <2>1, <2>3, LineSent
  <2>6. main'.op = "taken" /\ main'.name = main.name
    BY <2>1
  <2>7. Reported(n)' <=> Reported(n)
    BY <2>1 DEF Reported
  <2>8. asks[n] = 0 => Unknown(n)'
    BY <2>1, <2>4, <2>6 DEF Own, Unknown
  <2>. HIDE DEF GoneAfter, Unknown, Reported
  <2>. QED
    BY <2>1, <2>5, <2>6, <2>7, <2>8 DEF Own, BeingTaken
<1>5. CASE TakeActive
  <2>1. /\ main.op = "taken" /\ main'.op = "idle" /\ main'.name = NoName
        /\ Change({main.name} \ active)
        /\ want' = [want EXCEPT ![main.name] = @ + 1]
        /\ UNCHANGED <<canSend, listed, asks, pipe, ours, regQ, unregQ, watcher>>
    BY <1>5 DEF TakeActive, Do, config, fileVars, worldVars, queueVars
  <2>2. main.name \in Names /\ n # NoName
    BY <2>1, NamesAssumption DEF TypeInv, Named
  <2>3. active' = active \cup {main.name}
    BY <2>1 DEF Change
  <2>4. Reported(n)' <=> Reported(n)
    BY <2>1 DEF Reported
  <2>5. GoneAfter(n)' <=> GoneAfter(n)
    BY <2>1 DEF GoneAfter
  <2>6. NoLine(n)' <=> NoLine(n)
    BY <2>1 DEF NoLine
  <2>. HIDE DEF GoneAfter, Reported, NoLine
  <2>7. CASE main.name = n
    <3>1. BeingTaken(n)
      BY <2>1, <2>7 DEF BeingTaken
    <3>2. want[n] = 0 /\ n \in ours /\ ~Reported(n) /\ asks[n] # 0
      BY <2>7, <3>1 DEF Own, Unknown
    <3>3. want'[n] = 1 /\ n \in active'
      BY <1>2, <2>1, <2>3, <2>7, <3>2
    <3>. QED
      BY <2>1, <2>2, <2>4, <3>2, <3>3 DEF Own, BeingTaken
  <2>8. CASE main.name # n
    <3>1. want'[n] = want[n] /\ (n \in active' <=> n \in active)
      BY <1>2, <2>1, <2>3, <2>8
    <3>2. asks[n] = 0 => Unknown(n)'
      BY <2>1, <2>2, <2>6, <3>1 DEF Own, Unknown
    <3>. HIDE DEF Unknown
    <3>. QED
      BY <2>1, <2>2, <2>4, <2>5, <2>8, <3>1, <3>2 DEF Own, BeingTaken
  <2>. QED
    BY <2>7, <2>8
<1>. QED
  BY <1>3, <1>4, <1>5

LEMMA OwnFrees ==
    ASSUME TypeInv, NEW n \in Names, HubsAlone(n), Own(n), HubsAlone(n)',
           \/ \E m \in Names : FreeBegin(m)
           \/ FreeEnd \/ FreeActive
    PROVE  Own(n)'
<1>1. kind = KERNEL /\ kind # SXMO
  BY DEF HubsAlone, KERNEL, SXMO
<1>2. want \in [Names -> Nat]
  BY DEF TypeInv, TypeOK
<1>3. ASSUME NEW m \in Names, FreeBegin(m)
      PROVE  Own(n)'
  <2>1. /\ main.op = "idle" /\ want[m] > 0 /\ want' = [want EXCEPT ![m] = @ - 1]
        /\ UNCHANGED <<canSend, listed, asks, active, ours, regQ, unregQ, watcher>>
    BY <1>1, <1>3 DEF FreeBegin, Due, config, fileVars, worldVars, queueVars
  <2>2. \/ m \notin active /\ UNCHANGED <<main, pipe>>
        \/ /\ m \in active /\ main' = [op |-> "freeing", name |-> m]
           /\ pipe' = Append(pipe, Unlock(m))
    BY <1>1, <1>3 DEF FreeBegin, Do, Unlock
  <2>3. Unlock(m) \in Line /\ Unlock(m).name = m /\ Unlock(m) # Lock(n)
    BY DEF Unlock, Lock, Line
  <2>4. m # n /\ NoLine(n) => NoLine(n)'
    <3>1. CASE UNCHANGED pipe
      BY <3>1 DEF NoLine
    <3>. QED
      BY <2>1, <2>2, <2>3, <3>1, LineSent
  <2>5. GoneAfter(n) => GoneAfter(n)'
    <3>1. CASE UNCHANGED pipe
      BY <2>1, <3>1 DEF GoneAfter
    <3>. QED
      BY <2>1, <2>2, <2>3, <3>1, LineSent
  <2>6. Reported(n)' <=> Reported(n)
    BY <2>1 DEF Reported
  <2>7. main'.op \in {"idle", "freeing"} /\ (main'.name = n => main.name = n \/ m = n)
    BY <2>1, <2>2
  <2>8. CASE m = n
    <3>1. want[n] = 1 /\ want'[n] = 0 /\ n \in active
      BY <1>2, <2>1, <2>8 DEF Own
    <3>2. GoneAfter(n)'
      BY <2>1, <2>2, <2>3, <2>8, <3>1, LineSent
    <3>3. asks[n] # 0
      BY <3>1 DEF Own, Unknown
    <3>. HIDE DEF GoneAfter
    <3>. QED
      BY <2>1, <2>7, <3>1, <3>2, <3>3 DEF Own, BeingTaken
  <2>9. CASE m # n
    <3>1. want'[n] = want[n]
      BY <1>2, <2>1, <2>9
    <3>. HIDE DEF GoneAfter, Reported, NoLine
    <3>2. asks[n] = 0 => Unknown(n)'
      BY <2>1, <2>4, <2>7, <2>9, <3>1 DEF Own, Unknown
    <3>. HIDE DEF Unknown
    <3>. QED
      BY <2>1, <2>5, <2>6, <2>7, <2>9, <3>1, <3>2 DEF Own, BeingTaken
  <2>. QED
    BY <2>8, <2>9
<1>4. CASE FreeEnd \/ FreeActive
  <2>1. /\ main.op \in {"freeing", "freed"} /\ main'.op \in {"freed", "idle"}
        /\ main'.name \in {main.name, NoName}
        /\ UNCHANGED <<canSend, listed, asks, want, pipe, regQ, unregQ, watcher>>
    BY <1>1, <1>4 DEF FreeEnd, FreeActive, Do, config, fileVars, worldVars, queueVars
  <2>2. /\ ours' \subseteq ours /\ active' \subseteq active
        /\ main.name # n => (n \in ours' <=> n \in ours) /\ (n \in active' <=> n \in active)
    BY <1>1, <1>4 DEF FreeEnd, FreeActive, Change
  <2>3. n # NoName
    BY NamesAssumption
  <2>4. Reported(n)' <=> Reported(n)
    BY <2>1 DEF Reported
  <2>5. GoneAfter(n)' <=> GoneAfter(n)
    BY <2>1 DEF GoneAfter
  <2>6. NoLine(n)' <=> NoLine(n)
    BY <2>1 DEF NoLine
  <2>. HIDE DEF GoneAfter, Reported, NoLine
  <2>7. asks[n] = 0 => Unknown(n)'
    BY <2>1, <2>2, <2>3, <2>6 DEF Own, Unknown
  <2>. HIDE DEF Unknown
  <2>. QED
    BY <2>1, <2>2, <2>3, <2>4, <2>5, <2>7 DEF Own, BeingTaken
<1>. QED
  BY <1>3, <1>4

\* handleExit gives back what is planned, and a wake lock that is in force is.
LEMMA OwnSigint ==
    ASSUME TypeInv, NEW n \in Names, HubsAlone(n), Own(n), HubsAlone(n)', Sigint
    PROVE  Own(n)'
<1>1. kind = KERNEL /\ kind # SXMO
  BY DEF HubsAlone, KERNEL, SXMO
<1>2. UNCHANGED <<canSend, asks, regQ, unregQ, watcher>> /\ main'.name = main.name /\ listed' = listed
  BY <1>1 DEF Sigint, Do, config, worldVars, queueVars, fileVars
<1>3. Reported(n)' <=> Reported(n)
  BY <1>2 DEF Reported
<1>4. CASE main'.op = "hung" /\ UNCHANGED <<want, pipe, active, ours>>
  <2>1. asks[n] = 0 => Unknown(n)'
    BY <1>2, <1>4 DEF Own, Unknown, NoLine
  <2>2. GoneAfter(n)' <=> GoneAfter(n)
    BY <1>2, <1>4 DEF GoneAfter
  <2>. HIDE DEF GoneAfter, Unknown, Reported
  <2>. QED
    BY <1>2, <1>3, <1>4, <2>1, <2>2 DEF Own, BeingTaken
<1>5. CASE /\ main'.op = "exited" /\ want' = [m \in Names |-> 0]
           /\ Change(Planned) /\ ours' = ours \ Planned
           /\ pipe' = pipe \o SetToSeq([what : {"unlock"}, name : Planned])
  <2>1. active' \subseteq active /\ want'[n] = 0
    BY <1>5 DEF Change, Planned
  <2>2. /\ n \notin Planned /\ GoneAfter(n) => GoneAfter(n)'
        /\ n \in Planned => GoneAfter(n)'
        /\ n \notin Planned /\ NoLine(n) => NoLine(n)'
    BY <1>2, <1>5, LinesSent
  <2>3. want[n] > 0 /\ n \in active <=> n \in Planned
    BY DEF Planned
  <2>4. want[n] \in Nat
    BY DEF TypeInv, TypeOK
  <2>5. asks[n] = 0 => Unknown(n)'
    BY <1>2, <1>5, <2>1, <2>2, <2>3 DEF Own, Unknown
  <2>. HIDE DEF GoneAfter, Unknown, Reported, Planned
  <2>. QED
    BY <1>2, <1>5, <2>1, <2>2, <2>3, <2>4, <2>5 DEF Own, BeingTaken
<1>6. CASE Locked /\ kind = KERNEL /\ Planned # {}
  <2>1. Do("hung", main.name) /\ UNCHANGED <<want, pipe, mapVars, fileVars>>
    BY <1>6 DEF Sigint
  <2>. QED
    BY <1>4, <2>1 DEF Do, mapVars
<1>7. CASE ~(Locked /\ kind = KERNEL /\ Planned # {})
  <2>1. /\ Do("exited", main.name) /\ want' = [m \in Names |-> 0]
        /\ Change(Planned) /\ ours' = ours \ Planned
        /\ pipe' = pipe \o SetToSeq([what : {"unlock"}, name : Planned])
    BY <1>1, <1>7 DEF Sigint
  <2>. QED
    BY <1>5, <2>1 DEF Do
<1>. QED
  BY <1>6, <1>7

LEMMA OwnDrains ==
    ASSUME TypeInv, NEW n \in Names, HubsAlone(n), Own(n), HubsAlone(n)',
           DrainBegin \/ DrainEnd \/ DrainRegister \/ DrainUnregister
    PROVE  Own(n)'
<1>1. /\ UNCHANGED <<canSend, listed, asks, want, pipe, ours, watcher>>
      /\ ~(main'.op \in {"taking", "taken"}) /\ ~(main.op \in {"taking", "taken", "exited", "hung"})
      /\ main'.name \in {main.name, NoName}
  BY DEF DrainBegin, DrainEnd, DrainRegister, DrainUnregister, Do, config, fileVars, worldVars,
         mapVars
<1>2. regQ \in Seq(Names) /\ unregQ \in Seq(Names)
  BY DEF TypeInv, TypeOK
<1>3. /\ ToSet(regQ') \subseteq ToSet(regQ) /\ ToSet(unregQ') \subseteq ToSet(unregQ)
      /\ n \in active' => n \in active \/ n \in ToSet(regQ)
      /\ n \in active /\ n \notin ToSet(unregQ) => n \in active'
  <2>1. CASE DrainBegin \/ DrainEnd
    BY <2>1 DEF DrainBegin, DrainEnd, mapVars, queueVars
  <2>2. CASE DrainRegister
    <3>1. Head(regQ) \in ToSet(regQ) /\ ToSet(regQ') \subseteq ToSet(regQ)
      BY <1>2, <2>2, QueueFacts DEF DrainRegister
    <3>2. active' = active \cup {Head(regQ)} /\ unregQ' = unregQ
      BY <2>2 DEF DrainRegister, Change
    <3>. QED
      BY <3>1, <3>2
  <2>3. CASE DrainUnregister
    <3>1. Head(unregQ) \in ToSet(unregQ) /\ ToSet(unregQ') \subseteq ToSet(unregQ)
      BY <1>2, <2>3, QueueFacts DEF DrainUnregister
    <3>2. active' = active \ {Head(unregQ)} /\ regQ' = regQ
      BY <2>3 DEF DrainUnregister, Change
    <3>. QED
      BY <3>1, <3>2
  <2>. QED
    BY <2>1, <2>2, <2>3
<1>4. n # NoName
  BY NamesAssumption
<1>5. Reported(n)' => Reported(n)
  BY <1>1, <1>3 DEF Reported
<1>6. GoneAfter(n)' <=> GoneAfter(n)
  BY <1>1 DEF GoneAfter
<1>7. asks[n] = 0 => Unknown(n)'
  BY <1>1, <1>3, <1>4 DEF Own, Unknown, NoLine
<1>8. ~Reported(n) => n \notin ToSet(unregQ)
  BY DEF Reported
<1>. HIDE DEF GoneAfter, Unknown, Reported
<1>. QED
  BY <1>1, <1>3, <1>4, <1>5, <1>6, <1>7, <1>8 DEF Own, BeingTaken

\* The watcher spares what is among ourInhibits.
LEMMA OwnWatcher ==
    ASSUME TypeInv, NEW n \in Names, HubsAlone(n), Own(n), HubsAlone(n)', Watcher
    PROVE  Own(n)'
<1>1. kind = KERNEL /\ kind # SXMO
  BY DEF HubsAlone, KERNEL, SXMO
<1>2. UNCHANGED <<canSend, listed, asks, want, pipe, active, ours, main>>
  BY <1>1 DEF Watcher, ReadFile, ReadEvents, LookFor, LookFound, Queue, LookForOld, LookGone,
              Unqueue, LookDone, config, fileVars, worldVars, mapVars
<1>3. regQ \in Seq(Names) /\ unregQ \in Seq(Names) /\ n # NoName
  BY NamesAssumption DEF TypeInv, TypeOK
<1>4. /\ n \in ToSet(regQ') => n \in ToSet(regQ) \/ watcher.name = n
      /\ n \in ToSet(unregQ') => n \in ToSet(unregQ) \/ (watcher.at = "unqueueing" /\ watcher.name = n)
  <2>1. CASE Queue
    <3>1. watcher.name \in Names
      BY <2>1 DEF Queue, TypeInv, Named
    <3>2. ToSet(Append(regQ, watcher.name)) = ToSet(regQ) \cup {watcher.name}
      BY <1>3, <3>1, QueueFacts
    <3>. QED
      BY <2>1, <3>2 DEF Queue
  <2>2. CASE Unqueue
    <3>1. watcher.name \in Names
      BY <2>2 DEF Unqueue, TypeInv, Named
    <3>2. ToSet(Append(unregQ, watcher.name)) = ToSet(unregQ) \cup {watcher.name}
      BY <1>3, <3>1, QueueFacts
    <3>. QED
      BY <2>2, <3>2 DEF Unqueue
  <2>3. CASE UNCHANGED <<regQ, unregQ>>
    BY <2>3
  <2>. QED
    BY <1>1, <2>1, <2>2, <2>3 DEF Watcher, ReadFile, ReadEvents, LookFor, LookFound, LookForOld,
                                  LookGone, LookDone, queueVars
<1>. DEFINE Attends ==
                /\ n \in watcher'.todo => n \in watcher.todo \cup listed \cup active
                /\ watcher'.name = n => watcher.name = n \/ n \in watcher.todo
                /\ watcher'.at = "unqueueing" /\ watcher'.name = n => n \notin ours
<1>5. Attends
  <2>1. ASSUME NEW m \in Names, LookGone(m)
        PROVE  Attends
    <3>1. PICK todo \in {watcher.todo \ {m}} \cup (IF racing # {} THEN {{}, active \ {m}} ELSE {}) :
            Awake(IF m \in watcher.file \/ Spared(m) THEN "old" ELSE "unqueueing",
                  todo, watcher.file, m)
      BY <2>1 DEF LookGone
    <3>2. watcher'.todo = todo /\ watcher'.name = m /\ m \in watcher.todo
      BY <2>1, <3>1 DEF Awake, LookGone
    <3>3. watcher'.at = "unqueueing" => m \notin ours
      BY <1>1, <3>1 DEF Awake, Spared
    <3>. QED
      BY <3>1, <3>2, <3>3
  <2>2. ASSUME NEW m \in Names, LookFor(m)
        PROVE  Attends
    BY <2>2 DEF LookFor, Awake
  <2>3. CASE ReadFile
    BY <1>3, <2>3 DEF ReadFile, Awake
  <2>4. CASE LookFound
    BY <1>1, <2>4 DEF LookFound, Awake
  <2>5. CASE Queue \/ Unqueue
    BY <1>3, <2>5 DEF Queue, Unqueue, Awake
  <2>6. CASE LookForOld \/ LookDone
    BY <1>3, <2>6 DEF LookForOld, LookDone, Awake
  <2>. QED
    BY <1>1, <2>1, <2>2, <2>3, <2>4, <2>5, <2>6 DEF Watcher, ReadEvents
<1>6. n \in ours /\ ~Reported(n) => ~Reported(n)'
  BY <1>4, <1>5 DEF Reported
<1>7. GoneAfter(n)' <=> GoneAfter(n)
  BY <1>2 DEF GoneAfter
<1>8. asks[n] = 0 => Unknown(n)'
  BY <1>2, <1>4, <1>5 DEF Own, Unknown, NoLine
<1>. HIDE DEF GoneAfter, Unknown, Reported
<1>. QED
  BY <1>2, <1>6, <1>7, <1>8 DEF Own, BeingTaken

LEMMA OwnStep == TypeInv /\ OwnInv /\ [Next]_vars => OwnInv'
<1>. SUFFICES ASSUME TypeInv, OwnInv, [Next]_vars, NEW n \in Names, HubsAlone(n)'
              PROVE  Own(n)'
  BY DEF OwnInv
<1>1. kind' = kind
  BY DEF Next, Environment, Main, Watcher, AppTakes, AppFrees, TakeBegin, FreeBegin, Sigint,
         TakeEnd, TakeActive, FreeEnd, FreeActive, DrainBegin, DrainEnd, DrainRegister,
         DrainUnregister, ReadFile, ReadEvents, LookFor, LookFound, Queue, LookForOld, LookGone,
         Unqueue, LookDone, HelperStep, config, vars
<1>2. takes \in [Names -> Nat] /\ asks \in [Names -> Nat]
  BY DEF TypeInv, TypeOK
<1>. DEFINE Grows == takes'[n] >= takes[n] /\ asks'[n] >= asks[n]
<1>3. Grows
  <2>1. CASE UNCHANGED <<takes, asks>>
    BY <1>2, <2>1
  <2>2. ASSUME NEW m \in Names, AppTakes(m)
        PROVE  Grows
    BY <1>2, <2>2 DEF AppTakes
  <2>3. ASSUME NEW m \in Names, TakeBegin(m)
        PROVE  Grows
    BY <1>2, <2>3 DEF TakeBegin
  <2>. HIDE DEF Grows
  <2>4. CASE Environment
    BY <2>1, <2>2, <2>3, <2>4 DEF Environment, AppFrees, FreeBegin, Sigint, worldVars
  <2>5. CASE Main
    BY <2>1, <2>5
    DEF Main, TakeEnd, TakeActive, FreeEnd, FreeActive, DrainBegin, DrainEnd,
        DrainRegister, DrainUnregister, worldVars
  <2>6. CASE Watcher \/ HelperStep
    BY <2>1, <2>6
    DEF Watcher, ReadFile, ReadEvents, LookFor, LookFound, Queue, LookForOld, LookGone, Unqueue,
        LookDone, HelperStep, worldVars
  <2>. QED
    BY <2>1, <2>4, <2>5, <2>6 DEF Next, vars
<1>4. HubsAlone(n)
  <2>1. takes'[n] = 0 /\ asks'[n] <= 1 /\ kind' = KERNEL
    BY DEF HubsAlone
  <2>2. takes'[n] \in Nat /\ asks'[n] \in Nat
    BY NextTyped DEF TypeInv, TypeOK
  <2>. QED
    BY <1>1, <1>2, <1>3, <2>1, <2>2 DEF HubsAlone
<1>5. Own(n)
  BY <1>4 DEF OwnInv
<1>6. CASE UNCHANGED vars
  BY <1>5, <1>6 DEF vars, Own, BeingTaken, Unknown, Reported, GoneAfter, NoLine
<1>7. CASE Environment
  BY <1>4, <1>5, <1>7, OwnWorld, OwnTakes, OwnFrees, OwnSigint DEF Environment
<1>8. CASE Main
  BY <1>4, <1>5, <1>8, OwnTakes, OwnFrees, OwnDrains DEF Main
<1>. QED
  BY <1>4, <1>5, <1>6, <1>7, <1>8, OwnHelper, OwnWatcher DEF Next

LEMMA OwnStart == Init => OwnInv
<1>. SUFFICES ASSUME Init, NEW n \in Names, HubsAlone(n)
              PROVE  Own(n)
  BY DEF OwnInv
<1>1. n \notin apps
  BY DEF HubsAlone, Init
<1>2. ToSet(<<>>) = {}
  BY DEF ToSet
<1>3. n # NoName
  BY NamesAssumption
<1>. QED
  BY <1>1, <1>2, <1>3 DEF Init, Own, Unknown, BeingTaken, Reported, NoLine

\* A wake lock that the hub took once and gave back, or that handleExit gave back, is
\* not held once the helper has caught up, however the watcher, the helper and SIGINT
\* come between the steps of taking and freeing it.  (Without the entry in
\* ourInhibits the watcher could unregister it first, and the release would then find
\* it inactive and go no further.)
THEOREM GivesBack == Spec => []GivenBack
<1>1. TypeInv /\ OwnInv => GivenBack
  <2>. SUFFICES ASSUME TypeInv, OwnInv, NEW n \in Names, Settled, kind = KERNEL,
                       takes[n] = 0, want[n] = 0, asks[n] = 1, main.name # n
                PROVE  n \notin listed
    BY DEF GivenBack
  <2>1. GoneAfter(n)
    BY DEF OwnInv, HubsAlone, Own
  <2>2. DOMAIN pipe = {}
    BY DEF Settled
  <2>. QED
    BY <2>1, <2>2 DEF GoneAfter
<1>2. Spec => []OwnInv
  BY OwnStart, AlwaysTyped, OwnStep, PTL DEF Spec
<1>. QED
  BY <1>1, <1>2, AlwaysTyped, PTL

----------------------------------------------------------------------------
(* Tokens that applications take                                           *)

AppsAlone(n) == kind = SXMO /\ asks[n] = 0

\* Nobody has the name.
Fresh(n) ==
    /\ n \notin apps \cup listed \cup active \cup ours \cup racing
    /\ n \notin watcher.todo \cup watcher.file \cup ToSet(regQ) \cup ToSet(unregQ)
    /\ watcher.name # n /\ main.name # n /\ want[n] = 0

\* The name is registered, or the watcher has it, or will yet look at the file.
OnItsWay(n) ==
    \/ n \in active \cup ToSet(regQ)
    \/ watcher.at \in {"new", "looking"} /\ n \in watcher.todo
    \/ watcher.at = "looking" /\ watcher.name = n
    \/ watcher.at = "listing" \/ events # <<>> \/ ~watched

\* It stays in the file, and whatever the watcher knows of it is from a file that
\* has it: the watcher cannot find it gone, and a traversal that is disturbed by it
\* is one during which it was registered.
Token(n) ==
    /\ n \in listed /\ n \notin ours /\ main.name # n /\ want[n] = 0 /\ ~Reported(n)
    /\ n \in racing => n \in active
    /\ watcher.at \in {"new", "looking", "old", "unqueueing"}
        /\ n \in active \cup ToSet(regQ) \cup watcher.todo => n \in watcher.file
    /\ watcher.at = "looking" /\ watcher.name = n => n \in watcher.file
    /\ OnItsWay(n)

TokenInv ==
    /\ kind = SXMO => pipe = <<>> /\ watcher.at # "queueing"
    /\ \A n \in Names : AppsAlone(n) =>
        /\ takes[n] = 0 => Fresh(n)
        /\ takes[n] = 1 /\ n \in apps => Token(n)

\* Steps that are about other names.
LEMMA OthersStep ==
    ASSUME TypeInv, NEW n \in Names,
           UNCHANGED <<regQ, unregQ, watcher>>,
           n \in apps' => n \in apps,
           n \in listed' <=> n \in listed, n \in ours' => n \in ours,
           n \in active' <=> n \in active, n \in racing' => n \in racing,
           main'.name # n, want'[n] = want[n],
           events # <<>> \/ ~watched => events' # <<>> \/ ~watched'
    PROVE  (Fresh(n) => Fresh(n)') /\ (Token(n) => Token(n)')
  BY DEF Fresh, Token, OnItsWay, Reported

LEMMA TokenWorld ==
    ASSUME TypeInv, NEW n \in Names, kind = SXMO, NEW m \in Names, AppTakes(m) \/ AppFrees(m)
    PROVE  /\ takes'[n] = 0 => takes[n] = 0 /\ (Fresh(n) => Fresh(n)')
           /\ takes'[n] = 1 /\ n \in apps' =>
                \/ takes[n] = 0 /\ (Fresh(n) => Token(n)')
                \/ takes[n] = 1 /\ n \in apps /\ (Token(n) => Token(n)')
<1>1. /\ UNCHANGED <<regQ, unregQ, watcher, active, ours, racing, main, want>>
      /\ takes \in [Names -> Nat]
  BY DEF AppTakes, AppFrees, config, mapVars, queueVars, TypeInv, TypeOK
<1>2. CASE AppTakes(m) /\ m = n
  <2>1. takes'[n] = takes[n] + 1 /\ takes[n] \in Nat
    BY <1>1, <1>2 DEF AppTakes
  <2>2. listed' = listed \cup {n} /\ (events' # <<>> \/ ~watched')
    <3>1. listed \cup {n} \in SUBSET Names
      BY DEF TypeInv, TypeOK
    <3>. QED
      BY <1>2, <3>1, WriteFacts DEF AppTakes
  <2>3. Fresh(n) => Token(n)'
    BY <1>1, <2>2 DEF Fresh, Token, OnItsWay, Reported
  <2>. QED
    BY <2>1, <2>3
<1>3. CASE AppFrees(m) /\ m = n
  <2>1. takes' = takes /\ n \notin apps' /\ n \in apps
    BY <1>3 DEF AppFrees
  <2>. QED
    BY <2>1 DEF Fresh
<1>4. CASE m # n
  <2>1. takes'[n] = takes[n]
    BY <1>1, <1>4 DEF AppTakes, AppFrees
  <2>2. n \in apps' <=> n \in apps
    BY <1>4 DEF AppTakes, AppFrees
  <2>3. (n \in listed' <=> n \in listed) /\ (events' # <<>> \/ ~watched')
    <3>1. listed \cup {m} \in SUBSET Names /\ listed \ {m} \in SUBSET Names
      BY DEF TypeInv, TypeOK
    <3>2. CASE AppTakes(m)
      BY <1>4, <3>1, <3>2, WriteFacts DEF AppTakes
    <3>3. CASE AppFrees(m)
      BY <1>4, <3>1, <3>3, WriteFacts DEF AppFrees
    <3>. QED
      BY <3>2, <3>3
  <2>4. main.name # n => (Fresh(n) => Fresh(n)') /\ (Token(n) => Token(n)')
    BY <1>1, <2>2, <2>3, OthersStep
  <2>. QED
    BY <2>1, <2>2, <2>4 DEF Fresh, Token
<1>. QED
  BY <1>2, <1>3, <1>4

\* The main thread's business with other names.
LEMMA TokenMain ==
    ASSUME TypeInv, NEW n \in Names, kind = SXMO, asks'[n] = 0, main.name # n, want[n] = 0,
           \/ \E m \in Names : TakeBegin(m) \/ FreeBegin(m)
           \/ TakeEnd \/ TakeActive \/ FreeEnd \/ FreeActive \/ Sigint
    PROVE  (Fresh(n) => Fresh(n)') /\ (Token(n) => Token(n)')
<1>0. kind # KERNEL /\ n # NoName
  BY NamesAssumption DEF KERNEL, SXMO
<1>1. UNCHANGED <<regQ, unregQ, watcher, apps>>
  BY DEF TakeBegin, FreeBegin, TakeEnd, TakeActive, FreeEnd, FreeActive, Sigint, worldVars,
         queueVars
<1>2. ASSUME NEW names \in SUBSET Names, Write(names), n \in names <=> n \in listed
      PROVE  (n \in listed' <=> n \in listed) /\ (events' # <<>> \/ ~watched')
  BY <1>2, WriteFacts
<1>3. listed \subseteq Names /\ want \in [Names -> Nat] /\ asks \in [Names -> Nat]
  BY DEF TypeInv, TypeOK
<1>4. ASSUME NEW m \in Names, TakeBegin(m)
      PROVE  (Fresh(n) => Fresh(n)') /\ (Token(n) => Token(n)')
  <2>1. m # n
    <3>1. asks'[m] = asks[m] + 1 /\ asks[m] \in Nat
      BY <1>3, <1>4 DEF TakeBegin
    <3>. QED
      BY <3>1
  <2>2. (n \in listed' <=> n \in listed) /\ (events' # <<>> \/ ~watched')
    <3>1. Write(listed \cup {m}) /\ listed \cup {m} \in SUBSET Names
      BY <1>0, <1>3, <1>4 DEF TakeBegin
    <3>. QED
      BY <1>2, <2>1, <3>1
  <2>3. main'.name # n /\ UNCHANGED <<want, active, ours, racing>>
    BY <1>0, <1>4, <2>1 DEF TakeBegin, Do
  <2>. QED
    BY <1>1, <2>2, <2>3, OthersStep
<1>5. ASSUME NEW m \in Names, FreeBegin(m)
      PROVE  (Fresh(n) => Fresh(n)') /\ (Token(n) => Token(n)')
  <2>1. m # n
    BY <1>5 DEF FreeBegin, Due
  <2>2. want'[n] = want[n]
    BY <1>3, <1>5, <2>1 DEF FreeBegin
  <2>3. main'.name # n /\ ours' \subseteq ours
    BY <1>0, <1>5, <2>1 DEF FreeBegin, Do
  <2>4. UNCHANGED <<listed, events, watched, active, racing>>
    BY <1>5 DEF FreeBegin, fileVars
  <2>. QED
    BY <1>1, <2>2, <2>3, <2>4, OthersStep
<1>6. CASE TakeEnd
  <2>1. main'.name # n /\ ours' = ours \cup {main.name}
    BY <1>0, <1>6 DEF TakeEnd, Do
  <2>2. UNCHANGED <<listed, events, watched, active, racing, want>>
    BY <1>6 DEF TakeEnd, fileVars
  <2>. QED
    BY <1>1, <2>1, <2>2, OthersStep
<1>7. CASE FreeEnd
  <2>1. main'.name # n /\ UNCHANGED <<ours, active, racing, want>>
    BY <1>0, <1>7 DEF FreeEnd, Do
  <2>2. (n \in listed' <=> n \in listed) /\ (events' # <<>> \/ ~watched')
    <3>1. Write(listed \ {main.name}) /\ listed \ {main.name} \in SUBSET Names
      BY <1>0, <1>3, <1>7 DEF FreeEnd
    <3>. QED
      BY <1>2, <3>1
  <2>. QED
    BY <1>1, <2>1, <2>2, OthersStep
<1>8. CASE TakeActive \/ FreeActive
  <2>1. main'.name # n
    BY <1>0, <1>8 DEF TakeActive, FreeActive, Do
  <2>2. want'[n] = want[n]
    BY <1>3, <1>8 DEF TakeActive, FreeActive
  <2>3. (n \in active' <=> n \in active) /\ (n \in racing' => n \in racing)
    BY <1>8 DEF TakeActive, FreeActive, Change
  <2>4. UNCHANGED <<listed, events, watched, ours>>
    BY <1>8 DEF TakeActive, FreeActive, fileVars
  <2>. QED
    BY <1>1, <2>1, <2>2, <2>3, <2>4, OthersStep
<1>9. CASE Sigint
  <2>1. /\ Do("exited", main.name) /\ want' = [m \in Names |-> 0]
        /\ Change(Planned) /\ ours' = ours \ Planned
        /\ Write(listed \ Planned)
    BY <1>0, <1>9 DEF Sigint
  <2>2. n \notin Planned
    BY DEF Planned
  <2>3. (n \in listed' <=> n \in listed) /\ (events' # <<>> \/ ~watched')
    <3>1. listed \ Planned \in SUBSET Names
      BY <1>3
    <3>. QED
      BY <1>2, <2>1, <2>2, <3>1
  <2>4. (n \in active' <=> n \in active) /\ (n \in racing' => n \in racing)
    BY <2>1, <2>2 DEF Change
  <2>5. main'.name # n /\ want'[n] = want[n] /\ ours' \subseteq ours
    BY <2>1 DEF Do
  <2>. QED
    BY <1>1, <2>3, <2>4, <2>5, OthersStep
<1>. QED
  BY <1>4, <1>5, <1>6, <1>7, <1>8, <1>9

LEMMA TokenDrains ==
    ASSUME TypeInv, NEW n \in Names,
           DrainBegin \/ DrainEnd \/ DrainRegister \/ DrainUnregister
    PROVE  (Fresh(n) => Fresh(n)') /\ (Token(n) => Token(n)')
<1>1. UNCHANGED <<apps, listed, events, watched, ours, want, watcher>>
  BY DEF DrainBegin, DrainEnd, DrainRegister, DrainUnregister, fileVars, worldVars, mapVars
<1>2. main'.name \in {main.name, NoName} /\ n # NoName
  BY NamesAssumption DEF DrainBegin, DrainEnd, DrainRegister, DrainUnregister, Do
<1>3. regQ \in Seq(Names) /\ unregQ \in Seq(Names)
  BY DEF TypeInv, TypeOK
<1>4. CASE DrainBegin \/ DrainEnd
  <2>1. UNCHANGED <<regQ, unregQ, active, racing>>
    BY <1>4 DEF DrainBegin, DrainEnd, mapVars, queueVars
  <2>. QED
    BY <1>1, <1>2, <2>1 DEF Fresh, Token, OnItsWay, Reported
<1>5. CASE DrainRegister
  <2>. DEFINE h == Head(regQ)
  <2>1. /\ h \in ToSet(regQ) /\ ToSet(regQ') \subseteq ToSet(regQ)
        /\ ToSet(regQ) \subseteq ToSet(regQ') \cup {h}
    BY <1>3, <1>5, QueueFacts DEF DrainRegister
  <2>2. active' = active \cup {h} /\ racing' \subseteq racing \cup {h} /\ unregQ' = unregQ
    BY <1>5 DEF DrainRegister, Change
  <2>. HIDE DEF h
  <2>3. Fresh(n) => Fresh(n)'
    BY <1>1, <1>2, <2>1, <2>2 DEF Fresh
  <2>4. OnItsWay(n) => OnItsWay(n)'
    BY <1>1, <2>1, <2>2 DEF OnItsWay
  <2>5. Token(n) => Token(n)'
    BY <1>1, <1>2, <2>1, <2>2, <2>4 DEF Token, Reported
  <2>. QED
    BY <2>3, <2>5
<1>6. CASE DrainUnregister
  <2>. DEFINE h == Head(unregQ)
  <2>1. h \in ToSet(unregQ) /\ ToSet(unregQ') \subseteq ToSet(unregQ)
    BY <1>3, <1>6, QueueFacts DEF DrainUnregister
  <2>2. active' = active \ {h} /\ racing' \subseteq racing \cup {h} /\ regQ' = regQ
    BY <1>6 DEF DrainUnregister, Change
  <2>. HIDE DEF h
  <2>3. Fresh(n) => Fresh(n)'
    BY <1>1, <1>2, <2>1, <2>2 DEF Fresh
  <2>4. n # h /\ OnItsWay(n) => OnItsWay(n)'
    BY <1>1, <2>1, <2>2 DEF OnItsWay
  <2>5. Token(n) => Token(n)'
    BY <1>1, <1>2, <2>1, <2>2, <2>4 DEF Token, Reported
  <2>. QED
    BY <2>3, <2>5
<1>. QED
  BY <1>4, <1>5, <1>6

\* The watcher, while a disturbed traversal can only come upon a token that is
\* registered.
LEMMA TokenWatcher ==
    ASSUME TypeInv, NEW n \in Names, kind = SXMO, watcher.at # "queueing", Watcher
    PROVE  /\ Fresh(n) => Fresh(n)'
           /\ Token(n) => Token(n)'
           /\ watcher'.at # "queueing"
<1>0. kind # KERNEL /\ n # NoName
  BY NamesAssumption DEF KERNEL, SXMO
<1>1. UNCHANGED <<apps, listed, active, ours, want, main>>
  BY DEF Watcher, ReadFile, ReadEvents, LookFor, LookFound, Queue, LookForOld, LookGone,
         Unqueue, LookDone, fileVars, worldVars, mapVars
<1>2. regQ \in Seq(Names) /\ unregQ \in Seq(Names)
  BY DEF TypeInv, TypeOK
<1>3. CASE ReadFile
  <2>1. /\ watcher' = [at |-> "new", todo |-> listed, file |-> listed, name |-> NoName]
        /\ UNCHANGED <<events, watched, regQ, unregQ, racing>>
    BY <1>3 DEF ReadFile, Awake, fileVars, mapVars, queueVars
  <2>2. watcher'.at = "new" /\ watcher'.todo = listed /\ watcher'.file = listed /\ watcher'.name = NoName
    BY <2>1
  <2>. QED
    BY <1>0, <1>1, <2>1, <2>2 DEF Fresh, Token, OnItsWay, Reported
<1>4. CASE ReadEvents
  <2>1. watcher'.at = "listing" /\ watcher'.todo = {} /\ watcher'.file = watcher.file /\ watcher'.name = NoName
    BY <1>4 DEF ReadEvents, Awake
  <2>2. UNCHANGED <<regQ, unregQ, racing>>
    BY <1>4 DEF ReadEvents, mapVars, queueVars
  <2>. QED
    BY <1>0, <1>1, <2>1, <2>2 DEF Fresh, Token, OnItsWay, Reported
<1>5. ASSUME NEW m \in Names, LookFor(m)
      PROVE  /\ Fresh(n) => Fresh(n)'
             /\ Token(n) => Token(n)'
             /\ watcher'.at # "queueing"
  <2>1. /\ watcher.at = "new" /\ m \in watcher.todo
        /\ watcher'.at = "looking" /\ watcher'.todo = watcher.todo \ {m}
        /\ watcher'.file = watcher.file /\ watcher'.name = m
        /\ racing' = {}
    BY <1>5 DEF LookFor, Awake
  <2>2. UNCHANGED <<events, watched, regQ, unregQ>>
    BY <1>5 DEF LookFor, fileVars, queueVars
  <2>. QED
    BY <1>1, <2>1, <2>2 DEF Fresh, Token, OnItsWay, Reported
<1>6. CASE LookFound
  <2>. DEFINE m == watcher.name
  <2>1. m \in Names /\ watcher.at = "looking"
    BY <1>6 DEF LookFound, TypeInv, Named
  <2>2. PICK exists \in Seen(m) :
          /\ Awake("new", watcher.todo, watcher.file, NoName)
          /\ regQ' = IF exists \/ m \in ToSet(regQ) \/ m \in ours THEN regQ ELSE Append(regQ, m)
    BY <1>0, <1>6 DEF LookFound
  <2>3. /\ watcher'.at = "new" /\ watcher'.todo = watcher.todo
        /\ watcher'.file = watcher.file /\ watcher'.name = NoName
    BY <2>2 DEF Awake
  <2>4. racing' = {} /\ UNCHANGED <<events, watched, unregQ>>
    BY <1>6 DEF LookFound, fileVars
  <2>. HIDE DEF m
  <2>5. ToSet(Append(regQ, m)) = ToSet(regQ) \cup {m}
    BY <1>2, <2>1, QueueFacts
  <2>6. ToSet(regQ) \subseteq ToSet(regQ') /\ ToSet(regQ') \subseteq ToSet(regQ) \cup {m}
    BY <2>2, <2>5
  <2>7. Fresh(n) => Fresh(n)'
    BY <1>0, <1>1, <2>3, <2>4, <2>6 DEF Fresh, m
  <2>8. ASSUME Token(n), m = n
        PROVE  n \in active \cup ToSet(regQ')
    <3>1. CASE exists
      <4>1. n \in active \/ n \in racing
        BY <2>2, <2>8, <3>1 DEF Seen
      <4>. QED
        BY <2>8, <4>1 DEF Token
    <3>2. CASE ~exists
      BY <2>2, <2>5, <2>6, <2>8, <3>2 DEF Token
    <3>. QED
      BY <3>1, <3>2
  <2>9. ASSUME Token(n)
        PROVE  OnItsWay(n)'
    <3>1. CASE m = n
      BY <1>1, <2>8, <2>9, <3>1 DEF OnItsWay
    <3>2. CASE m # n
      BY <1>1, <2>1, <2>3, <2>4, <2>6, <2>9, <3>2 DEF Token, OnItsWay, m
    <3>. QED
      BY <3>1, <3>2
  <2>10. Token(n) => Token(n)'
    BY <1>1, <2>1, <2>3, <2>4, <2>6, <2>9 DEF Token, Reported, m
  <2>. QED
    BY <2>3, <2>7, <2>10
<1>7. CASE Unqueue
  <2>1. watcher.name \in Names /\ watcher.at = "unqueueing"
    BY <1>7 DEF Unqueue, TypeInv, Named
  <2>2. ToSet(unregQ') = ToSet(unregQ) \cup {watcher.name}
    BY <1>2, <1>7, <2>1, QueueFacts DEF Unqueue
  <2>3. /\ watcher'.at = "old" /\ watcher'.todo = watcher.todo
        /\ watcher'.file = watcher.file /\ watcher'.name = NoName
    BY <1>7 DEF Unqueue, Awake
  <2>4. UNCHANGED <<events, watched, regQ, racing>>
    BY <1>7 DEF Unqueue, fileVars, mapVars
  <2>. QED
    BY <1>0, <1>1, <2>1, <2>2, <2>3, <2>4 DEF Fresh, Token, OnItsWay, Reported
<1>8. CASE LookForOld
  <2>1. /\ watcher.at = "new" /\ watcher.todo = {}
        /\ watcher'.at = "old" /\ watcher'.todo = active
        /\ watcher'.file = watcher.file /\ watcher'.name = NoName
        /\ racing' = {}
    BY <1>8 DEF LookForOld, Awake
  <2>2. UNCHANGED <<events, watched, regQ, unregQ>>
    BY <1>8 DEF LookForOld, fileVars, queueVars
  <2>. QED
    BY <1>0, <1>1, <2>1, <2>2 DEF Fresh, Token, OnItsWay, Reported
<1>9. ASSUME NEW m \in Names, LookGone(m)
      PROVE  /\ Fresh(n) => Fresh(n)'
             /\ Token(n) => Token(n)'
             /\ watcher'.at # "queueing"
  <2>1. PICK todo \in {watcher.todo \ {m}} \cup (IF racing # {} THEN {{}, active \ {m}} ELSE {}) :
          Awake(IF m \in watcher.file \/ Spared(m) THEN "old" ELSE "unqueueing",
                todo, watcher.file, m)
    BY <1>9 DEF LookGone
  <2>2. /\ watcher.at = "old" /\ m \in watcher.todo
        /\ watcher'.at \in {"old", "unqueueing"} /\ watcher'.todo \subseteq watcher.todo \cup active
        /\ watcher'.file = watcher.file /\ watcher'.name = m
        /\ watcher'.at = "unqueueing" => m \notin watcher.file
    BY <1>9, <2>1 DEF LookGone, Awake
  <2>3. racing' = {} /\ UNCHANGED <<events, watched, regQ, unregQ>>
    BY <1>9 DEF LookGone, fileVars, queueVars
  <2>. QED
    BY <1>1, <2>2, <2>3 DEF Fresh, Token, OnItsWay, Reported
<1>10. CASE LookDone
  <2>1. /\ watcher.at = "old"
        /\ watcher'.at = "asleep" /\ watcher'.todo = {}
        /\ watcher'.file = {} /\ watcher'.name = NoName
        /\ racing' = {}
    BY <1>10 DEF LookDone, Awake
  <2>2. UNCHANGED <<events, watched, regQ, unregQ>>
    BY <1>10 DEF LookDone, fileVars, queueVars
  <2>. QED
    BY <1>0, <1>1, <2>1, <2>2 DEF Fresh, Token, OnItsWay, Reported
<1>. QED
  BY <1>3, <1>4, <1>5, <1>6, <1>7, <1>8, <1>9, <1>10 DEF Watcher, Queue

LEMMA TokenStep == TypeInv /\ TokenInv /\ [Next]_vars => TokenInv'
<1>. SUFFICES ASSUME TypeInv, TokenInv, [Next]_vars, kind' = SXMO
              PROVE  TokenInv'
  BY DEF TokenInv, AppsAlone
<1>0. kind = SXMO /\ kind # KERNEL
  BY DEF Next, Environment, Main, Watcher, AppTakes, AppFrees, TakeBegin, FreeBegin, Sigint,
         TakeEnd, TakeActive, FreeEnd, FreeActive, DrainBegin, DrainEnd, DrainRegister,
         DrainUnregister, ReadFile, ReadEvents, LookFor, LookFound, Queue, LookForOld, LookGone,
         Unqueue, LookDone, HelperStep, config, vars, KERNEL, SXMO
<1>1. pipe = <<>> /\ watcher.at # "queueing" /\ ~HelperStep
  BY <1>0 DEF TokenInv, HelperStep
<1>2. pipe' = <<>>
  BY <1>0, <1>1
  DEF Next, Environment, Main, Watcher, AppTakes, AppFrees, TakeBegin, FreeBegin, Sigint,
      TakeEnd, TakeActive, FreeEnd, FreeActive, DrainBegin, DrainEnd, DrainRegister,
      DrainUnregister, ReadFile, ReadEvents, LookFor, LookFound, Queue, LookForOld, LookGone,
      Unqueue, LookDone, vars
<1>3. ASSUME NEW n \in Names, ~Watcher
      PROVE  UNCHANGED watcher
  BY <1>1, <1>3
  DEF Next, Environment, Main, AppTakes, AppFrees, TakeBegin, FreeBegin, Sigint,
      TakeEnd, TakeActive, FreeEnd, FreeActive, DrainBegin, DrainEnd, DrainRegister,
      DrainUnregister, vars
<1>4. watcher'.at # "queueing"
  <2>1. CASE Names = {}
    BY <1>0, <1>1, <2>1 DEF Next, Environment, Main, Watcher, Sigint, TakeEnd, TakeActive, FreeEnd,
      FreeActive, DrainBegin, DrainEnd, DrainRegister, DrainUnregister, ReadFile, ReadEvents,
      LookFound, Queue, LookForOld, Unqueue, LookDone, Awake, vars
  <2>2. CASE Names # {}
    BY <1>0, <1>1, <1>3, <2>2, TokenWatcher
  <2>. QED
    BY <2>1, <2>2
<1>. SUFFICES ASSUME NEW n \in Names, asks'[n] = 0
              PROVE  /\ takes'[n] = 0 => Fresh(n)'
                     /\ takes'[n] = 1 /\ n \in apps' => Token(n)'
  BY <1>2, <1>4 DEF TokenInv, AppsAlone
<1>5. asks[n] = 0
  <2>1. asks \in [Names -> Nat]
    BY DEF TypeInv, TypeOK
  <2>2. ASSUME NEW m \in Names, TakeBegin(m)
        PROVE  asks[n] = 0
    <3>1. asks' = [asks EXCEPT ![m] = @ + 1]
      BY <2>2 DEF TakeBegin
    <3>2. asks[n] \in Nat /\ asks'[n] \in {asks[n], asks[n] + 1}
      BY <2>1, <3>1
    <3>. QED
      BY <3>2
  <2>3. CASE UNCHANGED asks
    BY <2>3
  <2>. QED
    BY <1>1, <2>2, <2>3
    DEF Next, Environment, Main, Watcher, AppTakes, AppFrees, FreeBegin, Sigint,
        TakeEnd, TakeActive, FreeEnd, FreeActive, DrainBegin, DrainEnd, DrainRegister,
        DrainUnregister, ReadFile, ReadEvents, LookFor, LookFound, Queue, LookForOld, LookGone,
        Unqueue, LookDone, worldVars, vars
<1>6. (takes[n] = 0 => Fresh(n)) /\ (takes[n] = 1 /\ n \in apps => Token(n))
  BY <1>0, <1>5 DEF TokenInv, AppsAlone
<1>7. ASSUME NEW m \in Names, AppTakes(m) \/ AppFrees(m)
      PROVE  /\ takes'[n] = 0 => Fresh(n)'
             /\ takes'[n] = 1 /\ n \in apps' => Token(n)'
  BY <1>0, <1>6, <1>7, TokenWorld
<1>8. ASSUME takes' = takes, apps' = apps,
             (Fresh(n) => Fresh(n)') /\ (Token(n) => Token(n)')
      PROVE  /\ takes'[n] = 0 => Fresh(n)'
             /\ takes'[n] = 1 /\ n \in apps' => Token(n)'
  BY <1>6, <1>8
<1>9. CASE \E m \in Names : AppTakes(m) \/ AppFrees(m)
  BY <1>7, <1>9
<1>10. CASE ~\E m \in Names : AppTakes(m) \/ AppFrees(m)
  <2>1. takes' = takes /\ apps' = apps
    BY <1>1, <1>10
    DEF Next, Environment, Main, Watcher, TakeBegin, FreeBegin, Sigint,
        TakeEnd, TakeActive, FreeEnd, FreeActive, DrainBegin, DrainEnd, DrainRegister,
        DrainUnregister, ReadFile, ReadEvents, LookFor, LookFound, Queue, LookForOld, LookGone,
        Unqueue, LookDone, worldVars, vars
  <2>2. CASE main.name = n \/ want[n] # 0
    BY <1>6, <2>1, <2>2 DEF Fresh, Token
  <2>3. CASE main.name # n /\ want[n] = 0
    <3>1. CASE UNCHANGED vars
      BY <1>8, <2>1, <3>1 DEF vars, Fresh, Token, OnItsWay, Reported
    <3>2. CASE Environment
      BY <1>0, <1>8, <1>10, <2>1, <2>3, <3>2, TokenMain DEF Environment
    <3>3. CASE Main
      BY <1>0, <1>8, <2>1, <2>3, <3>3, TokenMain, TokenDrains DEF Main
    <3>4. CASE Watcher
      BY <1>0, <1>1, <1>8, <2>1, <3>4, TokenWatcher
    <3>. QED
      BY <1>1, <3>1, <3>2, <3>3, <3>4 DEF Next
  <2>. QED
    BY <2>2, <2>3
<1>. QED
  BY <1>9, <1>10

LEMMA TokenStart == Init => TokenInv
<1>. SUFFICES ASSUME Init
              PROVE  TokenInv
  OBVIOUS
<1>1. ToSet(<<>>) = {}
  BY DEF ToSet
<1>2. KERNEL # SXMO
  BY DEF KERNEL, SXMO
<1>3. ASSUME NEW n \in Names, kind = SXMO
      PROVE  Fresh(n) /\ takes[n] = 0
  <2>1. n # NoName /\ n \notin apps
    BY <1>2, <1>3, NamesAssumption DEF Init
  <2>. QED
    BY <1>1, <2>1 DEF Init, Fresh
<1>. QED
  BY <1>3 DEF Init, TokenInv, AppsAlone

\* Once sxmo's watcher has nothing left to do and its watch is in place, a token that
\* an application took is registered, however its write fell between the watcher's
\* reading of the events and of the file, between its traversals, or into the main
\* thread's changes to the maps that those traverse without a lock.
THEOREM TokensAreKnown == Spec => []TokensKnown
<1>1. TypeInv /\ TokenInv => TokensKnown
  <2>. SUFFICES ASSUME TypeInv, TokenInv, kind = SXMO, Quiet, watched, NEW n \in apps,
                       takes[n] = 1, asks[n] = 0
                PROVE  n \in active
    BY DEF TokensKnown
  <2>1. Token(n)
    BY DEF TokenInv, AppsAlone, TypeInv, TypeOK
  <2>2. ToSet(regQ) = {}
    BY DEF Quiet, ToSet
  <2>. QED
    BY <2>1, <2>2 DEF Token, OnItsWay, Quiet
<1>2. Spec => []TokenInv
  BY TokenStart, AlwaysTyped, TokenStep, PTL DEF Spec
<1>. QED
  BY <1>1, <1>2, AlwaysTyped, PTL

=============================================================================
