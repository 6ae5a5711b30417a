--------------------------- MODULE ForkPipeProofs ----------------------------
(***************************************************************************)
(* Proofs about a helper process behind its two pipes, for both helpers,   *)
(* any size of a read and any number of lines.                             *)
(***************************************************************************)
EXTENDS ForkPipe, FiniteSetTheorems, SequenceTheorems, WellFoundedInduction, TLAPS

----------------------------------------------------------------------------
(* The invariants                                                          *)

Bounded == Len(sent) <= MaxLines

TypeInv == TypeOK /\ Bounded

IsEnd(c) == c.text = "newline"

\* The ends of lines in s come in the order of the lines, and are those of lines
\* that were sent and whose end was not taken out of buf.
EndsOf(s) ==
    /\ \A i \in DOMAIN s : IsEnd(s[i]) => s[i].line \in Len(ended) + 1..Len(sent)
    /\ \A i, j \in DOMAIN s : IsEnd(s[i]) /\ IsEnd(s[j]) /\ i < j => s[i].line < s[j].line

\* What is under way has the ends of the lines that are not worked off, each once
\* and in order, whatever else reads made of the rest of them.
StreamInv ==
    /\ Len(ended) <= Len(sent)
    /\ \A n \in DOMAIN ended : ended[n] = n
    /\ EndsOf(buf) /\ EndsOf(toHelper)
    /\ \A i \in DOMAIN buf, j \in DOMAIN toHelper :
            IsEnd(buf[i]) /\ IsEnd(toHelper[j]) => buf[i].line < toHelper[j].line
    /\ \A n \in Len(ended) + 1..Len(sent) :
            \/ \E i \in DOMAIN buf : IsEnd(buf[i]) /\ buf[i].line = n
            \/ \E i \in DOMAIN toHelper : IsEnd(toHelper[i]) /\ toHelper[i].line = n

\* s is the lines from a to b - 1 of q and nothing else; line n begins after pos[n].
Cells(q, n) == CellsOf(n, q[n].shape)
LaidOut(q, s, a, b, pos) ==
    /\ pos[a] = 0 /\ pos[b] = Len(s)
    /\ \A m, n \in a..b : m < n => pos[m] < pos[n]
    /\ \A n \in a..b - 1 :
        /\ pos[n + 1] = pos[n] + Len(Cells(q, n))
        /\ \A k \in DOMAIN Cells(q, n) : s[pos[n] + k] = Cells(q, n)[k]
Whole(q, s, a, b) == \E pos \in [a..b -> 0..Len(s)] : LaidOut(q, s, a, b, pos)

\* As long as no read filled the buffer, both pipe and buffer hold whole lines.
WholeInv ==
    ~full => \E m \in Len(ended) + 1..Len(sent) + 1 :
                /\ Whole(sent, buf, Len(ended) + 1, m)
                /\ Whole(sent, toHelper, m, Len(sent) + 1)
                /\ child = "handling" => m > Len(ended) + 1

Pending == Len(ended) + 1..Len(sent)

\* Only what the helper understands is sent to it.
SentInv ==
    \A n \in DOMAIN sent :
        /\ sent[n].shape \in ShapesOf[helper]
        /\ sent[n].shape = "lock" => sent[n].of = n
        /\ sent[n].shape = "unlock" =>
                sent[n].of \in 1..n - 1 /\ sent[sent[n].of].shape = "lock"

\* One request at a time is unanswered, and none when the main thread is free.
Outstanding == {n \in Pending : sent[n].shape \in Requests}
RequestInv ==
    /\ main = "idle" => Outstanding = {} /\ toMain = <<>>
    /\ \A m, n \in Outstanding : m = n
    /\ Outstanding # {} => toMain = <<>>
    /\ Len(toMain) <= 1

\* A descriptor is known to the daemon, on its way to it, or on its way back, and
\* only one of these and once.
Returned == {n \in Pending : sent[n].shape = "release"}
FdsInv ==
    /\ held = (ToSet(mine) \cup ToSet(toMain) \cup {sent[n].of : n \in Returned}) \ {Denied}
    /\ \A i, j \in DOMAIN mine : mine[i] = mine[j] /\ mine[i] # Denied => i = j
    /\ \A m, n \in Returned : sent[m].of = sent[n].of /\ sent[m].of # Denied => m = n
    /\ \A i \in DOMAIN mine, n \in Returned : mine[i] # Denied => mine[i] # sent[n].of
    /\ \A i \in DOMAIN mine, j \in DOMAIN toMain : mine[i] # Denied => mine[i] # toMain[j]
    /\ \A j \in DOMAIN toMain, n \in Returned : toMain[j] # Denied => toMain[j] # sent[n].of

SystemdInv == helper = SYSTEMD /\ ~full /\ child # "dead" => RequestInv /\ FdsInv

\* The lines of q up to the k-th leave these locked.
Freed(q, k) == {q[n].of : n \in {m \in 1..k : q[m].shape = "unlock"}}
Locked(q, k) == {n \in 1..k : q[n].shape = "lock"} \ Freed(q, k)

KernelInv ==
    helper = KERNEL =>
        /\ main # "waiting"
        /\ ToSet(mine) = Locked(sent, Len(sent))
        /\ \A i, j \in DOMAIN mine : mine[i] = mine[j] => i = j
        /\ ~full => wake = {<<n, <<"name", "name">> >> : n \in Locked(sent, Len(ended))}

PipeInv == TypeInv /\ StreamInv /\ WholeInv /\ SentInv /\ SystemdInv /\ KernelInv

\* include/Fork.hpp's promise of what handleMsg is given, as long as no read fills
\* the buffer.
HandledWholeUnlessFull ==
    [][HandleMsg =>
        full \/ (HasLine(buf) /\
                 \E n \in DOMAIN sent : Texts(FirstLine(buf)) = Shapes[sent[n].shape])]_vars

----------------------------------------------------------------------------
(* Sequences                                                               *)

\* A set of numbers has a least one.
LEMMA LeastFacts ==
    ASSUME NEW T \in SUBSET Nat, T # {}
    PROVE  \E k \in T : \A j \in T : k <= j
<1>1. \E k \in T : \A j \in T : <<j, k>> \notin OpToRel(<, Nat)
  BY NatLessThanWellFounded, WFMin
<1>2. PICK k \in T : \A j \in T : ~(j < k)
  BY <1>1 DEF OpToRel
<1>. QED
  BY <1>2

LEMMA SubSeqFacts ==
    ASSUME NEW S, NEW s \in Seq(S), NEW m \in 1..Len(s) + 1, NEW n \in m - 1..Len(s)
    PROVE  /\ SubSeq(s, m, n) \in Seq(S)
           /\ Len(SubSeq(s, m, n)) = n - m + 1
           /\ DOMAIN SubSeq(s, m, n) = 1..n - m + 1
           /\ \A i \in 1..n - m + 1 : SubSeq(s, m, n)[i] = s[m + i - 1]
<1>1. Len(s) \in Nat /\ DOMAIN s = 1..Len(s)
  BY LenProperties
<1>2. m \in Int /\ n \in Int /\ \A i \in m..n : s[i] \in S
  BY <1>1, ElementOfSeq
<1>3. /\ SubSeq(s, m, n) \in Seq(S)
      /\ Len(SubSeq(s, m, n)) = IF m <= n THEN n - m + 1 ELSE 0
      /\ \A i \in 1..n - m + 1 : SubSeq(s, m, n)[i] = s[m + i - 1]
  BY <1>2, SubSeqProperties
<1>4. Len(SubSeq(s, m, n)) = n - m + 1
  BY <1>1, <1>3
<1>. QED
  BY <1>3, <1>4, LenProperties

LEMMA ConcatFacts ==
    ASSUME NEW S, NEW s \in Seq(S), NEW t \in Seq(S)
    PROVE  /\ s \o t \in Seq(S)
           /\ Len(s) \in Nat /\ DOMAIN s = 1..Len(s) /\ Len(t) \in Nat /\ DOMAIN t = 1..Len(t)
           /\ Len(s \o t) = Len(s) + Len(t)
           /\ DOMAIN (s \o t) = 1..Len(s) + Len(t)
           /\ \A i \in DOMAIN s : (s \o t)[i] = s[i]
           /\ \A i \in DOMAIN t : (s \o t)[Len(s) + i] = t[i]
<1>1. /\ Len(s) \in Nat /\ DOMAIN s = 1..Len(s) /\ Len(t) \in Nat /\ DOMAIN t = 1..Len(t)
      /\ Len(s \o t) = Len(s) + Len(t) /\ s \o t \in Seq(S)
  BY LenProperties, ConcatProperties
<1>. QED
  BY <1>1, LenProperties, ConcatProperties

LEMMA RemoveAtFacts ==
    ASSUME NEW S, NEW s \in Seq(S), NEW k \in DOMAIN s
    PROVE  /\ RemoveAt(s, k) \in Seq(S)
           /\ DOMAIN s = 1..Len(s) /\ Len(s) \in Nat /\ Len(RemoveAt(s, k)) = Len(s) - 1
           /\ DOMAIN RemoveAt(s, k) = 1..Len(s) - 1
           /\ \A i \in 1..Len(s) - 1 : RemoveAt(s, k)[i] = IF i < k THEN s[i] ELSE s[i + 1]
<1>1. Len(s) \in Nat /\ DOMAIN s = 1..Len(s) /\ k \in 1..Len(s)
  BY LenProperties
<1>2. /\ SubSeq(s, 1, k - 1) \in Seq(S) /\ Len(SubSeq(s, 1, k - 1)) = k - 1
      /\ \A i \in 1..k - 1 : SubSeq(s, 1, k - 1)[i] = s[i]
  <2>. DEFINE n == k - 1
  <2>1. 1 \in 1..Len(s) + 1 /\ n \in 1 - 1..Len(s) /\ n \in Int
    BY <1>1
  <2>. HIDE DEF n
  <2>2. /\ SubSeq(s, 1, n) \in Seq(S) /\ Len(SubSeq(s, 1, n)) = n - 1 + 1
        /\ \A i \in 1..n - 1 + 1 : SubSeq(s, 1, n)[i] = s[1 + i - 1]
    BY <2>1, SubSeqFacts
  <2>3. Len(SubSeq(s, 1, n)) = n /\ \A i \in 1..n : SubSeq(s, 1, n)[i] = s[i]
    BY <2>1, <2>2
  <2>. QED
    BY <2>2, <2>3 DEF n
<1>3. /\ SubSeq(s, k + 1, Len(s)) \in Seq(S) /\ Len(SubSeq(s, k + 1, Len(s))) = Len(s) - k
      /\ \A i \in 1..Len(s) - k : SubSeq(s, k + 1, Len(s))[i] = s[k + i]
  <2>. DEFINE m == k + 1
              n == Len(s)
  <2>1. m \in 1..Len(s) + 1 /\ n \in m - 1..Len(s) /\ m \in Int /\ n \in Int
    BY <1>1
  <2>. HIDE DEF m, n
  <2>2. /\ SubSeq(s, m, n) \in Seq(S) /\ Len(SubSeq(s, m, n)) = n - m + 1
        /\ \A i \in 1..n - m + 1 : SubSeq(s, m, n)[i] = s[m + i - 1]
    BY <2>1, SubSeqFacts
  <2>3. n - m + 1 = n - k /\ \A i \in 1..n - k : m + i - 1 = k + i
    BY <1>1, <2>1 DEF m
  <2>4. Len(SubSeq(s, m, n)) = n - k /\ \A i \in 1..n - k : SubSeq(s, m, n)[i] = s[k + i]
    BY <2>2, <2>3
  <2>. QED
    BY <2>2, <2>4 DEF m, n
<1>. DEFINE a == SubSeq(s, 1, k - 1)
            b == SubSeq(s, k + 1, Len(s))
<1>4. /\ a \in Seq(S) /\ Len(a) = k - 1 /\ \A i \in 1..k - 1 : a[i] = s[i]
      /\ b \in Seq(S) /\ Len(b) = Len(s) - k /\ \A i \in 1..Len(s) - k : b[i] = s[k + i]
  BY <1>2, <1>3
<1>5. RemoveAt(s, k) = a \o b
  BY DEF RemoveAt
<1>. HIDE DEF a, b
<1>6. /\ a \o b \in Seq(S) /\ Len(a \o b) = Len(a) + Len(b) /\ DOMAIN (a \o b) = 1..Len(a) + Len(b)
      /\ \A i \in DOMAIN a : (a \o b)[i] = a[i]
      /\ \A i \in DOMAIN b : (a \o b)[Len(a) + i] = b[i]
      /\ DOMAIN a = 1..Len(a) /\ DOMAIN b = 1..Len(b)
  <2>1. a \in Seq(S) /\ b \in Seq(S)
    BY <1>4
  <2>. QED
    BY <2>1, ConcatFacts
<1>7. ASSUME NEW i \in 1..Len(s) - 1
      PROVE  (a \o b)[i] = IF i < k THEN s[i] ELSE s[i + 1]
  <2>1. CASE i < k
    BY <1>1, <1>4, <1>6, <2>1
  <2>2. CASE ~(i < k)
    <3>1. i - (k - 1) \in 1..Len(s) - k /\ k + (i - (k - 1)) = i + 1 /\ (k - 1) + (i - (k - 1)) = i
      BY <1>1, <2>2
    <3>2. (a \o b)[Len(a) + (i - (k - 1))] = b[i - (k - 1)]
      BY <1>4, <1>6, <3>1
    <3>3. (a \o b)[i] = s[i + 1]
      BY <1>1, <1>4, <3>1, <3>2
    <3>. QED
      BY <2>2, <3>3
  <2>. QED
    BY <2>1, <2>2
<1>. QED
  BY <1>1, <1>4, <1>5, <1>6, <1>7

\* What is left, and nothing twice that was not there twice.
LEMMA RemovedFacts ==
    ASSUME NEW S, NEW s \in Seq(S), NEW k \in DOMAIN s
    PROVE  /\ \A i \in DOMAIN RemoveAt(s, k) : \E j \in DOMAIN s : j # k /\ RemoveAt(s, k)[i] = s[j]
           /\ \A j \in DOMAIN s : j # k => \E i \in DOMAIN RemoveAt(s, k) : RemoveAt(s, k)[i] = s[j]
           /\ \A i, j \in DOMAIN RemoveAt(s, k) : i # j =>
                \E x, y \in DOMAIN s : /\ x # y /\ x # k /\ y # k
                                       /\ RemoveAt(s, k)[i] = s[x] /\ RemoveAt(s, k)[j] = s[y]
<1>. DEFINE r == RemoveAt(s, k)
            From(i) == IF i < k THEN i ELSE i + 1
<1>1. /\ DOMAIN s = 1..Len(s) /\ Len(s) \in Nat /\ DOMAIN r = 1..Len(s) - 1
      /\ \A i \in 1..Len(s) - 1 : r[i] = IF i < k THEN s[i] ELSE s[i + 1]
  BY RemoveAtFacts
<1>. HIDE DEF r
<1>2. \A i \in DOMAIN r : From(i) \in DOMAIN s /\ From(i) # k /\ r[i] = s[From(i)]
  BY <1>1
<1>3. \A i, j \in DOMAIN r : i # j => From(i) # From(j)
  BY <1>1
<1>4. \A j \in DOMAIN s : j # k => \E i \in DOMAIN r : From(i) = j
  <2>. TAKE j \in DOMAIN s
  <2>. HAVE j # k
  <2>1. CASE j < k
    BY <1>1, <2>1
  <2>2. CASE j > k
    <3>1. j - 1 \in DOMAIN r /\ From(j - 1) = j
      BY <1>1, <2>2
    <3>. QED
      BY <3>1
  <2>. QED
    BY <1>1, <2>1, <2>2
<1>. HIDE DEF From
<1>. QED
  <2>1. \A i \in DOMAIN r : \E j \in DOMAIN s : j # k /\ r[i] = s[j]
    BY <1>2
  <2>2. \A j \in DOMAIN s : j # k => \E i \in DOMAIN r : r[i] = s[j]
    BY <1>2, <1>4
  <2>3. \A i, j \in DOMAIN r : i # j =>
            \E x, y \in DOMAIN s : x # y /\ x # k /\ y # k /\ r[i] = s[x] /\ r[j] = s[y]
    BY <1>2, <1>3
  <2>. QED
    BY <2>1, <2>2, <2>3 DEF r

----------------------------------------------------------------------------
(* Lines and their cells                                                   *)

LEMMA ShapeFacts ==
    ASSUME NEW shape \in DOMAIN Shapes
    PROVE  /\ Shapes[shape] \in Seq(Pieces) /\ Len(Shapes[shape]) \in Nat \ {0}
           /\ \A k \in DOMAIN Shapes[shape] : Shapes[shape][k] # "newline"
           /\ DOMAIN Shapes[shape] = 1..Len(Shapes[shape])
<1>1. shape \in {"request", "long", "tabbed", "release", "lock", "unlock"}
  BY DEF Shapes
<1>2. CASE shape = "request"
  <2>. DEFINE t == <<"names", "tab+blo", "ck">>
  <2>1. t \in Seq(Pieces) /\ Len(t) = 3 /\ DOMAIN t = 1..3 /\ \A k \in 1..3 : t[k] # "newline"
    BY DEF Pieces
  <2>2. Shapes[shape] = t
    BY <1>2 DEF Shapes
  <2>. QED
    BY <2>1, <2>2
<1>3. CASE shape = "long"
  <2>. DEFINE t == <<"names", "text", "text", "tab+blo", "ck">>
  <2>1. t \in Seq(Pieces) /\ Len(t) = 5 /\ DOMAIN t = 1..5 /\ \A k \in 1..5 : t[k] # "newline"
    BY DEF Pieces
  <2>2. Shapes[shape] = t
    BY <1>3 DEF Shapes
  <2>. QED
    BY <2>1, <2>2
<1>4. CASE shape = "tabbed"
  <2>. DEFINE t == <<"names", "tab", "tab+blo", "ck">>
  <2>1. t \in Seq(Pieces) /\ Len(t) = 4 /\ DOMAIN t = 1..4 /\ \A k \in 1..4 : t[k] # "newline"
    BY DEF Pieces
  <2>2. Shapes[shape] = t
    BY <1>4 DEF Shapes
  <2>. QED
    BY <2>1, <2>2
<1>5. CASE shape = "release"
  <2>. DEFINE t == <<"digit", "digit">>
  <2>1. t \in Seq(Pieces) /\ Len(t) = 2 /\ DOMAIN t = 1..2 /\ \A k \in 1..2 : t[k] # "newline"
    BY DEF Pieces
  <2>2. Shapes[shape] = t
    BY <1>5 DEF Shapes
  <2>. QED
    BY <2>1, <2>2
<1>6. CASE shape = "lock"
  <2>. DEFINE t == <<"name", "name">>
  <2>1. t \in Seq(Pieces) /\ Len(t) = 2 /\ DOMAIN t = 1..2 /\ \A k \in 1..2 : t[k] # "newline"
    BY DEF Pieces
  <2>2. Shapes[shape] = t
    BY <1>6 DEF Shapes
  <2>. QED
    BY <2>1, <2>2
<1>7. CASE shape = "unlock"
  <2>. DEFINE t == <<"tab", "name", "name">>
  <2>1. t \in Seq(Pieces) /\ Len(t) = 3 /\ DOMAIN t = 1..3 /\ \A k \in 1..3 : t[k] # "newline"
    BY DEF Pieces
  <2>2. Shapes[shape] = t
    BY <1>7 DEF Shapes
  <2>. QED
    BY <2>1, <2>2
<1>. QED
  BY <1>1, <1>2, <1>3, <1>4, <1>5, <1>6, <1>7

LEMMA LineFacts ==
    ASSUME NEW q \in Seq(Line), NEW n \in 1..Len(q)
    PROVE  q[n] \in Line /\ q[n].shape \in DOMAIN Shapes /\ q[n].of \in Int
<1>1. q[n] \in Line
  BY ElementOfSeq
<1>. QED
  BY <1>1 DEF Line

LEMMA CellsFacts ==
    ASSUME NEW n \in 1..MaxLines, NEW shape \in DOMAIN Shapes
    PROVE  LET C == CellsOf(n, shape)
               w == Len(Shapes[shape])
           IN  /\ C \in Seq(Cell) /\ w \in Nat \ {0} /\ Len(C) = w + 1 /\ DOMAIN C = 1..w + 1
               /\ \A k \in 1..w : C[k] = [line |-> n, text |-> Shapes[shape][k]] /\ ~IsEnd(C[k])
               /\ C[w + 1] = Newline(n) /\ IsEnd(C[w + 1])
<1>. DEFINE w == Len(Shapes[shape])
            L == [k \in DOMAIN Shapes[shape] |-> [line |-> n, text |-> Shapes[shape][k]]]
            E == <<Newline(n)>>
<1>1. /\ Shapes[shape] \in Seq(Pieces) /\ w \in Nat \ {0} /\ DOMAIN Shapes[shape] = 1..w
      /\ \A k \in 1..w : Shapes[shape][k] # "newline" /\ Shapes[shape][k] \in Pieces
  BY ShapeFacts, ElementOfSeq
<1>2. Newline(n) \in Cell /\ \A k \in 1..w : [line |-> n, text |-> Shapes[shape][k]] \in Cell
  <2>1. \A t \in Pieces \cup {"newline"} : [line |-> n, text |-> t] \in Cell
    BY DEF Cell
  <2>. QED
    BY <1>1, <2>1 DEF Newline
<1>3. L \in Seq(Cell) /\ Len(L) = w
  <2>1. L \in [1..w -> Cell]
    BY <1>1, <1>2
  <2>. HIDE DEF L
  <2>. QED
    BY <1>1, <2>1, IsASeq, LenProperties
<1>4. E \in Seq(Cell) /\ Len(E) = 1 /\ E[1] = Newline(n)
  BY <1>2
<1>5. CellsOf(n, shape) = L \o E
  BY DEF CellsOf
<1>6. \A k \in 1..w : L[k] = [line |-> n, text |-> Shapes[shape][k]]
  BY <1>1
<1>. HIDE DEF L, E
<1>7. /\ L \o E \in Seq(Cell) /\ Len(L \o E) = w + 1 /\ DOMAIN (L \o E) = 1..w + 1
      /\ \A i \in 1..w : (L \o E)[i] = L[i]
      /\ (L \o E)[w + 1] = E[1]
  <2>1. DOMAIN L = 1..w /\ DOMAIN E = 1..1 /\ Len(L \o E) = Len(L) + Len(E)
    BY <1>3, <1>4, ConcatFacts
  <2>2. w \in Nat /\ Len(L) = w /\ Len(E) = 1 /\ 1 \in DOMAIN E
    BY <1>1, <1>3, <1>4, <2>1
  <2>3. /\ L \o E \in Seq(Cell) /\ DOMAIN (L \o E) = 1..Len(L) + Len(E)
        /\ \A i \in DOMAIN L : (L \o E)[i] = L[i]
        /\ \A i \in DOMAIN E : (L \o E)[Len(L) + i] = E[i]
    BY <1>3, <1>4, ConcatFacts
  <2>. HIDE DEF w
  <2>. QED
    BY <2>1, <2>2, <2>3
<1>. QED
  BY <1>1, <1>4, <1>5, <1>6, <1>7 DEF IsEnd, Newline

\* Where the first line of b ends.
LEMMA FirstEnd ==
    ASSUME NEW b \in Seq(Cell), HasLine(b)
    PROVE  \E k \in DOMAIN b :
                /\ IsEnd(b[k]) /\ \A j \in 1..k - 1 : ~IsEnd(b[j])
                /\ FirstLine(b) = SubSeq(b, 1, k - 1)
                /\ Len(FirstLine(b)) = k - 1
                /\ Rest(b) = SubSeq(b, k + 1, Len(b))
<1>. DEFINE T == {k \in DOMAIN b : b[k].text = "newline"}
            First(k) == k \in DOMAIN b /\ b[k].text = "newline"
                            /\ \A j \in 1..k - 1 : b[j].text # "newline"
            f == CHOOSE k \in DOMAIN b : b[k].text = "newline"
                            /\ \A j \in 1..k - 1 : b[j].text # "newline"
<1>1. Len(b) \in Nat /\ DOMAIN b = 1..Len(b)
  BY LenProperties
<1>2. T \in SUBSET Nat /\ T # {}
  BY <1>1 DEF HasLine
<1>3. PICK k \in T : \A j \in T : k <= j
  BY <1>2, LeastFacts
<1>4. First(k)
  BY <1>1, <1>3
<1>5. First(f)
  BY <1>4
<1>6. FirstLine(b) = SubSeq(b, 1, f - 1)
  BY DEF FirstLine
<1>. HIDE DEF f
<1>7. f \in 1..Len(b)
  BY <1>1, <1>5
<1>8. Len(SubSeq(b, 1, f - 1)) = f - 1
  <2>1. 1 \in 1..Len(b) + 1 /\ f - 1 \in 1 - 1..Len(b)
    BY <1>1, <1>7
  <2>2. Len(SubSeq(b, 1, f - 1)) = (f - 1) - 1 + 1
    BY <2>1, SubSeqFacts
  <2>. QED
    BY <1>7, <2>2
<1>9. Rest(b) = SubSeq(b, f + 1, Len(b))
  <2>1. Len(FirstLine(b)) + 2 = f + 1
    BY <1>6, <1>7, <1>8
  <2>. QED
    BY <2>1 DEF Rest
<1>. QED
  BY <1>5, <1>6, <1>8, <1>9 DEF IsEnd

----------------------------------------------------------------------------
(* Whole lines                                                             *)

LEMMA WholeEmpty ==
    ASSUME NEW q, NEW a \in Nat
    PROVE  Whole(q, <<>>, a, a)
<1>. DEFINE pos == [n \in a..a |-> 0]
<1>1. pos \in [a..a -> 0..0] /\ pos[a] = 0 /\ Len(<<>>) = 0
  OBVIOUS
<1>. HIDE DEF pos
<1>2. LaidOut(q, <<>>, a, a, pos)
  BY <1>1 DEF LaidOut
<1>. QED
  BY <1>1, <1>2 DEF Whole

LEMMA WholeNothing ==
    ASSUME NEW q, NEW s \in Seq(Cell), NEW a \in Nat, Whole(q, s, a, a)
    PROVE  s = <<>>
<1>1. Len(s) = 0
  BY DEF Whole, LaidOut
<1>. QED
  BY <1>1, EmptySeq

\* A line that is sent besides is not looked at.
LEMMA WholeBefore ==
    ASSUME NEW q \in Seq(Line), NEW s \in Seq(Cell), NEW line \in Line,
           NEW a \in 1..Len(q) + 1, NEW b \in a..Len(q) + 1, Whole(q, s, a, b)
    PROVE  Whole(Append(q, line), s, a, b)
<1>1. PICK pos \in [a..b -> 0..Len(s)] : LaidOut(q, s, a, b, pos)
  BY DEF Whole
<1>2. \A n \in a..b - 1 : Append(q, line)[n] = q[n]
  BY AppendProperties, LenProperties
<1>3. \A n \in a..b - 1 : Cells(Append(q, line), n) = Cells(q, n)
  BY <1>2 DEF Cells
<1>4. LaidOut(Append(q, line), s, a, b, pos)
  BY <1>1, <1>3 DEF LaidOut
<1>. QED
  BY <1>4 DEF Whole

LEMMA WholeAppend ==
    ASSUME NEW q \in Seq(Line), Len(q) < MaxLines, NEW s \in Seq(Cell), NEW line \in Line,
           NEW a \in 1..Len(q) + 1, Whole(q, s, a, Len(q) + 1)
    PROVE  Whole(Append(q, line), s \o CellsOf(Len(q) + 1, line.shape), a, Len(q) + 2)
<1>. DEFINE b == Len(q) + 1
            C == CellsOf(b, line.shape)
            r == Append(q, line)
<1>1. Len(q) \in Nat /\ Len(s) \in Nat /\ b \in 1..MaxLines /\ line.shape \in DOMAIN Shapes
  BY LenProperties, SizesAssumption DEF Line
<1>2. C \in Seq(Cell) /\ Len(C) \in Nat \ {0} /\ DOMAIN C = 1..Len(C)
  BY <1>1, CellsFacts
<1>3. Cells(r, b) = C
  BY AppendProperties DEF Cells
<1>4. Whole(r, s, a, b)
  BY <1>1, WholeBefore
<1>5. PICK pos \in [a..b -> 0..Len(s)] : LaidOut(r, s, a, b, pos)
  BY <1>4 DEF Whole
<1>. HIDE DEF b, C, r
<1>6. /\ Len(s \o C) = Len(s) + Len(C)
      /\ \A i \in 1..Len(s) : (s \o C)[i] = s[i]
      /\ \A i \in 1..Len(C) : (s \o C)[Len(s) + i] = C[i]
  BY <1>2, ConcatFacts
<1>. DEFINE l == Len(s)
            t == s \o C
            p == [n \in a..b + 1 |-> IF n <= b THEN pos[n] ELSE Len(t)]
<1>7. a \in Nat /\ b \in Nat /\ a <= b
  BY <1>1 DEF b
<1>8. p \in [a..b + 1 -> 0..Len(t)] /\ \A n \in a..b : p[n] = pos[n]
  BY <1>1, <1>2, <1>6, <1>7
<1>9. p[b + 1] = Len(t) /\ p[b] = Len(s) /\ p[a] = 0
  BY <1>5, <1>7 DEF LaidOut
<1>. HIDE DEF p
<1>10. \A m, n \in a..b + 1 : m < n => p[m] < p[n]
  <2>. SUFFICES ASSUME NEW m \in a..b + 1, NEW n \in a..b + 1, m < n  PROVE p[m] < p[n]
    OBVIOUS
  <2>1. CASE n <= b
    BY <1>5, <1>7, <1>8, <2>1 DEF LaidOut
  <2>2. CASE n = b + 1
    <3>1. m \in a..b /\ p[m] \in 0..Len(s)
      BY <1>7, <1>8, <2>2
    <3>. QED
      BY <1>1, <1>2, <1>6, <1>9, <2>2, <3>1
  <2>. QED
    BY <1>7, <2>1, <2>2
<1>11. ASSUME NEW n \in a..b
       PROVE  /\ p[n + 1] = p[n] + Len(Cells(r, n))
              /\ \A k \in DOMAIN Cells(r, n) : t[p[n] + k] = Cells(r, n)[k]
  <2>1. CASE n < b
    <3>1. n \in a..b - 1 /\ n + 1 \in a..b
      BY <1>7, <2>1
    <3>2. p[n] = pos[n] /\ p[n + 1] = pos[n + 1]
      BY <1>8, <3>1
    <3>3. /\ pos[n + 1] = pos[n] + Len(Cells(r, n))
          /\ \A k \in DOMAIN Cells(r, n) : s[pos[n] + k] = Cells(r, n)[k]
      BY <1>5, <3>1 DEF LaidOut
    <3>4. Len(Cells(r, n)) \in Nat /\ DOMAIN Cells(r, n) = 1..Len(Cells(r, n))
      <4>1. r \in Seq(Line) /\ n \in 1..Len(r)
        BY <1>1, <1>7, <2>1, AppendProperties DEF r, b
      <4>2. r[n].shape \in DOMAIN Shapes
        BY <4>1, LineFacts
      <4>3. n \in 1..MaxLines
        BY <1>1, <1>7, <2>1, SizesAssumption
      <4>. QED
        BY <4>2, <4>3, CellsFacts DEF Cells
    <3>5. \A k \in 1..Len(Cells(r, n)) : pos[n] + k \in 1..Len(s)
      <4>1. pos[n] \in 0..Len(s) /\ pos[n + 1] \in 0..Len(s)
        BY <1>7, <3>1
      <4>. QED
        BY <1>1, <3>3, <3>4, <4>1
    <3>6. \A k \in 1..Len(Cells(r, n)) : t[pos[n] + k] = Cells(r, n)[k]
      BY <1>6, <3>3, <3>4, <3>5
    <3>. QED
      BY <3>2, <3>3, <3>4, <3>6
  <2>2. CASE n = b
    <3>1. Len(t) = Len(s) + Len(C) /\ \A k \in DOMAIN C : t[Len(s) + k] = C[k]
      BY <1>2, <1>6
    <3>. QED
      BY <1>3, <1>9, <2>2, <3>1
  <2>3. n < b \/ n = b
    BY <1>7
  <2>. QED
    BY <2>1, <2>2, <2>3, Zenon
<1>12. LaidOut(r, t, a, b + 1, p)
  <2>1. (b + 1) - 1 = b
    BY <1>7
  <2>2. \A n \in a..(b + 1) - 1 :
            /\ p[n + 1] = p[n] + Len(Cells(r, n))
            /\ \A k \in DOMAIN Cells(r, n) : t[p[n] + k] = Cells(r, n)[k]
    BY <1>11, <2>1
  <2>. HIDE DEF t
  <2>. QED
    BY <1>9, <1>10, <2>2, Zenon DEF LaidOut
<1>13. Whole(r, t, a, b + 1)
  BY <1>8, <1>12 DEF Whole
<1>. QED
  BY <1>1, <1>13 DEF b, C, r

\* The first of whole lines is taken whole, and what is left is whole.
LEMMA WholeFirst ==
    ASSUME NEW q \in Seq(Line), Len(q) <= MaxLines, NEW s \in Seq(Cell),
           NEW a \in 1..Len(q), NEW b \in a + 1..Len(q) + 1, Whole(q, s, a, b)
    PROVE  LET t == Shapes[q[a].shape]
               msg == FirstLine(s)
           IN  /\ HasLine(s) /\ msg \in Seq(Cell) /\ Len(msg) = Len(t)
               /\ \A k \in 1..Len(t) : msg[k] = [line |-> a, text |-> t[k]]
               /\ s[Len(t) + 1] = Newline(a)
               /\ Rest(s) \in Seq(Cell) /\ Whole(q, Rest(s), a + 1, b)
<1>. DEFINE t == Shapes[q[a].shape]
            w == Len(t)
            msg == FirstLine(s)
            C == Cells(q, a)
<1>1. Len(q) \in Nat /\ Len(s) \in Nat /\ DOMAIN s = 1..Len(s) /\ a \in Nat /\ b \in Nat /\ a + 1 <= b
  BY LenProperties
<1>2. q[a].shape \in DOMAIN Shapes /\ a \in 1..MaxLines
  BY <1>1, LineFacts, SizesAssumption
<1>3. /\ w \in Nat \ {0} /\ Len(C) = w + 1 /\ DOMAIN C = 1..w + 1
      /\ \A k \in 1..w : C[k] = [line |-> a, text |-> t[k]] /\ ~IsEnd(C[k])
      /\ C[w + 1] = Newline(a) /\ IsEnd(C[w + 1])
  BY <1>2, CellsFacts DEF Cells
<1>4. PICK pos \in [a..b -> 0..Len(s)] : LaidOut(q, s, a, b, pos)
  BY DEF Whole
<1>. HIDE DEF t, w, msg, C
<1>5. pos[a] = 0 /\ pos[a + 1] = w + 1 /\ \A k \in 1..w + 1 : s[k] = C[k]
  <2>1. a \in a..b - 1
    BY <1>1
  <2>2. /\ pos[a] = 0 /\ pos[a + 1] = pos[a] + Len(C)
        /\ \A k \in DOMAIN C : s[pos[a] + k] = C[k]
    BY <1>4, <2>1 DEF LaidOut, C
  <2>3. w \in Nat /\ Len(C) = w + 1 /\ DOMAIN C = 1..w + 1
    BY <1>3
  <2>4. \A k \in 1..w + 1 : 0 + k = k
    OBVIOUS
  <2>. QED
    BY <2>2, <2>3, <2>4
<1>30. IsEnd(s[w + 1]) /\ \A k \in 1..w : ~IsEnd(s[k])
  <2>1. IsEnd(C[w + 1]) /\ (\A k \in 1..w : ~IsEnd(C[k])) /\ w \in Nat
    BY <1>3
  <2>2. w + 1 \in 1..w + 1 /\ \A k \in 1..w : k \in 1..w + 1
    BY <2>1
  <2>. QED
    BY <1>5, <2>1, <2>2, Zenon
<1>6. w + 1 \in DOMAIN s
  <2>1. a + 1 \in a..b
    BY <1>1
  <2>. QED
    BY <1>1, <1>3, <1>5, <2>1
<1>7. HasLine(s)
  BY <1>3, <1>5, <1>6 DEF HasLine, IsEnd
<1>8. PICK k \in DOMAIN s : /\ IsEnd(s[k]) /\ \A j \in 1..k - 1 : ~IsEnd(s[j])
                            /\ msg = SubSeq(s, 1, k - 1)
                            /\ Len(msg) = k - 1
                            /\ Rest(s) = SubSeq(s, k + 1, Len(s))
  BY <1>7, FirstEnd DEF msg
<1>9. k = w + 1
  <2>1. k \in Nat /\ w + 1 \in 1..Len(s)
    BY <1>1, <1>6
  <2>2. ~(k < w + 1)
    <3>1. k < w + 1 => k \in 1..w
      BY <1>1, <1>3, <2>1
    <3>. QED
      BY <1>8, <1>30, <3>1
  <2>3. ~(w + 1 < k)
    <3>1. w + 1 < k => w + 1 \in 1..k - 1
      BY <1>3, <2>1
    <3>. QED
      BY <1>8, <1>30, <3>1
  <2>. QED
    BY <1>3, <2>1, <2>2, <2>3
<1>10. /\ msg \in Seq(Cell) /\ Len(msg) = w
       /\ \A i \in 1..w : msg[i] = [line |-> a, text |-> t[i]]
  <2>1. 1 \in 1..Len(s) + 1 /\ w \in 1 - 1..Len(s) /\ msg = SubSeq(s, 1, w)
    BY <1>1, <1>3, <1>6, <1>8, <1>9
  <2>2. /\ msg \in Seq(Cell) /\ Len(msg) = w - 1 + 1
        /\ \A i \in 1..w - 1 + 1 : msg[i] = s[1 + i - 1]
    BY <2>1, SubSeqFacts
  <2>3. w \in Nat /\ w - 1 + 1 = w /\ \A i \in 1..w : 1 + i - 1 = i
    BY <1>3
  <2>4. Len(msg) = w /\ \A i \in 1..w : msg[i] = s[i]
    BY <2>2, <2>3
  <2>5. \A i \in 1..w : s[i] = [line |-> a, text |-> t[i]]
    BY <1>3, <1>5
  <2>. QED
    BY <2>2, <2>4, <2>5
<1>. DEFINE r == Rest(s)
            v == w + 1
            p == [n \in a + 1..b |-> pos[n] - v]
<1>11. /\ r \in Seq(Cell) /\ Len(r) = Len(s) - v /\ v \in 1..Len(s)
       /\ \A i \in 1..Len(s) - v : r[i] = s[v + i]
  <2>1. v + 1 \in 1..Len(s) + 1 /\ Len(s) \in (v + 1) - 1..Len(s) /\ r = SubSeq(s, v + 1, Len(s))
    <3>1. w \in Nat /\ w + 1 \in 1..Len(s)
      BY <1>1, <1>3, <1>6
    <3>. QED
      BY <1>1, <1>8, <1>9, <3>1
  <2>. HIDE DEF v, r
  <2>. DEFINE x == v + 1
  <2>2. x \in 1..Len(s) + 1 /\ Len(s) \in x - 1..Len(s) /\ r = SubSeq(s, x, Len(s)) /\ x \in Int
    BY <2>1
  <2>. HIDE DEF x
  <2>3. /\ r \in Seq(Cell) /\ Len(r) = Len(s) - x + 1
        /\ \A i \in 1..Len(s) - x + 1 : r[i] = s[x + i - 1]
    BY <2>2, SubSeqFacts
  <2>4. v \in 1..Len(s)
    BY <1>1, <1>6 DEF v
  <2>5. Len(s) - x + 1 = Len(s) - v /\ \A i \in 1..Len(s) - v : x + i - 1 = v + i
    BY <1>1, <2>4 DEF x
  <2>. QED
    BY <2>3, <2>4, <2>5
<1>. HIDE DEF r, v
<1>12. pos[a + 1] = v
  BY <1>5 DEF v
<1>13. \A n \in a + 1..b : pos[n] \in v..Len(s)
  <2>. TAKE n \in a + 1..b
  <2>1. a + 1 \in a..b /\ n \in a..b /\ pos[n] \in 0..Len(s)
    BY <1>1
  <2>2. a + 1 < n => pos[a + 1] < pos[n]
    BY <1>4, <2>1 DEF LaidOut
  <2>. QED
    BY <1>1, <1>11, <1>12, <2>1, <2>2
<1>14. p \in [a + 1..b -> 0..Len(r)] /\ \A n \in a + 1..b : p[n] = pos[n] - v
  BY <1>1, <1>11, <1>13
<1>. HIDE DEF p
<1>15. p[a + 1] = 0 /\ p[b] = Len(r)
  <2>1. a + 1 \in a + 1..b /\ b \in a + 1..b /\ pos[b] = Len(s)
    BY <1>1, <1>4 DEF LaidOut
  <2>2. p[a + 1] = v - v /\ p[b] = Len(s) - v
    BY <1>12, <1>14, <2>1
  <2>. QED
    BY <1>1, <1>11, <2>2
<1>16. \A m, n \in a + 1..b : m < n => p[m] < p[n]
  <2>. SUFFICES ASSUME NEW m \in a + 1..b, NEW n \in a + 1..b, m < n  PROVE p[m] < p[n]
    OBVIOUS
  <2>1. m \in a..b /\ n \in a..b
    BY <1>1
  <2>2. pos[m] < pos[n]
    BY <1>4, <2>1 DEF LaidOut
  <2>3. /\ pos[m] \in v..Len(s) /\ pos[n] \in v..Len(s)
        /\ p[m] = pos[m] - v /\ p[n] = pos[n] - v
    BY <1>13, <1>14
  <2>4. v \in Int /\ pos[m] \in Int /\ pos[n] \in Int
    BY <1>1, <1>11, <2>3
  <2>. QED
    BY <2>2, <2>3, <2>4
<1>17. ASSUME NEW n \in a + 1..b - 1
       PROVE  /\ p[n + 1] = p[n] + Len(Cells(q, n))
              /\ \A i \in DOMAIN Cells(q, n) : r[p[n] + i] = Cells(q, n)[i]
  <2>1. n \in a..b - 1 /\ n \in a + 1..b /\ n + 1 \in a + 1..b
    BY <1>1
  <2>2. /\ pos[n + 1] = pos[n] + Len(Cells(q, n))
        /\ \A i \in DOMAIN Cells(q, n) : s[pos[n] + i] = Cells(q, n)[i]
    BY <1>4, <2>1 DEF LaidOut
  <2>3. Len(Cells(q, n)) \in Nat /\ DOMAIN Cells(q, n) = 1..Len(Cells(q, n))
    <3>1. n \in 1..Len(q) /\ n \in 1..MaxLines
      BY <1>1, <2>1, SizesAssumption
    <3>2. q[n].shape \in DOMAIN Shapes
      BY <3>1, LineFacts
    <3>. QED
      BY <3>1, <3>2, CellsFacts DEF Cells
  <2>4. pos[n] \in v..Len(s) /\ pos[n + 1] \in v..Len(s) /\ p[n] = pos[n] - v /\ p[n + 1] = pos[n + 1] - v
    BY <1>13, <1>14, <2>1
  <2>5. ASSUME NEW i \in 1..Len(Cells(q, n))
        PROVE  p[n] + i \in 1..Len(s) - v /\ v + (p[n] + i) = pos[n] + i
    <3>1. v \in Nat /\ Len(s) \in Nat /\ i \in Nat /\ i >= 1 /\ pos[n] \in Nat
      BY <1>1, <1>11, <2>3, <2>4
    <3>2. pos[n] + i <= Len(s)
      BY <2>2, <2>3, <2>4, <3>1
    <3>3. (pos[n] - v) + i \in 1..Len(s) - v /\ v + ((pos[n] - v) + i) = pos[n] + i
      <4>1. pos[n] >= v
        BY <2>4, <3>1
      <4>. HIDE DEF p
      <4>. QED
        BY <3>1, <3>2, <4>1
    <3>. QED
      BY <2>4, <3>3
  <2>6. p[n + 1] = p[n] + Len(Cells(q, n))
    <3>1. v \in Nat /\ Len(s) \in Nat /\ pos[n + 1] = pos[n] + Len(Cells(q, n))
      BY <1>1, <1>11, <2>2
    <3>. QED
      BY <2>3, <2>4, <3>1
  <2>. QED
    BY <1>11, <2>2, <2>3, <2>5, <2>6
<1>18. LaidOut(q, r, a + 1, b, p)
  BY <1>15, <1>16, <1>17 DEF LaidOut
<1>19. Whole(q, r, a + 1, b)
  BY <1>14, <1>18 DEF Whole
<1>20. s[w + 1] = Newline(a)
  BY <1>3, <1>5
<1>. QED
  BY <1>7, <1>10, <1>11, <1>19, <1>20 DEF t, w, msg, r

----------------------------------------------------------------------------
(* The actions                                                             *)

\* A line is sent to a helper that lives.
Sends(line) ==
    /\ Len(sent) < MaxLines /\ child # "dead"
    /\ sent' = Append(sent, line)
    /\ toHelper' = toHelper \o CellsOf(Len(sent) + 1, line.shape)
    /\ UNCHANGED <<helper, toMain, buf, child, lockVars, ended, full>>

\* The helper is dead: nothing but the main thread changes.
TxFails ==
    /\ child = "dead"
    /\ main \in {"idle", "exiting"} /\ main' \in {"idle", "terminated"}
    /\ UNCHANGED <<helper, toHelper, toMain, buf, child, sent, mine, lockVars, ended, full>>

LEMMA InhibitSends ==
    ASSUME TypeInv, NEW shape \in DOMAIN Shapes, DoInhibit(shape)
    PROVE  \/ TxFails
           \/ LET line == [shape |-> shape, of |-> Len(sent) + 1]
              IN  /\ line \in Line /\ line.shape = shape /\ line.of = Len(sent) + 1 /\ Sends(line)
                  /\ main = "idle" /\ main' = IF helper = SYSTEMD THEN "waiting" ELSE "idle"
                  /\ mine' = IF helper = KERNEL THEN Append(mine, Len(sent) + 1) ELSE mine
<1>1. Len(sent) \in Nat
  BY LenProperties DEF TypeInv, TypeOK
<1>2. [shape |-> shape, of |-> Len(sent) + 1] \in Line
  BY <1>1 DEF Line
<1>3. CASE child = "dead"
  BY <1>3 DEF DoInhibit, Tx, TxFails
<1>4. CASE child # "dead"
  BY <1>2, <1>4 DEF DoInhibit, Tx, Sends
<1>. QED
  BY <1>3, <1>4

LEMMA UnInhibitSends ==
    ASSUME TypeInv, NEW k \in DOMAIN mine, DoUnInhibit(k)
    PROVE  \/ TxFails
           \/ /\ Freeing(k) \in Line /\ Freeing(k).of = mine[k] /\ Sends(Freeing(k))
              /\ Freeing(k).shape = IF helper = SYSTEMD THEN "release" ELSE "unlock"
              /\ main \in {"idle", "exiting"} /\ main' = main /\ mine' = RemoveAt(mine, k)
<1>1. Freeing(k) \in Line
  <2>1. mine[k] \in Int
    BY ElementOfSeq, LenProperties DEF TypeInv, TypeOK
  <2>2. {"release", "unlock"} \subseteq DOMAIN Shapes
    BY DEF Shapes
  <2>. QED
    BY <2>1, <2>2 DEF Freeing, Line
<1>2. /\ Freeing(k).of = mine[k]
      /\ Freeing(k).shape = IF helper = SYSTEMD THEN "release" ELSE "unlock"
  BY DEF Freeing
<1>3. CASE child = "dead"
  BY <1>3 DEF DoUnInhibit, Tx, TxFails
<1>4. CASE child # "dead"
  BY <1>1, <1>2, <1>4 DEF DoUnInhibit, Tx, Sends
<1>. QED
  BY <1>3, <1>4

LEMMA SendsFacts ==
    ASSUME TypeInv, NEW line \in Line, Sends(line)
    PROVE  LET n == Len(sent) + 1
               C == CellsOf(n, line.shape)
               w == Len(Shapes[line.shape])
           IN  /\ n \in 1..MaxLines /\ Len(sent) \in Nat
               /\ sent' \in Seq(Line) /\ Len(sent') = n /\ sent'[n] = line
               /\ \A m \in 1..Len(sent) : sent'[m] = sent[m]
               /\ toHelper' \in Seq(Cell) /\ w \in Nat
               /\ Len(toHelper) \in Nat /\ Len(toHelper') = Len(toHelper) + w + 1
               /\ \A i \in 1..Len(toHelper) : toHelper'[i] = toHelper[i]
               /\ \A i \in Len(toHelper) + 1..Len(toHelper) + w : ~IsEnd(toHelper'[i])
               /\ toHelper'[Len(toHelper) + w + 1] = Newline(n)
<1>. DEFINE n == Len(sent) + 1
            C == CellsOf(n, line.shape)
            w == Len(Shapes[line.shape])
            l == Len(toHelper)
<1>1. Len(sent) \in Nat /\ l \in Nat /\ sent \in Seq(Line) /\ toHelper \in Seq(Cell)
  BY LenProperties DEF TypeInv, TypeOK
<1>2. n \in 1..MaxLines /\ line.shape \in DOMAIN Shapes
  BY <1>1, SizesAssumption DEF Sends, Line
<1>3. sent' \in Seq(Line) /\ Len(sent') = n /\ sent'[n] = line
      /\ \A m \in 1..Len(sent) : sent'[m] = sent[m]
  BY <1>1, AppendProperties DEF Sends
<1>4. /\ C \in Seq(Cell) /\ w \in Nat /\ Len(C) = w + 1 /\ DOMAIN C = 1..w + 1
      /\ C[w + 1] = Newline(n)
  BY <1>2, CellsFacts
<1>5. \A k \in 1..w : ~IsEnd(C[k])
  BY <1>2, CellsFacts
<1>6. toHelper' = toHelper \o C
  BY DEF Sends
<1>. HIDE DEF C, w, n
<1>7. /\ toHelper' \in Seq(Cell) /\ Len(toHelper') = l + Len(C)
      /\ \A i \in DOMAIN toHelper : toHelper'[i] = toHelper[i]
      /\ \A i \in DOMAIN C : toHelper'[l + i] = C[i]
      /\ DOMAIN toHelper = 1..l
  <2>1. toHelper \in Seq(Cell) /\ C \in Seq(Cell)
    BY <1>1, <1>4
  <2>2. /\ toHelper \o C \in Seq(Cell) /\ Len(toHelper \o C) = Len(toHelper) + Len(C)
        /\ \A i \in DOMAIN toHelper : (toHelper \o C)[i] = toHelper[i]
        /\ \A i \in DOMAIN C : (toHelper \o C)[Len(toHelper) + i] = C[i]
        /\ DOMAIN toHelper = 1..Len(toHelper)
    BY <2>1, ConcatFacts
  <2>. QED
    BY <1>6, <2>2
<1>. HIDE DEF l
<1>8. \A i \in l + 1..l + w : ~IsEnd(toHelper'[i])
  <2>. TAKE i \in l + 1..l + w
  <2>1. i - l \in 1..w /\ l + (i - l) = i /\ i - l \in 1..w + 1
    BY <1>1, <1>4
  <2>2. toHelper'[l + (i - l)] = C[i - l]
    BY <1>4, <1>7, <2>1
  <2>. QED
    BY <1>5, <2>1, <2>2
<1>9. toHelper'[l + w + 1] = Newline(n)
  <2>1. w + 1 \in DOMAIN C /\ l + (w + 1) = l + w + 1
    BY <1>1, <1>4
  <2>. QED
    BY <1>4, <1>7, <2>1
<1>10. Len(toHelper') = l + w + 1
  BY <1>1, <1>4, <1>7
<1>. QED
  BY <1>1, <1>2, <1>3, <1>4, <1>7, <1>8, <1>9, <1>10 DEF C, w, n, l

\* A read that takes n cells.
Takes(n, junk) ==
    /\ toHelper' = SubSeq(toHelper, n + 1, Len(toHelper))
    /\ buf' = (buf \o SubSeq(toHelper, 1, n)) \o junk
    /\ full' = (full \/ n = BufSize)
    /\ n # BufSize => n = Len(toHelper) /\ junk = <<>>

LEMMA ReadFacts ==
    ASSUME TypeInv, Read
    PROVE  /\ child = "reading" /\ child' = "handling"
           /\ UNCHANGED <<helper, toMain, main, sent, mine, lockVars, ended>>
           /\ \/ HasLine(buf) /\ UNCHANGED <<buf, toHelper, full>>
              \/ /\ ~HasLine(buf)
                 /\ \E n \in 1..Len(toHelper), junk \in {<<>>, <<Junk>>} : Takes(n, junk)
<1>1. Len(toHelper) \in Nat /\ toHelper \in Seq(Cell) /\ buf \in Seq(Cell)
  BY LenProperties DEF TypeInv, TypeOK
<1>2. CASE HasLine(buf)
  BY <1>2 DEF Read, NeedsRead
<1>3. CASE ~HasLine(buf)
  <2>. DEFINE n == IF Len(toHelper) < BufSize THEN Len(toHelper) ELSE BufSize
              d == SubSeq(toHelper, 1, n)
  <2>1. PICK junk \in {<<>>} \cup (IF n = BufSize THEN {<<Junk>>} ELSE {}) : buf' = buf \o d \o junk
    BY <1>3 DEF Read, NeedsRead
  <2>2. /\ toHelper # <<>> /\ full' = (full \/ n = BufSize)
        /\ toHelper' = SubSeq(toHelper, n + 1, Len(toHelper))
    BY <1>3 DEF Read, NeedsRead
  <2>3. Len(toHelper) # 0
    BY <1>1, <2>2, EmptySeq
  <2>4. n \in 1..Len(toHelper) /\ (n # BufSize => n = Len(toHelper))
    BY <1>1, <2>3, SizesAssumption
  <2>5. junk \in {<<>>, <<Junk>>} /\ (n # BufSize => junk = <<>>)
    BY <2>1
  <2>. HIDE DEF n
  <2>6. Takes(n, junk)
    BY <2>1, <2>2, <2>4, <2>5 DEF Takes
  <2>. QED
    BY <1>3, <2>4, <2>5, <2>6 DEF Read
<1>. QED
  BY <1>2, <1>3 DEF Read

\* What is left in the pipe, and what the buffer has then.
LEMMA TakesFacts ==
    ASSUME TypeInv, NEW n \in 1..Len(toHelper), NEW junk \in {<<>>, <<Junk>>}, Takes(n, junk)
    PROVE  /\ toHelper' \in Seq(Cell) /\ Len(toHelper) \in Nat /\ Len(buf) \in Nat
           /\ Len(toHelper') = Len(toHelper) - n
           /\ \A i \in 1..Len(toHelper) - n : toHelper'[i] = toHelper[n + i]
           /\ buf' \in Seq(Cell) /\ Len(buf') \in Nat /\ Len(buf') >= Len(buf) + n
           /\ junk = <<>> => Len(buf') = Len(buf) + n
           /\ \A i \in 1..Len(buf) : buf'[i] = buf[i]
           /\ \A i \in 1..n : buf'[Len(buf) + i] = toHelper[i]
           /\ \A i \in Len(buf) + n + 1..Len(buf') : ~IsEnd(buf'[i])
<1>. DEFINE l == Len(toHelper)
            b == Len(buf)
            d == SubSeq(toHelper, 1, n)
            c == buf \o d
<1>1. /\ l \in Nat /\ b \in Nat /\ toHelper \in Seq(Cell) /\ buf \in Seq(Cell)
      /\ n \in Nat /\ n >= 1 /\ n <= l
  BY LenProperties DEF TypeInv, TypeOK
<1>2. /\ toHelper' \in Seq(Cell) /\ Len(toHelper') = l - n
      /\ \A i \in 1..l - n : toHelper'[i] = toHelper[n + i]
  <2>. DEFINE x == n + 1
  <2>1. x \in 1..l + 1 /\ l \in x - 1..l /\ x \in Int
    BY <1>1
  <2>. HIDE DEF x
  <2>2. /\ SubSeq(toHelper, x, l) \in Seq(Cell) /\ Len(SubSeq(toHelper, x, l)) = l - x + 1
        /\ \A i \in 1..l - x + 1 : SubSeq(toHelper, x, l)[i] = toHelper[x + i - 1]
    BY <1>1, <2>1, SubSeqFacts
  <2>3. l - x + 1 = l - n /\ \A i \in 1..l - n : x + i - 1 = n + i
    BY <1>1 DEF x
  <2>4. toHelper' = SubSeq(toHelper, x, l)
    BY DEF x, Takes
  <2>. QED
    BY <2>2, <2>3, <2>4
<1>3. d \in Seq(Cell) /\ Len(d) = n /\ \A i \in 1..n : d[i] = toHelper[i]
  <2>1. 1 \in 1..l + 1 /\ n \in 1 - 1..l
    BY <1>1
  <2>2. /\ d \in Seq(Cell) /\ Len(d) = n - 1 + 1
        /\ \A i \in 1..n - 1 + 1 : d[i] = toHelper[1 + i - 1]
    BY <1>1, <2>1, SubSeqFacts
  <2>3. n - 1 + 1 = n /\ \A i \in 1..n : 1 + i - 1 = i
    BY <1>1
  <2>. QED
    BY <2>2, <2>3
<1>4. buf' = c \o junk
  BY DEF Takes
<1>. HIDE DEF d
<1>5. /\ c \in Seq(Cell) /\ Len(c) = b + n
      /\ \A i \in 1..b : c[i] = buf[i]
      /\ \A j \in 1..n : c[b + j] = toHelper[j]
  <2>1. buf \in Seq(Cell) /\ d \in Seq(Cell)
    BY <1>1, <1>3
  <2>2. /\ c \in Seq(Cell) /\ Len(c) = Len(buf) + Len(d)
        /\ DOMAIN buf = 1..Len(buf) /\ DOMAIN d = 1..Len(d)
        /\ \A i \in DOMAIN buf : c[i] = buf[i]
        /\ \A i \in DOMAIN d : c[Len(buf) + i] = d[i]
    BY <2>1, ConcatFacts
  <2>. QED
    BY <1>3, <2>2
<1>6. junk \in Seq(Cell) /\ Len(junk) \in Nat /\ DOMAIN junk = 1..Len(junk)
      /\ \A i \in 1..Len(junk) : ~IsEnd(junk[i])
  <2>1. Junk \in Cell /\ ~IsEnd(Junk)
    BY DEF Cell, Junk, IsEnd
  <2>2. CASE junk = <<>>
    BY <2>2
  <2>3. CASE junk = <<Junk>>
    <3>1. junk \in Seq(Cell) /\ Len(junk) = 1 /\ junk[1] = Junk /\ DOMAIN junk = 1..1
      BY <2>1, <2>3
    <3>2. \A i \in 1..1 : i = 1
      OBVIOUS
    <3>. QED
      BY <2>1, <3>1, <3>2
  <2>. QED
    BY <2>2, <2>3
<1>. HIDE DEF c
<1>7. /\ c \o junk \in Seq(Cell) /\ Len(c \o junk) = Len(c) + Len(junk)
      /\ \A i \in 1..Len(c) : (c \o junk)[i] = c[i]
      /\ \A i \in 1..Len(junk) : (c \o junk)[Len(c) + i] = junk[i]
  <2>1. c \in Seq(Cell) /\ junk \in Seq(Cell)
    BY <1>5, <1>6
  <2>. QED
    BY <2>1, ConcatFacts
<1>. HIDE DEF l, b
<1>8. \A i \in 1..b : buf'[i] = buf[i]
  <2>1. \A i \in 1..b : i \in 1..b + n
    BY <1>1
  <2>. QED
    BY <1>4, <1>5, <1>7, <2>1
<1>9. \A i \in 1..n : buf'[b + i] = toHelper[i]
  <2>1. \A i \in 1..n : b + i \in 1..b + n
    BY <1>1
  <2>. QED
    BY <1>4, <1>5, <1>7, <2>1
<1>10. Len(buf') = (b + n) + Len(junk)
  BY <1>4, <1>5, <1>7
<1>11. \A i \in b + n + 1..Len(buf') : ~IsEnd(buf'[i])
  <2>. TAKE i \in b + n + 1..Len(buf')
  <2>1. i - (b + n) \in 1..Len(junk) /\ (b + n) + (i - (b + n)) = i
    BY <1>1, <1>6, <1>10
  <2>2. (c \o junk)[Len(c) + (i - (b + n))] = junk[i - (b + n)]
    BY <1>7, <2>1
  <2>. QED
    BY <1>4, <1>5, <1>6, <2>1, <2>2
<1>12. /\ buf' \in Seq(Cell) /\ Len(buf') \in Nat /\ Len(buf') >= b + n
       /\ junk = <<>> => Len(buf') = b + n
  <2>1. junk = <<>> => Len(junk) = 0
    OBVIOUS
  <2>2. junk = <<>> => Len(buf') = b + n
    BY <1>1, <1>10, <2>1
  <2>3. Len(buf') \in Nat /\ Len(buf') >= b + n
    BY <1>1, <1>6, <1>10
  <2>. QED
    BY <1>4, <1>7, <2>2, <2>3
<1>. QED
  BY <1>1, <1>2, <1>8, <1>9, <1>11, <1>12 DEF l, b

\* The first line is taken out of buf, and the last of its cells is worked off.
LEMMA HandleMsgFacts ==
    ASSUME TypeInv, HandleMsg, HasLine(buf)
    PROVE  /\ Len(buf) \in Nat /\ Len(ended) \in Nat
           /\ \E k \in 1..Len(buf) :
                /\ IsEnd(buf[k]) /\ buf[k] \in Cell /\ \A j \in 1..k - 1 : ~IsEnd(buf[j])
                /\ buf[k].line \in 1..MaxLines
                /\ buf' \in Seq(Cell) /\ Len(buf') = Len(buf) - k
                /\ \A i \in 1..Len(buf) - k : buf'[i] = buf[k + i]
                /\ ended' = Append(ended, buf[k].line)
                /\ ended' \in Seq(1..MaxLines) /\ Len(ended') = Len(ended) + 1
                /\ ended'[Len(ended) + 1] = buf[k].line
                /\ \A i \in 1..Len(ended) : ended'[i] = ended[i]
<1>. DEFINE l == Len(buf)
<1>1. l \in Nat /\ buf \in Seq(Cell) /\ DOMAIN buf = 1..l /\ Len(ended) \in Nat /\ ended \in Seq(1..MaxLines)
  BY LenProperties DEF TypeInv, TypeOK
<1>2. PICK k \in DOMAIN buf :
            /\ IsEnd(buf[k]) /\ \A j \in 1..k - 1 : ~IsEnd(buf[j])
            /\ FirstLine(buf) = SubSeq(buf, 1, k - 1)
            /\ Len(FirstLine(buf)) = k - 1
            /\ Rest(buf) = SubSeq(buf, k + 1, Len(buf))
  BY <1>1, FirstEnd
<1>3. buf[k] \in Cell
  BY <1>1, ElementOfSeq
<1>4. buf[k].line \in 1..MaxLines
  BY <1>2, <1>3 DEF Cell, Junk, IsEnd
<1>5. k \in Nat /\ k >= 1 /\ k <= l /\ k - 1 + 1 = k
  BY <1>1
<1>6. buf' = SubSeq(buf, k + 1, Len(buf)) /\ ended' = Append(ended, buf[k].line)
  <2>1. buf' = Rest(buf) /\ ended' = Append(ended, buf[Len(FirstLine(buf)) + 1].line)
    BY DEF HandleMsg
  <2>. QED
    BY <1>2, <1>5, <2>1
<1>7. /\ buf' \in Seq(Cell) /\ Len(buf') = l - k
      /\ \A i \in 1..l - k : buf'[i] = buf[k + i]
  <2>. DEFINE x == k + 1
  <2>1. x \in 1..l + 1 /\ l \in x - 1..l /\ x \in Int
    BY <1>1, <1>5
  <2>. HIDE DEF x
  <2>2. /\ SubSeq(buf, x, l) \in Seq(Cell) /\ Len(SubSeq(buf, x, l)) = l - x + 1
        /\ \A i \in 1..l - x + 1 : SubSeq(buf, x, l)[i] = buf[x + i - 1]
    <3>1. buf \in Seq(Cell) /\ x \in 1..Len(buf) + 1 /\ Len(buf) \in x - 1..Len(buf)
      BY <1>1, <2>1
    <3>. QED
      BY <3>1, SubSeqFacts
  <2>3. l - x + 1 = l - k /\ \A i \in 1..l - k : x + i - 1 = k + i
    BY <1>1, <1>5 DEF x
  <2>4. buf' = SubSeq(buf, x, l)
    BY <1>6 DEF x
  <2>. QED
    BY <2>2, <2>3, <2>4
<1>8. /\ ended' \in Seq(1..MaxLines) /\ Len(ended') = Len(ended) + 1
      /\ ended'[Len(ended) + 1] = buf[k].line
      /\ \A i \in 1..Len(ended) : ended'[i] = ended[i]
  BY <1>1, <1>4, <1>6, AppendProperties
<1>. QED
  BY <1>1, <1>2, <1>3, <1>4, <1>6, <1>7, <1>8

----------------------------------------------------------------------------
(* Types                                                                   *)

LEMMA TypeInit == Init => TypeInv
<1>. SUFFICES ASSUME Init PROVE TypeInv
  OBVIOUS
<1>1. /\ sent = <<>> /\ toHelper = <<>> /\ toMain = <<>> /\ buf = <<>> /\ mine = <<>> /\ ended = <<>>
      /\ held = {} /\ opened = 0 /\ full = FALSE /\ child = "reading" /\ main = "idle"
      /\ helper \in Helpers
  BY DEF Init
<1>2. \A S : <<>> \in Seq(S)
  OBVIOUS
<1>3. Bounded
  BY <1>1, SizesAssumption DEF Bounded
<1>. QED
  BY <1>1, <1>2, <1>3 DEF TypeInv, TypeOK

\* What handleMsg does with a line, or a part of one, leaves the types alone.
LEMMA MessageTypes ==
    ASSUME TypeInv, NEW msg,
           HandleRequest(msg) \/ HandleRelease(msg) \/ HandleOther(msg) \/ HandleName(msg)
    PROVE  /\ toMain' \in Seq({Denied} \cup 1..opened') /\ held' \subseteq 1..opened'
           /\ opened' \in Nat /\ child' \in {"reading", "dead"}
<1>1. /\ toMain \in Seq({Denied} \cup 1..opened) /\ held \subseteq 1..opened /\ opened \in Nat
      /\ child \in {"reading", "handling", "dead"}
  BY DEF TypeInv, TypeOK
<1>2. CASE HandleRequest(msg)
  <2>1. CASE Granted /\ child' = "reading"
    <3>1. opened' = opened + 1 /\ held' = held \cup {opened'} /\ toMain' = Append(toMain, opened')
      BY <2>1 DEF Granted
    <3>2. {Denied} \cup 1..opened \subseteq {Denied} \cup 1..opened' /\ opened' \in {Denied} \cup 1..opened'
      BY <1>1, <3>1
    <3>3. toMain \in Seq({Denied} \cup 1..opened')
      BY <1>1, <3>2, LenProperties, ElementOfSeq, IsASeq
    <3>4. toMain' \in Seq({Denied} \cup 1..opened')
      BY <3>1, <3>2, <3>3, AppendProperties
    <3>. QED
      BY <1>1, <2>1, <3>1, <3>4
  <2>2. CASE Refused /\ child' = "reading"
    BY <1>1, <2>2, AppendProperties DEF Refused
  <2>3. CASE Dies /\ UNCHANGED <<toMain, opened>>
    BY <1>1, <2>3 DEF Dies
  <2>. QED
    BY <1>2, <2>1, <2>2, <2>3 DEF HandleRequest
<1>3. CASE HandleRelease(msg)
  BY <1>1, <1>3 DEF HandleRelease
<1>4. CASE HandleOther(msg)
  BY <1>1, <1>4 DEF HandleOther, lockVars
<1>5. CASE HandleName(msg)
  BY <1>1, <1>5 DEF HandleName
<1>. QED
  BY <1>2, <1>3, <1>4, <1>5

LEMMA TypeSends ==
    ASSUME TypeInv, NEW line \in Line, Sends(line), mine' \in Seq(Int),
           main' \in {"idle", "waiting", "exiting", "exited", "terminated"}
    PROVE  TypeInv'
<1>1. sent' \in Seq(Line) /\ Len(sent') \in 1..MaxLines /\ toHelper' \in Seq(Cell)
  BY SendsFacts
<1>. QED
  BY <1>1, SizesAssumption DEF TypeInv, TypeOK, Bounded, Sends, lockVars

LEMMA TypeNext == TypeInv /\ [Next]_vars => TypeInv'
<1>. SUFFICES ASSUME TypeInv, [Next]_vars PROVE TypeInv'
  OBVIOUS
<1>1. ASSUME NEW shape \in DOMAIN Shapes, DoInhibit(shape)  PROVE TypeInv'
  <2>1. CASE TxFails
    BY <2>1 DEF TxFails, TypeInv, TypeOK, Bounded, lockVars
  <2>2. CASE ~TxFails
    <3>. DEFINE line == [shape |-> shape, of |-> Len(sent) + 1]
    <3>1. /\ line \in Line /\ Sends(line) /\ main' \in {"idle", "waiting"}
          /\ mine' \in {mine, Append(mine, Len(sent) + 1)}
      BY <1>1, <2>2, InhibitSends
    <3>2. mine \in Seq(Int) /\ Len(sent) + 1 \in Int
      BY LenProperties DEF TypeInv, TypeOK
    <3>3. mine' \in Seq(Int)
      <4>1. Append(mine, Len(sent) + 1) \in Seq(Int)
        BY <3>2, AppendProperties
      <4>. QED
        BY <3>1, <3>2, <4>1
    <3>. QED
      BY <3>1, <3>3, TypeSends
  <2>. QED
    BY <2>1, <2>2
<1>2. CASE Answer
  <2>1. mine \in Seq(Int) /\ toMain \in Seq({Denied} \cup 1..opened) /\ {Denied} \cup 1..opened \subseteq Int
    BY DEF TypeInv, TypeOK, Denied
  <2>2. toMain # <<>> => Head(toMain) \in Int
    BY <2>1, HeadTailProperties
  <2>3. mine' \in Seq(Int) /\ toMain' = <<>>
    BY <1>2, <2>1, <2>2, AppendProperties DEF Answer, NoFd
  <2>. QED
    BY <1>2, <2>3 DEF Answer, TypeInv, TypeOK, Bounded, lockVars
<1>3. ASSUME NEW k \in DOMAIN mine, DoUnInhibit(k)  PROVE TypeInv'
  <2>1. CASE TxFails
    BY <2>1 DEF TxFails, TypeInv, TypeOK, Bounded, lockVars
  <2>2. CASE ~TxFails
    <3>1. /\ Freeing(k) \in Line /\ Sends(Freeing(k)) /\ main' \in {"idle", "exiting"}
          /\ mine' = RemoveAt(mine, k)
      BY <1>3, <2>2, UnInhibitSends
    <3>2. mine \in Seq(Int)
      BY DEF TypeInv, TypeOK
    <3>3. mine' \in Seq(Int)
      BY <3>1, <3>2, RemoveAtFacts
    <3>. QED
      BY <3>1, <3>3, TypeSends
  <2>. QED
    BY <2>1, <2>2
<1>4. CASE Sigint
  BY <1>4 DEF Sigint, TypeInv, TypeOK, Bounded, lockVars
<1>5. CASE Exit
  BY <1>5 DEF Exit, TypeInv, TypeOK, Bounded, lockVars
<1>6. CASE Read
  <2>1. /\ child' = "handling" /\ UNCHANGED <<helper, toMain, main, sent, mine, lockVars, ended>>
        /\ full' \in BOOLEAN
    BY <1>6, ReadFacts DEF TypeInv, TypeOK, Takes
  <2>2. toHelper' \in Seq(Cell) /\ buf' \in Seq(Cell)
    <3>1. CASE UNCHANGED <<buf, toHelper>>
      BY <3>1 DEF TypeInv, TypeOK
    <3>2. CASE ~UNCHANGED <<buf, toHelper>>
      <4>1. PICK n \in 1..Len(toHelper), junk \in {<<>>, <<Junk>>} : Takes(n, junk)
        BY <1>6, <3>2, ReadFacts
      <4>. QED
        BY <4>1, TakesFacts
    <3>. QED
      BY <3>1, <3>2
  <2>. QED
    BY <2>1, <2>2 DEF TypeInv, TypeOK, Bounded, lockVars
<1>7. CASE HandleMsg
  <2>1. /\ toMain' \in Seq({Denied} \cup 1..opened') /\ held' \subseteq 1..opened'
        /\ opened' \in Nat /\ child' \in {"reading", "dead"}
    BY <1>7, MessageTypes DEF HandleMsg
  <2>2. buf' \in Seq(Cell) /\ ended' \in Seq(1..MaxLines)
    <3>1. CASE HasLine(buf)
      BY <1>7, <3>1, HandleMsgFacts
    <3>2. CASE ~HasLine(buf)
      BY <1>7, <3>2 DEF HandleMsg, TypeInv, TypeOK
    <3>. QED
      BY <3>1, <3>2
  <2>3. UNCHANGED <<helper, toHelper, main, sent, mine, full>>
    BY <1>7 DEF HandleMsg
  <2>. QED
    BY <2>1, <2>2, <2>3 DEF TypeInv, TypeOK, Bounded
<1>8. CASE ChildExits
  BY <1>8 DEF ChildExits, Dies, TypeInv, TypeOK, Bounded
<1>9. CASE UNCHANGED vars
  BY <1>9 DEF vars, TypeInv, TypeOK, Bounded
<1>. QED
  BY <1>1, <1>2, <1>3, <1>4, <1>5, <1>6, <1>7, <1>8, <1>9 DEF Next, Daemon, Helper

\* Every variable has its type, and no more lines are sent than may be, for both
\* helpers of src/Fork/Fork.cpp and any size of a read.
THEOREM TypeCorrect == Spec => []TypeOK
<1>1. TypeInv => TypeOK
  BY DEF TypeInv
<1>. QED
  BY TypeInit, TypeNext, <1>1, PTL DEF Spec

----------------------------------------------------------------------------
(* The ends of the lines                                                   *)

LEMMA StreamInit == Init => StreamInv
<1>. SUFFICES ASSUME Init PROVE StreamInv
  OBVIOUS
<1>1. /\ toHelper = <<>> /\ buf = <<>> /\ ended = <<>> /\ sent = <<>>
      /\ DOMAIN <<>> = 1..0 /\ Len(<<>>) = 0
  BY DEF Init
<1>. QED
  BY <1>1 DEF StreamInv, EndsOf

LEMMA StreamSends ==
    ASSUME TypeInv, StreamInv, NEW line \in Line, Sends(line)
    PROVE  StreamInv'
<1>. DEFINE n == Len(sent) + 1
            l == Len(toHelper)
            w == Len(Shapes[line.shape])
            e == l + w + 1
<1>1. /\ n \in 1..MaxLines /\ Len(sent) \in Nat /\ Len(sent') = n
      /\ l \in Nat /\ w \in Nat /\ Len(toHelper') = e /\ toHelper' \in Seq(Cell)
      /\ \A i \in 1..l : toHelper'[i] = toHelper[i]
      /\ \A i \in l + 1..l + w : ~IsEnd(toHelper'[i])
      /\ toHelper'[e] = Newline(n)
  BY SendsFacts
<1>2. DOMAIN toHelper = 1..l /\ DOMAIN toHelper' = 1..e /\ Len(ended) \in Nat
  <2>1. toHelper \in Seq(Cell) /\ toHelper' \in Seq(Cell) /\ ended \in Seq(1..MaxLines)
    BY <1>1 DEF TypeInv, TypeOK
  <2>. QED
    BY <1>1, <2>1, LenProperties
<1>3. IsEnd(toHelper'[e]) /\ toHelper'[e].line = n
  BY <1>1 DEF IsEnd, Newline
<1>4. buf' = buf /\ ended' = ended
  BY DEF Sends
<1>. HIDE DEF n, w
<1>5. \A i \in 1..e : IsEnd(toHelper'[i]) => i = e \/ (i \in 1..l /\ toHelper'[i] = toHelper[i])
  <2>1. \A i \in 1..e : i = e \/ i \in 1..l \/ i \in l + 1..l + w
    BY <1>1
  <2>. QED
    BY <1>1, <2>1
<1>6. Len(ended) <= Len(sent) /\ n = Len(sent) + 1
  BY DEF StreamInv, n
<1>7. \A i \in 1..l : IsEnd(toHelper[i]) => toHelper[i].line \in Len(ended) + 1..Len(sent)
  BY <1>2 DEF StreamInv, EndsOf
<1>8. EndsOf(toHelper)'
  <2>1. ASSUME NEW i \in 1..e, IsEnd(toHelper'[i])
        PROVE  toHelper'[i].line \in Len(ended) + 1..n
    <3>1. CASE i = e
      BY <1>1, <1>2, <1>3, <1>6, <3>1
    <3>2. CASE i \in 1..l /\ toHelper'[i] = toHelper[i]
      BY <1>1, <1>2, <1>6, <1>7, <2>1, <3>2
    <3>. QED
      BY <1>5, <2>1, <3>1, <3>2
  <2>2. ASSUME NEW i \in 1..e, NEW j \in 1..e, IsEnd(toHelper'[i]), IsEnd(toHelper'[j]), i < j
        PROVE  toHelper'[i].line < toHelper'[j].line
    <3>1. i \in 1..l /\ toHelper'[i] = toHelper[i]
      BY <1>1, <1>5, <2>2
    <3>2. CASE j = e
      BY <1>1, <1>2, <1>3, <1>6, <1>7, <2>2, <3>1, <3>2
    <3>3. CASE j \in 1..l /\ toHelper'[j] = toHelper[j]
      BY <1>2, <2>2, <3>1, <3>3 DEF StreamInv, EndsOf
    <3>. QED
      BY <1>5, <2>2, <3>2, <3>3
  <2>. QED
    BY <1>1, <1>2, <1>4, <2>1, <2>2 DEF EndsOf
<1>9. EndsOf(buf)'
  <2>1. EndsOf(buf) /\ Len(ended) + 1..Len(sent) \subseteq Len(ended) + 1..n
    BY <1>1, <1>2, <1>6 DEF StreamInv
  <2>. QED
    BY <1>1, <1>4, <2>1 DEF EndsOf
<1>10. ASSUME NEW i \in DOMAIN buf, NEW j \in 1..e, IsEnd(buf[i]), IsEnd(toHelper'[j])
       PROVE  buf[i].line < toHelper'[j].line
  <2>1. CASE j = e
    <3>1. buf[i].line \in Len(ended) + 1..Len(sent)
      BY <1>10 DEF StreamInv, EndsOf
    <3>. QED
      BY <1>1, <1>2, <1>3, <1>6, <2>1, <3>1
  <2>2. CASE j \in 1..l /\ toHelper'[j] = toHelper[j]
    BY <1>2, <1>10, <2>2 DEF StreamInv
  <2>. QED
    BY <1>5, <1>10, <2>1, <2>2
<1>11. ASSUME NEW m \in Len(ended) + 1..n
       PROVE  \/ \E i \in DOMAIN buf : IsEnd(buf[i]) /\ buf[i].line = m
              \/ \E i \in 1..e : IsEnd(toHelper'[i]) /\ toHelper'[i].line = m
  <2>1. CASE m = n
    <3>1. e \in 1..e
      BY <1>1
    <3>. QED
      BY <1>3, <2>1, <3>1
  <2>2. CASE m # n
    <3>1. m \in Len(ended) + 1..Len(sent)
      BY <1>1, <1>2, <1>6, <2>2
    <3>2. \/ \E i \in DOMAIN buf : IsEnd(buf[i]) /\ buf[i].line = m
          \/ \E i \in DOMAIN toHelper : IsEnd(toHelper[i]) /\ toHelper[i].line = m
      BY <3>1 DEF StreamInv
    <3>3. \A i \in 1..l : i \in 1..e
      BY <1>1
    <3>. QED
      BY <1>1, <1>2, <3>2, <3>3
  <2>. QED
    BY <2>1, <2>2
<1>12. (Len(ended) <= Len(sent))' /\ (\A m \in DOMAIN ended : ended[m] = m)'
  BY <1>1, <1>2, <1>4, <1>6 DEF StreamInv
<1>. HIDE DEF e, l
<1>. QED
  BY <1>1, <1>2, <1>4, <1>8, <1>9, <1>10, <1>11, <1>12 DEF StreamInv

LEMMA StreamRead ==
    ASSUME TypeInv, StreamInv, Read
    PROVE  StreamInv'
<1>1. sent' = sent /\ ended' = ended
  BY ReadFacts
<1>2. CASE UNCHANGED <<buf, toHelper>>
  BY <1>1, <1>2 DEF StreamInv, EndsOf
<1>3. CASE ~UNCHANGED <<buf, toHelper>>
  <2>. DEFINE l == Len(toHelper)
              b == Len(buf)
  <2>1. PICK n \in 1..l, junk \in {<<>>, <<Junk>>} : ~HasLine(buf) /\ Takes(n, junk)
    BY <1>3, ReadFacts
  <2>2. /\ l \in Nat /\ b \in Nat /\ n \in Nat /\ Len(toHelper') = l - n /\ Len(buf') \in Nat
        /\ Len(buf') >= b + n
        /\ \A i \in 1..l - n : toHelper'[i] = toHelper[n + i]
        /\ \A i \in 1..b : buf'[i] = buf[i]
        /\ \A i \in 1..n : buf'[b + i] = toHelper[i]
        /\ \A i \in b + n + 1..Len(buf') : ~IsEnd(buf'[i])
    <3>1. n \in 1..Len(toHelper) /\ junk \in {<<>>, <<Junk>>} /\ Takes(n, junk)
      BY <2>1
    <3>2. n \in Nat
      BY <2>1
    <3>. QED
      BY <3>1, <3>2, TakesFacts
  <2>3. DOMAIN toHelper = 1..l /\ DOMAIN toHelper' = 1..l - n /\ DOMAIN buf = 1..b /\ DOMAIN buf' = 1..Len(buf')
    <3>1. toHelper \in Seq(Cell) /\ toHelper' \in Seq(Cell) /\ buf \in Seq(Cell) /\ buf' \in Seq(Cell)
      BY <2>1, TakesFacts DEF TypeInv, TypeOK
    <3>. QED
      BY <2>2, <3>1, LenProperties
  <2>4. \A i \in 1..b : ~IsEnd(buf[i])
    BY <2>1, <2>3 DEF HasLine, IsEnd
  <2>5. ASSUME NEW i \in DOMAIN buf', IsEnd(buf'[i])
        PROVE  i - b \in 1..n /\ buf'[i] = toHelper[i - b]
    <3>1. i \in 1..b \/ i - b \in 1..n \/ i \in b + n + 1..Len(buf')
      BY <2>2, <2>3
    <3>2. b + (i - b) = i
      BY <2>2, <2>3
    <3>. QED
      BY <2>2, <2>4, <2>5, <3>1, <3>2
  <2>6. ASSUME NEW i \in DOMAIN toHelper'
        PROVE  n + i \in 1..l /\ toHelper'[i] = toHelper[n + i]
    BY <2>2, <2>3
  <2>7. \A i \in 1..n : i \in 1..l
    BY <2>2
  <2>8. /\ \A i \in 1..l : IsEnd(toHelper[i]) => toHelper[i].line \in Len(ended) + 1..Len(sent)
        /\ \A i, j \in 1..l : IsEnd(toHelper[i]) /\ IsEnd(toHelper[j]) /\ i < j
                => toHelper[i].line < toHelper[j].line
    BY <2>3 DEF StreamInv, EndsOf
  <2>9. EndsOf(buf)'
    <3>1. ASSUME NEW i \in DOMAIN buf', IsEnd(buf'[i])
          PROVE  buf'[i].line \in Len(ended) + 1..Len(sent)
      BY <2>5, <2>7, <2>8, <3>1
    <3>2. ASSUME NEW i \in DOMAIN buf', NEW j \in DOMAIN buf', IsEnd(buf'[i]), IsEnd(buf'[j]), i < j
          PROVE  buf'[i].line < buf'[j].line
      <4>1. i - b < j - b
        BY <2>2, <2>3, <3>2
      <4>. QED
        BY <2>5, <2>7, <2>8, <3>2, <4>1
    <3>. QED
      BY <1>1, <3>1, <3>2 DEF EndsOf
  <2>10. EndsOf(toHelper)'
    <3>1. ASSUME NEW i \in DOMAIN toHelper', NEW j \in DOMAIN toHelper', i < j
          PROVE  n + i < n + j
      BY <2>2, <2>3, <3>1
    <3>. QED
      BY <1>1, <2>6, <2>8, <3>1 DEF EndsOf
  <2>11. ASSUME NEW i \in DOMAIN buf', NEW j \in DOMAIN toHelper', IsEnd(buf'[i]), IsEnd(toHelper'[j])
         PROVE  buf'[i].line < toHelper'[j].line
    <3>1. i - b < n + j
      BY <2>2, <2>3, <2>5, <2>11
    <3>. QED
      BY <2>5, <2>6, <2>7, <2>8, <2>11, <3>1
  <2>12. ASSUME NEW m \in Len(ended) + 1..Len(sent)
         PROVE  \/ \E i \in DOMAIN buf' : IsEnd(buf'[i]) /\ buf'[i].line = m
                \/ \E i \in DOMAIN toHelper' : IsEnd(toHelper'[i]) /\ toHelper'[i].line = m
    <3>1. PICK i \in 1..l : IsEnd(toHelper[i]) /\ toHelper[i].line = m
      BY <2>3, <2>4 DEF StreamInv
    <3>2. CASE i <= n
      <4>1. b + i \in DOMAIN buf' /\ i \in 1..n
        BY <2>2, <2>3, <3>2
      <4>. QED
        BY <2>2, <3>1, <4>1
    <3>3. CASE i > n
      <4>1. i - n \in 1..l - n /\ n + (i - n) = i
        BY <2>2, <3>3
      <4>2. i - n \in DOMAIN toHelper' /\ toHelper'[i - n] = toHelper[i]
        BY <2>2, <2>3, <4>1
      <4>. QED
        BY <3>1, <4>2
    <3>. QED
      BY <2>2, <3>2, <3>3
  <2>. QED
    BY <1>1, <2>9, <2>10, <2>11, <2>12 DEF StreamInv
<1>. QED
  BY <1>2, <1>3

\* The line whose end is taken out is the first that was not worked off.
LEMMA NextLine ==
    ASSUME TypeInv, StreamInv, NEW k \in 1..Len(buf), IsEnd(buf[k]),
           \A j \in 1..k - 1 : ~IsEnd(buf[j])
    PROVE  buf[k].line = Len(ended) + 1 /\ Len(ended) + 1 \in 1..Len(sent)
<1>1. /\ Len(buf) \in Nat /\ DOMAIN buf = 1..Len(buf) /\ Len(ended) \in Nat /\ Len(sent) \in Nat
  BY LenProperties DEF TypeInv, TypeOK
<1>2. buf[k].line \in Len(ended) + 1..Len(sent)
  BY <1>1 DEF StreamInv, EndsOf
<1>3. Len(ended) + 1 \in Len(ended) + 1..Len(sent)
  BY <1>1, <1>2
<1>4. CASE \E i \in DOMAIN buf : IsEnd(buf[i]) /\ buf[i].line = Len(ended) + 1
  <2>1. PICK i \in DOMAIN buf : IsEnd(buf[i]) /\ buf[i].line = Len(ended) + 1
    BY <1>4
  <2>2. ~(k < i)
    <3>1. k < i => buf[k].line < buf[i].line
      BY <1>1, <2>1 DEF StreamInv, EndsOf
    <3>. QED
      BY <1>1, <1>2, <2>1, <3>1
  <2>3. ~(i < k)
    <3>1. i < k => i \in 1..k - 1
      BY <1>1
    <3>. QED
      BY <2>1, <3>1
  <2>4. i = k
    BY <1>1, <2>2, <2>3
  <2>. QED
    BY <1>1, <1>3, <2>1, <2>4
<1>5. CASE \E j \in DOMAIN toHelper : IsEnd(toHelper[j]) /\ toHelper[j].line = Len(ended) + 1
  <2>1. PICK j \in DOMAIN toHelper : IsEnd(toHelper[j]) /\ toHelper[j].line = Len(ended) + 1
    BY <1>5
  <2>2. buf[k].line < Len(ended) + 1
    BY <1>1, <2>1 DEF StreamInv
  <2>. QED
    BY <1>1, <1>2, <2>2
<1>. QED
  BY <1>3, <1>4, <1>5 DEF StreamInv

LEMMA StreamHandle ==
    ASSUME TypeInv, StreamInv, HandleMsg
    PROVE  StreamInv'
<1>1. sent' = sent /\ toHelper' = toHelper
  BY DEF HandleMsg
<1>2. CASE ~HasLine(buf)
  BY <1>1, <1>2 DEF HandleMsg, StreamInv, EndsOf
<1>3. CASE HasLine(buf)
  <2>. DEFINE b == Len(buf)
              n == Len(ended)
  <2>1. PICK k \in 1..b :
            /\ b \in Nat /\ n \in Nat
            /\ IsEnd(buf[k]) /\ \A j \in 1..k - 1 : ~IsEnd(buf[j])
            /\ buf' \in Seq(Cell) /\ Len(buf') = b - k
            /\ \A i \in 1..b - k : buf'[i] = buf[k + i]
            /\ ended' \in Seq(1..MaxLines) /\ Len(ended') = n + 1
            /\ ended'[n + 1] = buf[k].line
            /\ \A i \in 1..n : ended'[i] = ended[i]
    BY <1>3, HandleMsgFacts
  <2>2. buf[k].line = n + 1 /\ n + 1 \in 1..Len(sent) /\ Len(sent) \in Nat
    <3>1. Len(sent) \in Nat
      BY LenProperties DEF TypeInv, TypeOK
    <3>. QED
      BY <2>1, <3>1, NextLine
  <2>3. DOMAIN buf = 1..b /\ DOMAIN buf' = 1..b - k /\ DOMAIN ended = 1..n /\ DOMAIN ended' = 1..n + 1
    <3>1. buf \in Seq(Cell) /\ ended \in Seq(1..MaxLines)
      BY DEF TypeInv, TypeOK
    <3>. QED
      BY <2>1, <3>1, LenProperties
  <2>4. /\ \A i \in 1..b : IsEnd(buf[i]) => buf[i].line \in n + 1..Len(sent)
        /\ \A i, j \in 1..b : IsEnd(buf[i]) /\ IsEnd(buf[j]) /\ i < j => buf[i].line < buf[j].line
    BY <2>3 DEF StreamInv, EndsOf
  <2>5. \A i \in 1..b - k : k + i \in 1..b /\ k < k + i
    BY <2>1
  <2>6. EndsOf(buf)'
    <3>1. ASSUME NEW i \in 1..b - k, IsEnd(buf'[i])
          PROVE  buf'[i].line \in n + 2..Len(sent)
      <4>1. k + i \in 1..b /\ k < k + i /\ buf'[i] = buf[k + i]
        BY <2>1, <2>5
      <4>2. buf[k].line < buf[k + i].line /\ buf[k + i].line \in n + 1..Len(sent)
        BY <2>1, <2>4, <3>1, <4>1
      <4>. QED
        BY <2>1, <2>2, <4>1, <4>2
    <3>2. ASSUME NEW i \in 1..b - k, NEW j \in 1..b - k, IsEnd(buf'[i]), IsEnd(buf'[j]), i < j
          PROVE  buf'[i].line < buf'[j].line
      <4>1. k + i \in 1..b /\ k + j \in 1..b /\ k + i < k + j
        BY <2>1, <2>5, <3>2
      <4>2. buf'[i] = buf[k + i] /\ buf'[j] = buf[k + j]
        BY <2>1
      <4>. QED
        BY <2>4, <3>2, <4>1, <4>2
    <3>3. n + 2 = Len(ended') + 1
      BY <2>1
    <3>. QED
      BY <1>1, <2>3, <3>1, <3>2, <3>3 DEF EndsOf
  <2>7. EndsOf(toHelper)'
    <3>1. ASSUME NEW j \in DOMAIN toHelper, IsEnd(toHelper[j])
          PROVE  toHelper[j].line \in n + 2..Len(sent)
      <4>1. buf[k].line < toHelper[j].line
        BY <2>1, <2>3, <3>1 DEF StreamInv
      <4>2. toHelper[j].line \in n + 1..Len(sent)
        BY <3>1 DEF StreamInv, EndsOf
      <4>. QED
        BY <2>1, <2>2, <4>1, <4>2
    <3>2. n + 2 = Len(ended') + 1
      BY <2>1
    <3>3. \A i, j \in DOMAIN toHelper : IsEnd(toHelper[i]) /\ IsEnd(toHelper[j]) /\ i < j
                => toHelper[i].line < toHelper[j].line
      BY DEF StreamInv, EndsOf
    <3>. QED
      BY <1>1, <3>1, <3>2, <3>3 DEF EndsOf
  <2>8. ASSUME NEW i \in DOMAIN buf', NEW j \in DOMAIN toHelper', IsEnd(buf'[i]), IsEnd(toHelper'[j])
        PROVE  buf'[i].line < toHelper'[j].line
    <3>1. k + i \in DOMAIN buf /\ buf'[i] = buf[k + i]
      BY <2>1, <2>3, <2>5
    <3>. QED
      BY <1>1, <2>8, <3>1 DEF StreamInv
  <2>9. ASSUME NEW m \in n + 2..Len(sent)
        PROVE  \/ \E i \in DOMAIN buf' : IsEnd(buf'[i]) /\ buf'[i].line = m
               \/ \E i \in DOMAIN toHelper' : IsEnd(toHelper'[i]) /\ toHelper'[i].line = m
    <3>1. m \in n + 1..Len(sent) /\ m # n + 1
      BY <2>1, <2>2
    <3>2. CASE \E i \in 1..b : IsEnd(buf[i]) /\ buf[i].line = m
      <4>1. PICK i \in 1..b : IsEnd(buf[i]) /\ buf[i].line = m
        BY <3>2
      <4>2. i # k /\ i \notin 1..k - 1
        BY <2>1, <2>2, <3>1, <4>1
      <4>3. i - k \in 1..b - k /\ k + (i - k) = i
        BY <2>1, <4>2
      <4>4. i - k \in DOMAIN buf' /\ buf'[i - k] = buf[i]
        BY <2>1, <2>3, <4>3
      <4>. QED
        BY <4>1, <4>4
    <3>3. CASE \E i \in DOMAIN toHelper : IsEnd(toHelper[i]) /\ toHelper[i].line = m
      BY <1>1, <3>3
    <3>. QED
      BY <2>3, <3>1, <3>2, <3>3 DEF StreamInv
  <2>10. \A i \in DOMAIN ended' : ended'[i] = i
    <3>1. \A i \in 1..n + 1 : i \in 1..n \/ i = n + 1
      BY <2>1
    <3>2. \A i \in 1..n : ended[i] = i
      BY <2>3 DEF StreamInv
    <3>. QED
      BY <2>1, <2>2, <2>3, <3>1, <3>2
  <2>11. Len(ended') <= Len(sent') /\ Len(ended') + 1 = n + 2
    BY <1>1, <2>1, <2>2
  <2>. HIDE DEF n, b
  <2>. QED
    BY <1>1, <2>6, <2>7, <2>8, <2>9, <2>10, <2>11 DEF StreamInv
<1>. QED
  BY <1>2, <1>3

LEMMA StreamNext == TypeInv /\ StreamInv /\ [Next]_vars => StreamInv'
<1>. SUFFICES ASSUME TypeInv, StreamInv, [Next]_vars PROVE StreamInv'
  OBVIOUS
<1>1. CASE UNCHANGED <<toHelper, buf, sent, ended>>
  BY <1>1 DEF StreamInv, EndsOf
<1>2. ASSUME NEW shape \in DOMAIN Shapes, DoInhibit(shape)  PROVE StreamInv'
  <2>1. CASE TxFails
    BY <1>1, <2>1 DEF TxFails
  <2>2. CASE ~TxFails
    <3>. DEFINE line == [shape |-> shape, of |-> Len(sent) + 1]
    <3>1. line \in Line /\ Sends(line)
      BY <1>2, <2>2, InhibitSends
    <3>. QED
      BY <3>1, StreamSends
  <2>. QED
    BY <2>1, <2>2
<1>3. ASSUME NEW k \in DOMAIN mine, DoUnInhibit(k)  PROVE StreamInv'
  <2>1. CASE TxFails
    BY <1>1, <2>1 DEF TxFails
  <2>2. CASE ~TxFails
    <3>1. Freeing(k) \in Line /\ Sends(Freeing(k))
      BY <1>3, <2>2, UnInhibitSends
    <3>. QED
      BY <3>1, StreamSends
  <2>. QED
    BY <2>1, <2>2
<1>4. CASE Answer \/ Sigint \/ Exit \/ ChildExits \/ UNCHANGED vars
  BY <1>1, <1>4 DEF Answer, Sigint, Exit, ChildExits, vars
<1>. QED
  BY <1>2, <1>3, <1>4, StreamRead, StreamHandle DEF Next, Daemon, Helper

LEMMA PrefixFacts ==
    ASSUME NEW S, NEW s \in Seq(S), NEW t \in Seq(S), Len(s) <= Len(t),
           \A i \in 1..Len(s) : s[i] = t[i]
    PROVE  IsPrefix(s, t)
<1>. DEFINE n == Len(s)
            a == SubSeq(s, 1, n)
            b == SubSeq(t, 1, n)
<1>1. n \in Nat /\ Len(t) \in Nat /\ 1 \in 1..Len(s) + 1 /\ 1 \in 1..Len(t) + 1
      /\ n \in 1 - 1..Len(s) /\ n \in 1 - 1..Len(t) /\ n - 1 + 1 = n /\ \A i \in 1..n : 1 + i - 1 = i
  BY LenProperties
<1>2. a \in Seq(S) /\ Len(a) = n - 1 + 1 /\ \A i \in 1..n - 1 + 1 : a[i] = s[1 + i - 1]
  BY <1>1, SubSeqFacts
<1>3. b \in Seq(S) /\ Len(b) = n - 1 + 1 /\ \A i \in 1..n - 1 + 1 : b[i] = t[1 + i - 1]
  BY <1>1, SubSeqFacts
<1>4. Len(a) = Len(b) /\ \A i \in 1..Len(a) : a[i] = b[i]
  BY <1>1, <1>2, <1>3
<1>5. a = b
  BY <1>2, <1>3, <1>4, SeqEqual
<1>. QED
  BY <1>5 DEF IsPrefix

\* Whatever the reads cut a line into and whatever is done with the parts, lines
\* are worked off once each and in order: NewlineMessageFork::doRun implements
\* the channel of lines.
THEOREM KeepsAllLines == Spec => KeepsLines
<1>. DEFINE P(q) == [n \in DOMAIN q |-> n]
<1>1. \A q \in Seq(Line) : P(q) \in Seq(Nat) /\ Len(P(q)) = Len(q) /\ \A n \in 1..Len(q) : P(q)[n] = n
  <2>. TAKE q \in Seq(Line)
  <2>1. DOMAIN q = 1..Len(q) /\ Len(q) \in Nat
    BY LenProperties
  <2>2. P(q) \in [1..Len(q) -> Nat]
    BY <2>1
  <2>. QED
    BY <2>1, <2>2, IsASeq, LenProperties
<1>2. Init => P(sent) = <<>> /\ ended = <<>>
  <2>. SUFFICES ASSUME Init PROVE P(sent) = <<>> /\ ended = <<>>
    OBVIOUS
  <2>1. sent = <<>> /\ sent \in Seq(Line) /\ ended = <<>> /\ Len(<<>>) = 0
    BY TypeInit DEF Init, TypeInv, TypeOK
  <2>2. Len(P(sent)) = 0 /\ P(sent) \in Seq(Nat)
    BY <1>1, <2>1
  <2>. HIDE DEF P
  <2>. QED
    BY <2>1, <2>2, EmptySeq
<1>3. TypeInv /\ StreamInv /\ [Next]_vars => [Lines!Post \/ Lines!Handle]_(Lines!channelVars)
  <2>. SUFFICES ASSUME TypeInv, StreamInv, [Next]_vars
                PROVE  [Lines!Post \/ Lines!Handle]_(Lines!channelVars)
    OBVIOUS
  <2>1. CASE UNCHANGED <<sent, ended>>
    BY <2>1 DEF Lines!channelVars
  <2>2. ASSUME NEW line \in Line, Sends(line)  PROVE Lines!Post
    <3>1. /\ sent \in Seq(Line) /\ sent' \in Seq(Line) /\ Len(sent) \in Nat
          /\ Len(sent') = Len(sent) + 1
      BY <2>2, SendsFacts DEF TypeInv, TypeOK
    <3>2. /\ P(sent) \in Seq(Nat) /\ Len(P(sent)) = Len(sent)
          /\ \A n \in 1..Len(sent) : P(sent)[n] = n
      BY <1>1, <3>1
    <3>3. /\ P(sent') \in Seq(Nat) /\ Len(P(sent')) = Len(sent')
          /\ \A n \in 1..Len(sent') : P(sent')[n] = n
      BY <1>1, <3>1
    <3>. HIDE DEF P
    <3>4. Len(P(sent)) <= Len(P(sent')) /\ \A i \in 1..Len(P(sent)) : P(sent)[i] = P(sent')[i]
      BY <3>1, <3>2, <3>3
    <3>5. IsPrefix(P(sent), P(sent'))
      BY <3>2, <3>3, <3>4, PrefixFacts
    <3>6. ended' = ended
      BY <2>2 DEF Sends
    <3>7. Len(P(sent')) = Len(P(sent)) + 1
      BY <3>1, <3>2, <3>3
    <3>8. Lines!IsPrefix(P(sent), P(sent'))
      BY <3>5 DEF IsPrefix, Lines!IsPrefix
    <3>. QED
      BY <3>6, <3>7, <3>8 DEF Lines!Post, P
  <2>3. ASSUME NEW shape \in DOMAIN Shapes, DoInhibit(shape)
        PROVE  [Lines!Post \/ Lines!Handle]_(Lines!channelVars)
    <3>. DEFINE line == [shape |-> shape, of |-> Len(sent) + 1]
    <3>1. TxFails \/ (line \in Line /\ Sends(line))
      BY <2>3, InhibitSends
    <3>2. TxFails => UNCHANGED <<sent, ended>>
      BY DEF TxFails
    <3>. QED
      BY <2>1, <2>2, <3>1, <3>2
  <2>4. ASSUME NEW k \in DOMAIN mine, DoUnInhibit(k)
        PROVE  [Lines!Post \/ Lines!Handle]_(Lines!channelVars)
    <3>1. TxFails \/ (Freeing(k) \in Line /\ Sends(Freeing(k)))
      BY <2>4, UnInhibitSends
    <3>2. TxFails => UNCHANGED <<sent, ended>>
      BY DEF TxFails
    <3>. QED
      BY <2>1, <2>2, <3>1, <3>2
  <2>5. CASE Answer \/ Sigint \/ Exit \/ ChildExits \/ UNCHANGED vars
    BY <2>1, <2>5 DEF Answer, Sigint, Exit, ChildExits, vars
  <2>6. CASE Read
    BY <2>1, <2>6, ReadFacts
  <2>7. CASE HandleMsg
    <3>1. sent' = sent
      BY <2>7 DEF HandleMsg
    <3>2. CASE ~HasLine(buf)
      BY <2>1, <2>7, <3>1, <3>2 DEF HandleMsg
    <3>3. CASE HasLine(buf)
      <4>1. PICK k \in 1..Len(buf) : /\ IsEnd(buf[k]) /\ \A j \in 1..k - 1 : ~IsEnd(buf[j])
                                     /\ ended' = Append(ended, buf[k].line)
        BY <2>7, <3>3, HandleMsgFacts
      <4>2. buf[k].line = Len(ended) + 1 /\ Len(ended) + 1 \in 1..Len(sent)
        BY <4>1, NextLine
      <4>3. sent \in Seq(Line) /\ Len(ended) \in Nat /\ Len(sent) \in Nat
        BY LenProperties DEF TypeInv, TypeOK
      <4>4. Len(P(sent)) = Len(sent) /\ P(sent)[Len(ended) + 1] = Len(ended) + 1
        BY <1>1, <4>2, <4>3
      <4>5. Len(ended) < Len(P(sent)) /\ ended' = Append(ended, P(sent)[Len(ended) + 1])
        BY <4>1, <4>2, <4>3, <4>4
      <4>. QED
        BY <3>1, <4>5 DEF Lines!Handle
    <3>. QED
      BY <3>2, <3>3
  <2>. QED
    BY <2>3, <2>4, <2>5, <2>6, <2>7 DEF Next, Daemon, Helper
<1>4. Init => P(sent) = <<>> /\ ended = <<>>
  BY <1>2
<1>. QED
  BY TypeInit, TypeNext, StreamInit, StreamNext, <1>3, <1>4, PTL DEF Spec, KeepsLines, Lines!Channel

----------------------------------------------------------------------------
(* Whole lines in pipe and buffer                                          *)

LEMMA WholeInit == Init => WholeInv
<1>. SUFFICES ASSUME Init PROVE WholeInv
  OBVIOUS
<1>1. /\ buf = <<>> /\ toHelper = <<>> /\ child = "reading" /\ Len(ended) = 0 /\ Len(sent) = 0
  BY DEF Init
<1>2. Whole(sent, <<>>, 1, 1)
  BY WholeEmpty
<1>. QED
  BY <1>1, <1>2 DEF WholeInv

LEMMA WholeSends ==
    ASSUME TypeInv, StreamInv, WholeInv, NEW line \in Line, Sends(line)
    PROVE  WholeInv'
<1>. SUFFICES ASSUME ~full PROVE WholeInv'
  BY DEF WholeInv, Sends
<1>1. /\ Len(sent) \in Nat /\ Len(ended) \in Nat /\ sent \in Seq(Line) /\ buf \in Seq(Cell)
      /\ toHelper \in Seq(Cell) /\ Len(ended) <= Len(sent)
  BY LenProperties DEF TypeInv, TypeOK, StreamInv
<1>2. PICK m \in Len(ended) + 1..Len(sent) + 1 :
            /\ Whole(sent, buf, Len(ended) + 1, m)
            /\ Whole(sent, toHelper, m, Len(sent) + 1)
            /\ child = "handling" => m > Len(ended) + 1
  BY DEF WholeInv
<1>3. Len(ended) + 1 \in 1..Len(sent) + 1 /\ m \in 1..Len(sent) + 1
  BY <1>1
<1>4. Whole(sent', buf, Len(ended) + 1, m)
  BY <1>1, <1>2, <1>3, WholeBefore DEF Sends
<1>5. Whole(sent', toHelper', m, Len(sent) + 2)
  BY <1>1, <1>2, <1>3, WholeAppend DEF Sends
<1>6. Len(sent') = Len(sent) + 1
  BY SendsFacts
<1>7. Len(sent') + 1 = Len(sent) + 2 /\ m \in Len(ended) + 1..Len(sent') + 1
  BY <1>1, <1>6
<1>. QED
  BY <1>2, <1>4, <1>5, <1>7 DEF WholeInv, Sends

LEMMA WholeRead ==
    ASSUME TypeInv, StreamInv, WholeInv, Read
    PROVE  WholeInv'
<1>. DEFINE e == Len(ended) + 1
            l == Len(sent) + 1
<1>1. child = "reading" /\ child' = "handling" /\ sent' = sent /\ ended' = ended
  BY ReadFacts
<1>2. /\ sent \in Seq(Line) /\ buf \in Seq(Cell) /\ toHelper \in Seq(Cell) /\ Len(sent) <= MaxLines
      /\ e \in Nat /\ l \in Nat /\ e <= l /\ e >= 1 /\ Len(sent) \in Nat
  BY LenProperties DEF TypeInv, TypeOK, StreamInv, Bounded
<1>3. CASE HasLine(buf) /\ UNCHANGED <<buf, toHelper, full>>
  <2>. SUFFICES ASSUME ~full PROVE WholeInv'
    BY <1>3 DEF WholeInv
  <2>1. PICK m \in e..l : Whole(sent, buf, e, m) /\ Whole(sent, toHelper, m, l)
    BY DEF WholeInv
  <2>2. m # e
    <3>1. m = e => buf = <<>>
      BY <1>2, <2>1, WholeNothing
    <3>2. buf = <<>> => ~HasLine(buf)
      BY DEF HasLine
    <3>. QED
      BY <1>3, <3>1, <3>2
  <2>3. m > e
    BY <1>2, <2>2
  <2>. QED
    BY <1>1, <1>3, <2>1, <2>3 DEF WholeInv
<1>4. CASE ~HasLine(buf) /\ \E n \in 1..Len(toHelper), junk \in {<<>>, <<Junk>>} : Takes(n, junk)
  <2>1. PICK n \in 1..Len(toHelper), junk \in {<<>>, <<Junk>>} : Takes(n, junk)
    BY <1>4
  <2>. SUFFICES ASSUME ~full' PROVE WholeInv'
    BY DEF WholeInv
  <2>2. ~full /\ n = Len(toHelper) /\ junk = <<>>
    BY <2>1 DEF Takes
  <2>3. PICK m \in e..l : Whole(sent, buf, e, m) /\ Whole(sent, toHelper, m, l)
    BY <2>2 DEF WholeInv
  <2>4. m = e
    <3>. SUFFICES ASSUME m # e PROVE FALSE
      OBVIOUS
    <3>1. e \in 1..Len(sent) /\ m \in e + 1..Len(sent) + 1
      BY <1>2
    <3>2. HasLine(buf)
      BY <1>2, <2>3, <3>1, WholeFirst
    <3>. QED
      BY <1>4, <3>2
  <2>5. buf = <<>>
    BY <1>2, <2>3, <2>4, WholeNothing
  <2>6. /\ toHelper' \in Seq(Cell) /\ Len(toHelper) \in Nat /\ Len(buf) = 0
        /\ Len(toHelper') = Len(toHelper) - n
        /\ buf' \in Seq(Cell) /\ Len(buf') = Len(buf) + n
        /\ \A i \in 1..n : buf'[Len(buf) + i] = toHelper[i]
    BY <2>1, <2>2, <2>5, TakesFacts
  <2>7. Len(toHelper') = 0 /\ Len(buf') = Len(toHelper) /\ \A i \in 1..Len(buf') : buf'[i] = toHelper[i]
    BY <2>2, <2>6
  <2>8. toHelper' = <<>> /\ buf' = toHelper
    BY <1>2, <2>6, <2>7, EmptySeq, SeqEqual
  <2>9. Whole(sent, buf', e, l) /\ Whole(sent, toHelper', l, l)
    BY <1>2, <2>3, <2>4, <2>8, WholeEmpty
  <2>10. e # l
    <3>1. e = l => toHelper = <<>>
      BY <1>2, <2>3, <2>4, WholeNothing
    <3>2. toHelper = <<>> => Len(toHelper) = 0
      OBVIOUS
    <3>. QED
      BY <2>1, <2>6, <3>1, <3>2
  <2>11. l \in e..l /\ l > e
    BY <1>2, <2>10
  <2>. QED
    BY <1>1, <2>9, <2>11 DEF WholeInv
<1>. QED
  BY <1>3, <1>4, ReadFacts

\* What handleMsg is given: the first line not worked off, whole.
LEMMA WholeMessage ==
    ASSUME TypeInv, StreamInv, WholeInv, ~full, child = "handling"
    PROVE  LET n == Len(ended) + 1
               t == Shapes[sent[n].shape]
               msg == FirstLine(buf)
           IN  /\ n \in 1..Len(sent) /\ HasLine(buf)
               /\ msg \in Seq(Cell) /\ Len(msg) = Len(t)
               /\ \A k \in 1..Len(t) : msg[k] = [line |-> n, text |-> t[k]]
               /\ Texts(msg) = t
               /\ buf[Len(msg) + 1].line = n
               /\ Rest(buf) \in Seq(Cell)
               /\ \E m \in n + 1..Len(sent) + 1 :
                    Whole(sent, Rest(buf), n + 1, m) /\ Whole(sent, toHelper, m, Len(sent) + 1)
<1>. DEFINE n == Len(ended) + 1
            t == Shapes[sent[n].shape]
            msg == FirstLine(buf)
<1>1. /\ sent \in Seq(Line) /\ buf \in Seq(Cell) /\ Len(sent) <= MaxLines
      /\ n \in Nat /\ n >= 1 /\ Len(sent) \in Nat
  BY LenProperties DEF TypeInv, TypeOK, Bounded
<1>2. PICK m \in n..Len(sent) + 1 : m > n /\ Whole(sent, buf, n, m) /\ Whole(sent, toHelper, m, Len(sent) + 1)
  BY DEF WholeInv
<1>3. n \in 1..Len(sent) /\ m \in n + 1..Len(sent) + 1
  BY <1>1, <1>2
<1>4. /\ HasLine(buf) /\ msg \in Seq(Cell) /\ Len(msg) = Len(t)
      /\ \A k \in 1..Len(t) : msg[k] = [line |-> n, text |-> t[k]]
      /\ buf[Len(t) + 1] = Newline(n)
      /\ Rest(buf) \in Seq(Cell) /\ Whole(sent, Rest(buf), n + 1, m)
  BY <1>1, <1>2, <1>3, WholeFirst
<1>5. Texts(msg) = t
  <2>1. sent[n].shape \in DOMAIN Shapes
    BY <1>1, <1>3, LineFacts
  <2>2. DOMAIN t = 1..Len(t) /\ t \in Seq(Pieces)
    BY <2>1, ShapeFacts
  <2>3. DOMAIN msg = 1..Len(t)
    <3>1. DOMAIN msg = 1..Len(msg)
      BY <1>4, LenProperties
    <3>. QED
      BY <1>4, <3>1
  <2>5. t = [k \in 1..Len(t) |-> t[k]]
    BY <2>2, LenProperties
  <2>. HIDE DEF msg, t
  <2>4. \A k \in 1..Len(t) : msg[k].text = t[k]
    <3>. TAKE k \in 1..Len(t)
    <3>1. msg[k] = [line |-> n, text |-> t[k]]
      BY <1>4, Zenon
    <3>. QED
      BY <3>1
  <2>. QED
    BY <2>3, <2>4, <2>5 DEF Texts
<1>6. buf[Len(msg) + 1].line = n
  BY <1>4 DEF Newline
<1>. QED
  BY <1>2, <1>3, <1>4, <1>5, <1>6

LEMMA WholeHandle ==
    ASSUME TypeInv, StreamInv, WholeInv, HandleMsg
    PROVE  WholeInv'
<1>1. sent' = sent /\ toHelper' = toHelper /\ full' = full /\ child = "handling"
  BY DEF HandleMsg
<1>2. child' # "handling"
  BY MessageTypes DEF HandleMsg
<1>. SUFFICES ASSUME ~full PROVE WholeInv'
  BY <1>1 DEF WholeInv
<1>. DEFINE n == Len(ended) + 1
<1>3. /\ HasLine(buf) /\ buf[Len(FirstLine(buf)) + 1].line = n
      /\ \E m \in n + 1..Len(sent) + 1 :
            Whole(sent, Rest(buf), n + 1, m) /\ Whole(sent, toHelper, m, Len(sent) + 1)
  BY <1>1, WholeMessage
<1>4. buf' = Rest(buf) /\ ended' = Append(ended, n)
  BY <1>3 DEF HandleMsg
<1>5. ended \in Seq(1..MaxLines) /\ Len(ended) \in Nat
  BY LenProperties DEF TypeInv, TypeOK
<1>6. Len(ended') = n
  BY <1>4, <1>5
<1>. QED
  BY <1>1, <1>2, <1>3, <1>4, <1>6 DEF WholeInv

LEMMA WholeNext == TypeInv /\ StreamInv /\ WholeInv /\ [Next]_vars => WholeInv'
<1>. SUFFICES ASSUME TypeInv, StreamInv, WholeInv, [Next]_vars PROVE WholeInv'
  OBVIOUS
<1>1. CASE UNCHANGED <<toHelper, buf, sent, ended, full>> /\ (child' = child \/ child' = "dead")
  BY <1>1 DEF WholeInv
<1>2. ASSUME NEW shape \in DOMAIN Shapes, DoInhibit(shape)  PROVE WholeInv'
  <2>1. CASE TxFails
    BY <1>1, <2>1 DEF TxFails
  <2>2. CASE ~TxFails
    <3>. DEFINE line == [shape |-> shape, of |-> Len(sent) + 1]
    <3>1. line \in Line /\ Sends(line)
      BY <1>2, <2>2, InhibitSends
    <3>. QED
      BY <3>1, WholeSends
  <2>. QED
    BY <2>1, <2>2
<1>3. ASSUME NEW k \in DOMAIN mine, DoUnInhibit(k)  PROVE WholeInv'
  <2>1. CASE TxFails
    BY <1>1, <2>1 DEF TxFails
  <2>2. CASE ~TxFails
    <3>1. Freeing(k) \in Line /\ Sends(Freeing(k))
      BY <1>3, <2>2, UnInhibitSends
    <3>. QED
      BY <3>1, WholeSends
  <2>. QED
    BY <2>1, <2>2
<1>4. CASE Answer \/ Sigint \/ Exit \/ ChildExits \/ UNCHANGED vars
  BY <1>1, <1>4 DEF Answer, Sigint, Exit, ChildExits, Dies, vars
<1>. QED
  BY <1>2, <1>3, <1>4, WholeRead, WholeHandle DEF Next, Daemon, Helper

\* NewlineMessageFork::doRun gives handleMsg one line that was sent, all of it and
\* nothing else, unless a read has filled the buffer (src/Fork/Fork.cpp, rx).
THEOREM HandlesWholeLines == Spec => HandledWholeUnlessFull
<1>1. TypeInv /\ StreamInv /\ WholeInv /\ HandleMsg
        => full \/ (HasLine(buf) /\
                    \E n \in DOMAIN sent : Texts(FirstLine(buf)) = Shapes[sent[n].shape])
  <2>. SUFFICES ASSUME TypeInv, StreamInv, WholeInv, HandleMsg, ~full
                PROVE  HasLine(buf) /\
                       \E n \in DOMAIN sent : Texts(FirstLine(buf)) = Shapes[sent[n].shape]
    OBVIOUS
  <2>. DEFINE n == Len(ended) + 1
  <2>1. child = "handling"
    BY DEF HandleMsg
  <2>2. n \in 1..Len(sent) /\ HasLine(buf) /\ Texts(FirstLine(buf)) = Shapes[sent[n].shape]
    BY <2>1, WholeMessage
  <2>3. DOMAIN sent = 1..Len(sent)
    BY LenProperties DEF TypeInv, TypeOK
  <2>. QED
    BY <2>2, <2>3
<1>. QED
  BY TypeInit, TypeNext, StreamInit, StreamNext, WholeInit, WholeNext, <1>1,
     PTL DEF Spec, HandledWholeUnlessFull

----------------------------------------------------------------------------
(* Locks and lines                                                         *)

LEMMA LockedSame ==
    ASSUME NEW q, NEW r, NEW k \in Nat, \A n \in 1..k : r[n] = q[n]
    PROVE  Locked(r, k) = Locked(q, k)
<1>1. Freed(r, k) = Freed(q, k)
  BY DEF Freed
<1>. QED
  BY <1>1 DEF Locked

LEMMA LockedLock ==
    ASSUME NEW q, NEW k \in Nat \ {0}, q[k].shape = "lock",
           \A n \in 1..k - 1 : q[n].shape = "unlock" => q[n].of # k
    PROVE  Locked(q, k) = Locked(q, k - 1) \cup {k}
<1>1. \A n \in 1..k : n = k \/ n \in 1..k - 1
  OBVIOUS
<1>2. \A n \in 1..k - 1 : n \in 1..k /\ n # k
  OBVIOUS
<1>3. Freed(q, k) = Freed(q, k - 1)
  BY <1>1, <1>2 DEF Freed
<1>4. k \notin Freed(q, k - 1)
  BY DEF Freed
<1>5. k \in 1..k
  OBVIOUS
<1>. QED
  BY <1>1, <1>2, <1>3, <1>4, <1>5 DEF Locked

LEMMA LockedUnlock ==
    ASSUME NEW q, NEW k \in Nat \ {0}, q[k].shape = "unlock"
    PROVE  Locked(q, k) = Locked(q, k - 1) \ {q[k].of}
<1>1. \A n \in 1..k : n = k \/ n \in 1..k - 1
  OBVIOUS
<1>2. \A n \in 1..k - 1 : n \in 1..k /\ n # k
  OBVIOUS
<1>3. k \in 1..k
  OBVIOUS
<1>4. Freed(q, k) = Freed(q, k - 1) \cup {q[k].of}
  BY <1>1, <1>2, <1>3 DEF Freed
<1>. QED
  BY <1>1, <1>2, <1>4 DEF Locked

LEMMA LocksInit == Init => SentInv /\ KernelInv
<1>. SUFFICES ASSUME Init PROVE SentInv /\ KernelInv
  OBVIOUS
<1>1. /\ sent = <<>> /\ mine = <<>> /\ wake = {} /\ main = "idle" /\ ended = <<>>
      /\ DOMAIN <<>> = 1..0 /\ Len(<<>>) = 0
  BY DEF Init
<1>2. Locked(sent, 0) = {}
  BY DEF Locked
<1>3. ToSet(mine) = {}
  BY <1>1 DEF ToSet
<1>4. Len(sent) = 0 /\ Len(ended) = 0
  BY <1>1
<1>5. SentInv
  BY <1>1 DEF SentInv
<1>6. {<<n, <<"name", "name">> >> : n \in Locked(sent, Len(ended))} = {}
  BY <1>2, <1>4
<1>7. \A i, j \in DOMAIN mine : mine[i] = mine[j] => i = j
  BY <1>1
<1>8. KernelInv
  BY <1>1, <1>2, <1>3, <1>4, <1>6, <1>7 DEF KernelInv
<1>. QED
  BY <1>5, <1>8

LEMMA SentSends ==
    ASSUME TypeInv, SentInv, NEW line \in Line, Sends(line),
           line.shape \in ShapesOf[helper],
           line.shape = "lock" => line.of = Len(sent) + 1,
           line.shape = "unlock" =>
                line.of \in 1..Len(sent) /\ sent[line.of].shape = "lock"
    PROVE  SentInv'
<1>. DEFINE n == Len(sent) + 1
<1>1. /\ n \in Nat /\ Len(sent) \in Nat /\ sent' \in Seq(Line) /\ Len(sent') = n /\ sent'[n] = line
      /\ \A m \in 1..Len(sent) : sent'[m] = sent[m]
  BY SendsFacts
<1>2. DOMAIN sent' = 1..n /\ DOMAIN sent = 1..Len(sent)
  BY <1>1, LenProperties DEF TypeInv, TypeOK
<1>3. helper' = helper
  BY DEF Sends
<1>4. ASSUME NEW m \in 1..n
      PROVE  /\ sent'[m].shape \in ShapesOf[helper]
             /\ sent'[m].shape = "lock" => sent'[m].of = m
             /\ sent'[m].shape = "unlock" =>
                    sent'[m].of \in 1..m - 1 /\ sent'[sent'[m].of].shape = "lock"
  <2>1. CASE m = n
    BY <1>1, <2>1
  <2>2. CASE m # n
    <3>1. m \in 1..Len(sent) /\ sent'[m] = sent[m]
      BY <1>1, <2>2
    <3>2. /\ sent[m].shape \in ShapesOf[helper]
          /\ sent[m].shape = "lock" => sent[m].of = m
          /\ sent[m].shape = "unlock" =>
                sent[m].of \in 1..m - 1 /\ sent[sent[m].of].shape = "lock"
      BY <1>2, <3>1 DEF SentInv
    <3>3. \A o \in 1..m - 1 : o \in 1..Len(sent)
      BY <1>1, <3>1
    <3>. QED
      BY <1>1, <3>1, <3>2, <3>3
  <2>. QED
    BY <2>1, <2>2
<1>. HIDE DEF n
<1>. QED
  BY <1>2, <1>3, <1>4 DEF SentInv

\* An append of a line nobody locked yet.
LEMMA InhibitLocks ==
    ASSUME TypeInv, StreamInv, SentInv, KernelInv, NEW shape \in DOMAIN Shapes, DoInhibit(shape)
    PROVE  SentInv' /\ KernelInv'
<1>1. CASE TxFails
  BY <1>1 DEF TxFails, SentInv, KernelInv, lockVars
<1>2. CASE ~TxFails
  <2>. DEFINE n == Len(sent) + 1
              line == [shape |-> shape, of |-> n]
  <2>1. /\ line \in Line /\ Sends(line) /\ line.shape = shape /\ line.of = n
        /\ main' = IF helper = SYSTEMD THEN "waiting" ELSE "idle"
        /\ mine' = IF helper = KERNEL THEN Append(mine, n) ELSE mine
    BY <1>2, InhibitSends
  <2>2. shape \in ShapesOf[helper] /\ shape # "release" /\ shape # "unlock"
    BY DEF DoInhibit
  <2>. HIDE DEF line
  <2>3. SentInv'
    BY <2>1, <2>2, SentSends
  <2>4. KernelInv'
    <3>. SUFFICES ASSUME helper = KERNEL PROVE KernelInv'
      BY <2>1 DEF KernelInv, Sends
    <3>1. shape = "lock"
      BY <2>2 DEF ShapesOf, KERNEL, SYSTEMD
    <3>2. /\ n \in Nat \ {0} /\ Len(sent) \in Nat /\ Len(sent') = n /\ sent'[n] = line /\ n - 1 = Len(sent)
          /\ \A m \in 1..Len(sent) : sent'[m] = sent[m]
      <4>1. /\ Len(sent) \in Nat /\ Len(sent') = n /\ sent'[n] = line
            /\ \A m \in 1..Len(sent) : sent'[m] = sent[m]
        BY <2>1, SendsFacts
      <4>2. n \in Nat \ {0} /\ n - 1 = Len(sent)
        BY <4>1
      <4>. QED
        BY <4>1, <4>2
    <3>3. Locked(sent', n) = Locked(sent, Len(sent)) \cup {n}
      <4>1. \A m \in 1..n - 1 : sent'[m].shape = "unlock" => sent'[m].of # n
        <5>1. DOMAIN sent = 1..Len(sent)
          BY LenProperties DEF TypeInv, TypeOK
        <5>2. \A m \in 1..Len(sent) : sent[m].shape = "unlock" => sent[m].of \in 1..m - 1
          BY <5>1 DEF SentInv
        <5>3. \A m \in 1..Len(sent) : n \notin 1..m - 1
          BY <3>2
        <5>. QED
          BY <3>2, <5>2, <5>3
      <4>2. Locked(sent', n) = Locked(sent', n - 1) \cup {n}
        BY <2>1, <3>1, <3>2, <4>1, LockedLock
      <4>3. Locked(sent', Len(sent)) = Locked(sent, Len(sent))
        BY <3>2, LockedSame
      <4>. QED
        BY <3>2, <4>2, <4>3
    <3>4. Locked(sent', Len(ended)) = Locked(sent, Len(ended))
      <4>1. Len(ended) \in Nat /\ \A m \in 1..Len(ended) : m \in 1..Len(sent)
        BY <3>2, LenProperties DEF TypeInv, TypeOK, StreamInv
      <4>. QED
        BY <3>2, <4>1, LockedSame
    <3>5. /\ mine \in Seq(Int) /\ Len(mine) \in Nat /\ DOMAIN mine = 1..Len(mine)
          /\ mine' \in Seq(Int) /\ DOMAIN mine' = 1..Len(mine) + 1 /\ mine'[Len(mine) + 1] = n
          /\ \A i \in 1..Len(mine) : mine'[i] = mine[i]
      <4>1. mine \in Seq(Int) /\ Len(mine) \in Nat /\ DOMAIN mine = 1..Len(mine) /\ mine' = Append(mine, n)
        BY <2>1, LenProperties DEF TypeInv, TypeOK
      <4>2. mine' \in Seq(Int) /\ Len(mine') = Len(mine) + 1
        BY <3>2, <4>1, AppendProperties
      <4>. QED
        BY <3>2, <4>1, <4>2, AppendProperties, LenProperties
    <3>6. \A i \in 1..Len(mine) + 1 : i = Len(mine) + 1 \/ i \in 1..Len(mine)
      BY <3>5
    <3>7. \A i \in 1..Len(mine) : i \in 1..Len(mine) + 1
      BY <3>5
    <3>8. ToSet(mine') = ToSet(mine) \cup {n}
      <4>1. Len(mine) + 1 \in 1..Len(mine) + 1
        BY <3>5
      <4>. QED
        BY <3>5, <3>6, <3>7, <4>1 DEF ToSet
    <3>9. n \notin ToSet(mine)
      <4>1. ToSet(mine) \subseteq 1..Len(sent)
        BY DEF KernelInv, Locked
      <4>. QED
        BY <3>2, <4>1
    <3>10. \A i, j \in DOMAIN mine' : mine'[i] = mine'[j] => i = j
      <4>1. \A i \in 1..Len(mine) : mine[i] # n
        BY <3>5, <3>9 DEF ToSet
      <4>2. \A i, j \in 1..Len(mine) : mine[i] = mine[j] => i = j
        BY <3>5 DEF KernelInv
      <4>. QED
        BY <3>5, <3>6, <4>1, <4>2
    <3>11. main' # "waiting" /\ UNCHANGED <<helper, full, wake, ended>>
      BY <2>1 DEF Sends, KERNEL, SYSTEMD, lockVars
    <3>. QED
      BY <3>2, <3>3, <3>4, <3>8, <3>10, <3>11 DEF KernelInv
  <2>. QED
    BY <2>3, <2>4
<1>. QED
  BY <1>1, <1>2

LEMMA UnInhibitLocks ==
    ASSUME TypeInv, StreamInv, SentInv, KernelInv, NEW k \in DOMAIN mine, DoUnInhibit(k)
    PROVE  SentInv' /\ KernelInv'
<1>1. CASE TxFails
  BY <1>1 DEF TxFails, SentInv, KernelInv, lockVars
<1>2. CASE ~TxFails
  <2>. DEFINE n == Len(sent) + 1
              line == Freeing(k)
  <2>1. /\ line \in Line /\ Sends(line) /\ line.of = mine[k]
        /\ line.shape = IF helper = SYSTEMD THEN "release" ELSE "unlock"
        /\ main \in {"idle", "exiting"} /\ main' = main /\ mine' = RemoveAt(mine, k)
    BY <1>2, UnInhibitSends
  <2>2. helper \in {SYSTEMD, KERNEL}
    BY HelpersAssumption DEF TypeInv, TypeOK
  <2>. HIDE DEF line
  <2>3. CASE helper = SYSTEMD
    <3>1. line.shape \in ShapesOf[helper] /\ line.shape # "lock" /\ line.shape # "unlock"
      BY <2>1, <2>3 DEF ShapesOf
    <3>2. SentInv'
      BY <2>1, <3>1, SentSends
    <3>3. helper' # KERNEL
      BY <2>1, <2>3 DEF Sends, KERNEL, SYSTEMD
    <3>. QED
      BY <3>2, <3>3 DEF KernelInv
  <2>4. CASE helper = KERNEL
    <3>1. line.shape = "unlock" /\ line.shape \in ShapesOf[helper]
      BY <2>1, <2>4 DEF ShapesOf, KERNEL, SYSTEMD
    <3>2. /\ ToSet(mine) = Locked(sent, Len(sent))
          /\ \A i, j \in DOMAIN mine : mine[i] = mine[j] => i = j
          /\ ~full => wake = {<<m, <<"name", "name">> >> : m \in Locked(sent, Len(ended))}
      BY <2>4 DEF KernelInv
    <3>3. line.of \in Locked(sent, Len(sent))
      BY <2>1, <3>2 DEF ToSet
    <3>4. SentInv'
      <4>1. line.of \in 1..Len(sent) /\ sent[line.of].shape = "lock"
        BY <3>3 DEF Locked
      <4>. QED
        BY <2>1, <3>1, <4>1, SentSends
    <3>5. /\ n \in Nat \ {0} /\ Len(sent) \in Nat /\ Len(sent') = n /\ sent'[n] = line /\ n - 1 = Len(sent)
          /\ \A m \in 1..Len(sent) : sent'[m] = sent[m]
      BY <2>1, SendsFacts
    <3>6. Locked(sent', n) = Locked(sent, Len(sent)) \ {mine[k]}
      <4>1. Locked(sent', n) = Locked(sent', n - 1) \ {sent'[n].of}
        BY <3>1, <3>5, LockedUnlock
      <4>2. Locked(sent', Len(sent)) = Locked(sent, Len(sent))
        BY <3>5, LockedSame
      <4>. QED
        BY <2>1, <3>5, <4>1, <4>2
    <3>7. Locked(sent', Len(ended)) = Locked(sent, Len(ended))
      <4>1. Len(ended) \in Nat /\ \A m \in 1..Len(ended) : m \in 1..Len(sent)
        BY <3>5, LenProperties DEF TypeInv, TypeOK, StreamInv
      <4>. QED
        BY <3>5, <4>1, LockedSame
    <3>8. /\ \A i \in DOMAIN mine' : \E j \in DOMAIN mine : j # k /\ mine'[i] = mine[j]
          /\ \A j \in DOMAIN mine : j # k => \E i \in DOMAIN mine' : mine'[i] = mine[j]
          /\ \A i, j \in DOMAIN mine' : i # j =>
                \E x, y \in DOMAIN mine : /\ x # y /\ x # k /\ y # k
                                          /\ mine'[i] = mine[x] /\ mine'[j] = mine[y]
      <4>1. mine \in Seq(Int)
        BY DEF TypeInv, TypeOK
      <4>. QED
        BY <2>1, <4>1, RemovedFacts
    <3>9. ToSet(mine') = ToSet(mine) \ {mine[k]}
      BY <3>2, <3>8 DEF ToSet
    <3>10. \A i, j \in DOMAIN mine' : mine'[i] = mine'[j] => i = j
      BY <3>2, <3>8
    <3>11. main' # "waiting" /\ UNCHANGED <<helper, full, wake, ended>>
      BY <2>1 DEF Sends, lockVars
    <3>12. KernelInv'
      BY <3>2, <3>5, <3>6, <3>7, <3>9, <3>10, <3>11 DEF KernelInv
    <3>. QED
      BY <3>4, <3>12
  <2>. QED
    BY <2>2, <2>3, <2>4
<1>. QED
  BY <1>1, <1>2

\* What handleMsg of the kernel's helper makes of the wake lock file.
LEMMA HandleLocks ==
    ASSUME TypeInv, StreamInv, WholeInv, SentInv, KernelInv, HandleMsg
    PROVE  SentInv' /\ KernelInv'
<1>1. UNCHANGED <<helper, main, mine, sent, full>> /\ child = "handling"
  BY DEF HandleMsg
<1>2. SentInv'
  BY <1>1 DEF SentInv
<1>3. ASSUME helper = KERNEL, ~full
      PROVE  wake' = {<<n, <<"name", "name">> >> : n \in Locked(sent, Len(ended'))}
  <2>. DEFINE n == Len(ended) + 1
              t == Shapes[sent[n].shape]
              msg == FirstLine(buf)
              nn == <<"name", "name">>
              W(k) == {<<m, nn>> : m \in Locked(sent, k)}
  <2>1. /\ n \in 1..Len(sent) /\ HasLine(buf) /\ msg \in Seq(Cell) /\ Len(msg) = Len(t)
        /\ \A k \in 1..Len(t) : msg[k] = [line |-> n, text |-> t[k]]
        /\ Texts(msg) = t /\ buf[Len(msg) + 1].line = n
    BY <1>1, <1>3, WholeMessage
  <2>2. wake = W(Len(ended))
    BY <1>3 DEF KernelInv
  <2>3. n \in Nat \ {0} /\ n - 1 = Len(ended) /\ ended \in Seq(1..MaxLines) /\ DOMAIN sent = 1..Len(sent)
    BY LenProperties DEF TypeInv, TypeOK
  <2>4. Len(ended') = n
    <3>1. ended' = Append(ended, n)
      BY <2>1 DEF HandleMsg
    <3>. QED
      BY <2>3, <3>1
  <2>5. HandleName(msg)
    BY <1>3 DEF HandleMsg, HandleRequest, HandleRelease, HandleOther, KERNEL, SYSTEMD
  <2>6. /\ sent[n].shape \in {"lock", "unlock"}
        /\ sent[n].shape = "lock" => sent[n].of = n
        /\ \A m \in 1..n - 1 : sent[m].shape = "unlock" => sent[m].of # n
    <3>1. ShapesOf[helper] = {"lock", "unlock"}
      BY <1>3 DEF ShapesOf, KERNEL, SYSTEMD
    <3>2. \A m \in 1..n - 1 : m \in 1..Len(sent) /\ n \notin 1..m - 1
      BY <2>1, <2>3
    <3>. QED
      BY <2>1, <2>3, <3>1, <3>2 DEF SentInv
  <2>. HIDE DEF n, msg
  <2>7. CASE sent[n].shape = "lock"
    <3>1. t = nn /\ Len(nn) = 2 /\ nn[1] = "name"
      BY <2>7 DEF Shapes
    <3>2. msg # <<>> /\ msg[1] = [line |-> n, text |-> "name"]
      <4>1. 1 \in 1..Len(t) /\ t[1] = "name" /\ Len(msg) = 2
        BY <2>1, <3>1
      <4>2. msg[1] = [line |-> n, text |-> t[1]]
        BY <2>1, <4>1, Zenon
      <4>3. msg # <<>>
        BY <4>1
      <4>. QED
        BY <4>1, <4>2, <4>3
    <3>3. ~IsUnlock(msg) /\ NameIn(msg) = msg
      BY <3>2 DEF IsUnlock, NameIn
    <3>4. msg[1] # Junk /\ msg[1].line = n
      BY <2>3, <3>2 DEF Junk
    <3>5. wake' = wake \cup {<<sent[n].of, Texts(msg)>>}
      BY <2>5, <3>2, <3>3, <3>4 DEF HandleName
    <3>6. wake' = wake \cup {<<n, nn>>}
      BY <2>1, <2>6, <2>7, <3>1, <3>5
    <3>7. Locked(sent, n) = Locked(sent, n - 1) \cup {n}
      BY <2>3, <2>6, <2>7, LockedLock
    <3>8. W(n) = W(n - 1) \cup {<<n, nn>>}
      BY <3>7
    <3>. QED
      BY <2>2, <2>3, <2>4, <3>6, <3>8
  <2>8. CASE sent[n].shape = "unlock"
    <3>1. t = <<"tab", "name", "name">>
      BY <2>8 DEF Shapes
    <3>2. Len(msg) = 3 /\ msg # <<>>
      <4>1. Len(t) = 3
        BY <3>1
      <4>2. Len(msg) = 3
        BY <2>1, <4>1
      <4>. QED
        BY <4>2
    <3>3. /\ msg[1] = [line |-> n, text |-> "tab"] /\ msg[2] = [line |-> n, text |-> "name"]
          /\ msg[3] = [line |-> n, text |-> "name"]
      <4>1. Len(t) = 3 /\ t[1] = "tab" /\ t[2] = "name" /\ t[3] = "name"
        BY <3>1
      <4>2. 1 \in 1..Len(t) /\ 2 \in 1..Len(t) /\ 3 \in 1..Len(t)
        BY <4>1
      <4>. HIDE DEF t
      <4>3. /\ msg[1] = [line |-> n, text |-> t[1]] /\ msg[2] = [line |-> n, text |-> t[2]]
            /\ msg[3] = [line |-> n, text |-> t[3]]
        BY <2>1, <4>2, Zenon
      <4>. QED
        BY <4>1, <4>3
    <3>. DEFINE name == Tail(msg)
    <3>4. IsUnlock(msg) /\ NameIn(msg) = name
      BY <3>2, <3>3 DEF IsUnlock, NameIn
    <3>5. name \in Seq(Cell) /\ Len(name) = 2 /\ name[1] = msg[2] /\ name[2] = msg[3] /\ name # <<>>
      <4>1. name \in Seq(Cell) /\ Len(name) = Len(msg) - 1 /\ \A i \in 1..Len(name) : name[i] = msg[i + 1]
        BY <2>1, <3>2, HeadTailProperties
      <4>. HIDE DEF name
      <4>2. Len(name) = 2 /\ name # <<>>
        BY <3>2, <4>1
      <4>3. 1 \in 1..2 /\ 2 \in 1..2 /\ 1 + 1 = 2 /\ 2 + 1 = 3
        OBVIOUS
      <4>4. name[1] = msg[1 + 1] /\ name[2] = msg[2 + 1]
        BY <4>1, <4>2, <4>3
      <4>5. name[1] = msg[2] /\ name[2] = msg[3]
        BY <4>4
      <4>. QED
        BY <4>1, <4>2, <4>5
    <3>. HIDE DEF name
    <3>6. name[1] # Junk /\ name[1].line = n
      BY <2>3, <3>3, <3>5 DEF Junk
    <3>7. Texts(name) = nn
      <4>1. DOMAIN name = 1..2
        BY <3>5, LenProperties
      <4>2. \A i \in 1..2 : name[i].text = "name"
        <5>1. \A i \in 1..2 : i = 1 \/ i = 2
          OBVIOUS
        <5>. QED
          BY <3>3, <3>5, <5>1
      <4>3. Texts(name) = [i \in 1..2 |-> "name"]
        BY <4>1, <4>2 DEF Texts
      <4>. QED
        BY <4>3
    <3>8. wake' = wake \ {<<sent[n].of, nn>>}
      BY <2>5, <3>4, <3>5, <3>6, <3>7 DEF HandleName
    <3>9. Locked(sent, n) = Locked(sent, n - 1) \ {sent[n].of}
      BY <2>3, <2>8, LockedUnlock
    <3>10. W(n) = W(n - 1) \ {<<sent[n].of, nn>>}
      BY <3>9
    <3>. QED
      BY <2>2, <2>3, <2>4, <3>8, <3>10
  <2>. QED
    BY <2>6, <2>7, <2>8
<1>4. KernelInv'
  BY <1>1, <1>3 DEF KernelInv
<1>. QED
  BY <1>2, <1>4

LEMMA LocksNext ==
    TypeInv /\ StreamInv /\ WholeInv /\ SentInv /\ KernelInv /\ [Next]_vars => SentInv' /\ KernelInv'
<1>. SUFFICES ASSUME TypeInv, StreamInv, WholeInv, SentInv, KernelInv, [Next]_vars
              PROVE  SentInv' /\ KernelInv'
  OBVIOUS
<1>1. CASE /\ UNCHANGED <<helper, sent, mine, wake, ended>> /\ (full' = FALSE => full = FALSE)
           /\ helper = KERNEL => main' # "waiting"
  BY <1>1 DEF SentInv, KernelInv, TypeInv, TypeOK
<1>2. CASE Answer
  <2>1. helper # KERNEL
    BY <1>2 DEF Answer, KernelInv
  <2>. QED
    BY <1>2, <2>1 DEF Answer, SentInv, KernelInv
<1>3. CASE Sigint \/ Exit \/ ChildExits \/ UNCHANGED vars
  BY <1>1, <1>3 DEF Sigint, Exit, ChildExits, vars, lockVars, KernelInv
<1>4. CASE Read
  <2>1. UNCHANGED <<helper, main, sent, mine, wake, ended>>
    BY <1>4, ReadFacts DEF lockVars
  <2>2. full' = full \/ \E n \in 1..Len(toHelper) : full' = (full \/ n = BufSize)
    BY <1>4, ReadFacts DEF Takes
  <2>. QED
    BY <1>1, <2>1, <2>2 DEF KernelInv, TypeInv, TypeOK
<1>. QED
  BY <1>2, <1>3, <1>4, InhibitLocks, UnInhibitLocks, HandleLocks DEF Next, Daemon, Helper

----------------------------------------------------------------------------
(* Requests, descriptors and releases                                      *)

LEMMA SystemdInit == Init => SystemdInv
<1>. SUFFICES ASSUME Init PROVE SystemdInv
  OBVIOUS
<1>1. /\ sent = <<>> /\ mine = <<>> /\ held = {} /\ main = "idle" /\ ended = <<>> /\ toMain = <<>>
      /\ DOMAIN <<>> = 1..0 /\ Len(<<>>) = 0
  BY DEF Init
<1>2. Pending = {} /\ Outstanding = {} /\ Returned = {}
  <2>1. Pending = {}
    BY <1>1 DEF Pending
  <2>. QED
    BY <2>1 DEF Outstanding, Returned
<1>3. ToSet(mine) = {} /\ ToSet(toMain) = {}
  BY <1>1 DEF ToSet
<1>4. RequestInv
  BY <1>1, <1>2 DEF RequestInv
<1>5. FdsInv
  BY <1>1, <1>2, <1>3 DEF FdsInv
<1>. QED
  BY <1>4, <1>5 DEF SystemdInv

\* A line that is sent is under way.
LEMMA PendingSends ==
    ASSUME TypeInv, StreamInv, NEW line \in Line, Sends(line)
    PROVE  LET n == Len(sent) + 1
           IN  /\ n \notin Pending /\ Pending' = Pending \cup {n}
               /\ sent'[n] = line /\ \A m \in Pending : sent'[m] = sent[m]
<1>. DEFINE n == Len(sent) + 1
<1>1. /\ Len(sent) \in Nat /\ Len(ended) \in Nat /\ Len(ended) <= Len(sent) /\ ended' = ended
      /\ Len(sent') = n /\ sent'[n] = line /\ \A m \in 1..Len(sent) : sent'[m] = sent[m]
  BY SendsFacts, LenProperties DEF TypeInv, TypeOK, StreamInv, Sends
<1>2. Len(ended) + 1..n = (Len(ended) + 1..Len(sent)) \cup {n} /\ n \notin Len(ended) + 1..Len(sent)
  BY <1>1
<1>3. \A m \in Len(ended) + 1..Len(sent) : m \in 1..Len(sent)
  BY <1>1
<1>. HIDE DEF n
<1>. QED
  BY <1>1, <1>2, <1>3 DEF Pending, n

LEMMA InhibitFds ==
    ASSUME TypeInv, StreamInv, SystemdInv, NEW shape \in DOMAIN Shapes, DoInhibit(shape)
    PROVE  SystemdInv'
<1>1. CASE TxFails
  BY <1>1 DEF TxFails, SystemdInv
<1>2. CASE ~TxFails
  <2>. DEFINE n == Len(sent) + 1
              line == [shape |-> shape, of |-> n]
  <2>1. /\ line \in Line /\ Sends(line) /\ line.shape = shape /\ main = "idle"
        /\ main' = IF helper = SYSTEMD THEN "waiting" ELSE "idle"
        /\ mine' = IF helper = KERNEL THEN Append(mine, n) ELSE mine
    BY <1>2, InhibitSends
  <2>2. UNCHANGED <<helper, toMain, child, full, held>> /\ child # "dead"
    BY <2>1 DEF Sends, lockVars
  <2>. SUFFICES ASSUME helper = SYSTEMD, ~full PROVE RequestInv' /\ FdsInv'
    BY <2>2 DEF SystemdInv
  <2>3. RequestInv /\ FdsInv /\ mine' = mine /\ main' = "waiting"
    BY <2>1, <2>2 DEF SystemdInv, SYSTEMD, KERNEL
  <2>. HIDE DEF line, n
  <2>4. n \notin Pending /\ Pending' = Pending \cup {n} /\ sent'[n] = line /\ \A m \in Pending : sent'[m] = sent[m]
    BY <2>1, PendingSends DEF n
  <2>5. Outstanding' \subseteq Outstanding \cup {n}
    BY <2>4 DEF Outstanding
  <2>6. shape # "release"
    BY DEF DoInhibit
  <2>7. Returned' = Returned /\ \A m \in Returned : sent'[m] = sent[m]
    BY <2>1, <2>4, <2>6 DEF Returned
  <2>8. RequestInv'
    <3>1. Outstanding = {} /\ toMain = <<>>
      BY <2>1, <2>3 DEF RequestInv
    <3>. QED
      BY <2>2, <2>3, <2>5, <3>1 DEF RequestInv
  <2>9. {sent'[m].of : m \in Returned'} = {sent[m].of : m \in Returned}
    BY <2>7
  <2>10. FdsInv'
    BY <2>2, <2>3, <2>7, <2>9 DEF FdsInv
  <2>. QED
    BY <2>8, <2>10
<1>. QED
  BY <1>1, <1>2

LEMMA UnInhibitFds ==
    ASSUME TypeInv, StreamInv, SystemdInv, NEW k \in DOMAIN mine, DoUnInhibit(k)
    PROVE  SystemdInv'
<1>1. CASE TxFails
  BY <1>1 DEF TxFails, SystemdInv
<1>2. CASE ~TxFails
  <2>. DEFINE n == Len(sent) + 1
              line == Freeing(k)
              fd == mine[k]
  <2>1. /\ line \in Line /\ Sends(line) /\ line.of = fd
        /\ line.shape = IF helper = SYSTEMD THEN "release" ELSE "unlock"
        /\ main' = main /\ mine' = RemoveAt(mine, k)
    BY <1>2, UnInhibitSends
  <2>2. UNCHANGED <<helper, toMain, child, full, held>> /\ child # "dead"
    BY <2>1 DEF Sends, lockVars
  <2>. SUFFICES ASSUME helper = SYSTEMD, ~full PROVE RequestInv' /\ FdsInv'
    BY <2>2 DEF SystemdInv
  <2>3. RequestInv /\ FdsInv
    BY <2>2 DEF SystemdInv
  <2>. HIDE DEF line, n
  <2>4. n \notin Pending /\ Pending' = Pending \cup {n} /\ sent'[n] = line /\ \A m \in Pending : sent'[m] = sent[m]
    BY <2>1, PendingSends DEF n
  <2>5. line.shape = "release" /\ line.shape \notin Requests
    BY <2>1 DEF Requests
  <2>6. Outstanding' = Outstanding
    BY <2>4, <2>5 DEF Outstanding
  <2>7. /\ Returned' = Returned \cup {n} /\ n \notin Returned /\ sent'[n].of = fd
        /\ \A m \in Returned : sent'[m].of = sent[m].of
    BY <2>1, <2>4, <2>5 DEF Returned
  <2>8. RequestInv'
    BY <2>1, <2>2, <2>3, <2>6 DEF RequestInv
  <2>9. /\ \A i \in DOMAIN mine' : \E j \in DOMAIN mine : j # k /\ mine'[i] = mine[j]
        /\ \A j \in DOMAIN mine : j # k => \E i \in DOMAIN mine' : mine'[i] = mine[j]
        /\ \A i, j \in DOMAIN mine' : i # j =>
                \E x, y \in DOMAIN mine : /\ x # y /\ x # k /\ y # k
                                          /\ mine'[i] = mine[x] /\ mine'[j] = mine[y]
    <3>1. mine \in Seq(Int)
      BY DEF TypeInv, TypeOK
    <3>. QED
      BY <2>1, <3>1, RemovedFacts
  <2>10. held' = (ToSet(mine') \cup ToSet(toMain') \cup {sent'[m].of : m \in Returned'}) \ {Denied}
    <3>1. held = (ToSet(mine) \cup ToSet(toMain) \cup {sent[m].of : m \in Returned}) \ {Denied}
      BY <2>3 DEF FdsInv
    <3>2. {sent'[m].of : m \in Returned'} = {sent[m].of : m \in Returned} \cup {fd}
      BY <2>7
    <3>3. ToSet(mine') \cup {fd} = ToSet(mine)
      BY <2>9 DEF ToSet
    <3>. QED
      BY <2>2, <3>1, <3>2, <3>3
  <2>11. \A i, j \in DOMAIN mine' : mine'[i] = mine'[j] /\ mine'[i] # Denied => i = j
    BY <2>3, <2>9 DEF FdsInv
  <2>12. \A l, m \in Returned' : sent'[l].of = sent'[m].of /\ sent'[l].of # Denied => l = m
    BY <2>3, <2>7 DEF FdsInv
  <2>13. \A i \in DOMAIN mine', m \in Returned' : mine'[i] # Denied => mine'[i] # sent'[m].of
    BY <2>3, <2>7, <2>9 DEF FdsInv
  <2>14. \A i \in DOMAIN mine', j \in DOMAIN toMain' : mine'[i] # Denied => mine'[i] # toMain'[j]
    BY <2>2, <2>3, <2>9 DEF FdsInv
  <2>15. \A j \in DOMAIN toMain', m \in Returned' : toMain'[j] # Denied => toMain'[j] # sent'[m].of
    BY <2>2, <2>3, <2>7 DEF FdsInv
  <2>. QED
    BY <2>8, <2>10, <2>11, <2>12, <2>13, <2>14, <2>15 DEF FdsInv
<1>. QED
  BY <1>1, <1>2

\* A sequence of at most one element.
LEMMA OneFacts ==
    ASSUME NEW S, NEW s \in Seq(S), Len(s) <= 1, s # <<>>
    PROVE  DOMAIN s = {1} /\ ToSet(s) = {s[1]} /\ s[1] \in S
<1>1. Len(s) = 1 /\ DOMAIN s = 1..1
  <2>1. Len(s) \in Nat \ {0}
    BY EmptySeq
  <2>2. Len(s) = 1
    BY <2>1
  <2>. QED
    BY <2>2, LenProperties
<1>2. DOMAIN s = {1}
  BY <1>1
<1>. QED
  BY <1>1, <1>2, ElementOfSeq DEF ToSet

\* The same, seen from its end: one more at the end of s.
LEMMA MoreFacts ==
    ASSUME NEW S, NEW s \in Seq(S), NEW e \in S
    PROVE  /\ Append(s, e) \in Seq(S) /\ ToSet(Append(s, e)) = ToSet(s) \cup {e}
           /\ \A i \in DOMAIN Append(s, e) :
                \/ i = Len(s) + 1 /\ Append(s, e)[i] = e
                \/ i \in DOMAIN s /\ Append(s, e)[i] = s[i]
<1>. DEFINE a == Append(s, e)
<1>1. /\ a \in Seq(S) /\ Len(s) \in Nat /\ DOMAIN s = 1..Len(s) /\ DOMAIN a = 1..Len(s) + 1
      /\ a[Len(s) + 1] = e /\ \A i \in 1..Len(s) : a[i] = s[i]
  <2>1. a \in Seq(S) /\ Len(a) = Len(s) + 1 /\ a[Len(s) + 1] = e /\ \A i \in 1..Len(s) : a[i] = s[i]
    BY AppendProperties
  <2>. HIDE DEF a
  <2>. QED
    BY <2>1, LenProperties
<1>. HIDE DEF a
<1>2. \A i \in 1..Len(s) + 1 : i = Len(s) + 1 \/ i \in 1..Len(s)
  BY <1>1
<1>3. Len(s) + 1 \in 1..Len(s) + 1 /\ \A i \in 1..Len(s) : i \in 1..Len(s) + 1
  BY <1>1
<1>4. ToSet(a) = ToSet(s) \cup {e}
  BY <1>1, <1>2, <1>3 DEF ToSet
<1>. QED
  BY <1>1, <1>2, <1>4 DEF a

LEMMA AnswerFds ==
    ASSUME TypeInv, SystemdInv, Answer
    PROVE  SystemdInv'
<1>1. UNCHANGED <<helper, sent, held, ended, child, full>> /\ toMain' = <<>> /\ main' = "idle"
  BY DEF Answer, lockVars
<1>. SUFFICES ASSUME helper = SYSTEMD, ~full, child # "dead" PROVE RequestInv' /\ FdsInv'
  BY <1>1 DEF SystemdInv
<1>2. RequestInv /\ FdsInv /\ toMain # <<>>
  BY DEF SystemdInv, Answer
<1>3. Pending' = Pending /\ Outstanding' = Outstanding /\ Returned' = Returned
  BY <1>1 DEF Pending, Outstanding, Returned
<1>4. Outstanding = {}
  BY <1>2 DEF RequestInv
<1>5. RequestInv'
  <2>1. Len(toMain') <= 1
    BY <1>1
  <2>. QED
    BY <1>1, <1>3, <1>4, <2>1 DEF RequestInv
<1>6. toMain \in Seq({Denied} \cup 1..opened) /\ mine \in Seq(Int) /\ {Denied} \cup 1..opened \subseteq Int
  BY DEF TypeInv, TypeOK, Denied
<1>7. DOMAIN toMain = {1} /\ ToSet(toMain) = {toMain[1]} /\ toMain[1] \in Int
  BY <1>2, <1>6, OneFacts DEF RequestInv
<1>8. mine' = Append(mine, toMain[1])
  BY <1>2 DEF Answer
<1>9. /\ ToSet(mine') = ToSet(mine) \cup {toMain[1]}
      /\ \A i \in DOMAIN mine' : \/ i = Len(mine) + 1 /\ mine'[i] = toMain[1]
                                 \/ i \in DOMAIN mine /\ mine'[i] = mine[i]
  BY <1>6, <1>7, <1>8, MoreFacts
<1>10. DOMAIN toMain' = {} /\ ToSet(toMain') = {}
  <2>1. DOMAIN toMain' = 1..0
    BY <1>1
  <2>. QED
    BY <1>1, <2>1 DEF ToSet
<1>11. held' = (ToSet(mine') \cup ToSet(toMain') \cup {sent'[m].of : m \in Returned'}) \ {Denied}
  BY <1>1, <1>2, <1>3, <1>7, <1>9, <1>10 DEF FdsInv
<1>12. \A i, j \in DOMAIN mine' : mine'[i] = mine'[j] /\ mine'[i] # Denied => i = j
  BY <1>2, <1>7, <1>9 DEF FdsInv
<1>13. \A i \in DOMAIN mine', m \in Returned' : mine'[i] # Denied => mine'[i] # sent'[m].of
  BY <1>1, <1>2, <1>3, <1>7, <1>9 DEF FdsInv
<1>14. \A l, m \in Returned' : sent'[l].of = sent'[m].of /\ sent'[l].of # Denied => l = m
  BY <1>1, <1>2, <1>3 DEF FdsInv
<1>. QED
  BY <1>5, <1>10, <1>11, <1>12, <1>13, <1>14 DEF FdsInv

\* A release is known by its lack of tabs, and anything with names by them.
LEMMA TabsFacts ==
    ASSUME NEW msg \in Seq(Cell)
    PROVE  /\ (\A k \in DOMAIN msg : msg[k].text = "digit") => Tabs(msg) = 0
           /\ (\E k \in DOMAIN msg : msg[k].text = "names") => Tabs(msg) # 0
<1>. DEFINE A == {k \in DOMAIN msg : msg[k].text \in {"tab", "tab+blo"}}
            B == {k \in DOMAIN msg : msg[k].text = "names"}
<1>1. IsFiniteSet(A) /\ IsFiniteSet(B)
  <2>1. DOMAIN msg = 1..Len(msg) /\ Len(msg) \in Nat
    BY LenProperties
  <2>2. IsFiniteSet(DOMAIN msg)
    BY <2>1, FS_Interval
  <2>. QED
    BY <2>2, FS_Subset
<1>2. Tabs(msg) = Cardinality(A) + 2 * Cardinality(B)
  BY DEF Tabs
<1>3. (\A k \in DOMAIN msg : msg[k].text = "digit") => A = {} /\ B = {}
  OBVIOUS
<1>4. (\E k \in DOMAIN msg : msg[k].text = "names") => B # {}
  OBVIOUS
<1>. HIDE DEF A, B
<1>5. /\ Cardinality(A) \in Nat /\ Cardinality(B) \in Nat
      /\ A = {} => Cardinality(A) = 0
      /\ B = {} <=> Cardinality(B) = 0
  BY <1>1, FS_CardinalityType, FS_EmptySet
<1>. QED
  BY <1>2, <1>3, <1>4, <1>5

\* What is under way once the first line of it has been worked off.
LEMMA PendingHandle ==
    ASSUME TypeInv, StreamInv, WholeInv, HandleMsg, ~full
    PROVE  LET n == Len(ended) + 1
           IN  /\ n \in Pending /\ Pending' = Pending \ {n}
               /\ n \in 1..Len(sent) /\ DOMAIN sent = 1..Len(sent)
<1>. DEFINE n == Len(ended) + 1
<1>1. n \in 1..Len(sent) /\ HasLine(buf) /\ buf[Len(FirstLine(buf)) + 1].line = n
  BY WholeMessage DEF HandleMsg
<1>2. ended' = Append(ended, n) /\ sent' = sent
  BY <1>1 DEF HandleMsg
<1>3. /\ ended \in Seq(1..MaxLines) /\ Len(ended) \in Nat /\ Len(sent) \in Nat
      /\ DOMAIN sent = 1..Len(sent)
  BY LenProperties DEF TypeInv, TypeOK
<1>4. Len(ended') = n
  BY <1>2, <1>3
<1>5. n + 1..Len(sent) = (n..Len(sent)) \ {n}
  BY <1>1, <1>3
<1>. QED
  BY <1>1, <1>2, <1>3, <1>4, <1>5 DEF Pending

LEMMA HandleFds ==
    ASSUME TypeInv, StreamInv, WholeInv, SentInv, SystemdInv, HandleMsg
    PROVE  SystemdInv'
<1>1. UNCHANGED <<helper, main, mine, sent, full>> /\ child = "handling"
  BY DEF HandleMsg
<1>. SUFFICES ASSUME helper = SYSTEMD, ~full, child' # "dead" PROVE RequestInv' /\ FdsInv'
  BY <1>1 DEF SystemdInv
<1>. DEFINE n == Len(ended) + 1
            t == Shapes[sent[n].shape]
            msg == FirstLine(buf)
<1>2. RequestInv /\ FdsInv
  BY <1>1 DEF SystemdInv
<1>3. n \in Pending /\ Pending' = Pending \ {n} /\ n \in 1..Len(sent) /\ DOMAIN sent = 1..Len(sent)
  BY PendingHandle
<1>4. /\ msg \in Seq(Cell) /\ Len(msg) = Len(t) /\ Texts(msg) = t
      /\ \A k \in 1..Len(t) : msg[k] = [line |-> n, text |-> t[k]]
  BY <1>1, WholeMessage
<1>5. HandleRequest(msg) \/ HandleRelease(msg) \/ HandleOther(msg)
  BY DEF HandleMsg, HandleName, SYSTEMD, KERNEL
<1>6. sent[n].shape \in Requests \cup {"release"}
  <2>1. sent[n].shape \in ShapesOf[helper]
    BY <1>3 DEF SentInv
  <2>. QED
    BY <2>1 DEF ShapesOf
<1>. HIDE DEF n, msg
<1>7. Outstanding' = Outstanding \ {n} /\ Returned' = Returned \ {n}
  BY <1>1, <1>3 DEF Outstanding, Returned
<1>8. /\ toMain \in Seq({Denied} \cup 1..opened) /\ held \subseteq 1..opened /\ opened \in Nat
      /\ mine \in Seq(Int)
  BY DEF TypeInv, TypeOK
<1>9. CASE sent[n].shape \in Requests
  <2>1. n \in Outstanding /\ n \notin Returned
    BY <1>3, <1>9 DEF Outstanding, Returned, Requests
  <2>2. Outstanding' = {} /\ Returned' = Returned /\ toMain = <<>> /\ main # "idle"
    BY <1>2, <1>7, <2>1 DEF RequestInv
  <2>3. Tabs(msg) # 0
    <3>1. 1 \in 1..Len(t) /\ t[1] = "names"
      <4>1. \/ t = <<"names", "tab+blo", "ck">>
            \/ t = <<"names", "text", "text", "tab+blo", "ck">>
            \/ t = <<"names", "tab", "tab+blo", "ck">>
        BY <1>9 DEF Requests, Shapes
      <4>2. Len(t) \in {3, 4, 5} /\ t[1] = "names"
        <5>1. CASE t = <<"names", "tab+blo", "ck">>
          BY <5>1
        <5>2. CASE t = <<"names", "text", "text", "tab+blo", "ck">>
          BY <5>2
        <5>3. CASE t = <<"names", "tab", "tab+blo", "ck">>
          BY <5>3
        <5>. QED
          BY <4>1, <5>1, <5>2, <5>3, Zenon
      <4>. QED
        BY <4>2
    <3>2. 1 \in DOMAIN msg
      BY <1>4, <3>1, LenProperties
    <3>3. msg[1].text = "names"
      <4>1. msg[1] = [line |-> n, text |-> t[1]]
        BY <1>4, <3>1, Zenon
      <4>. QED
        BY <3>1, <4>1
    <3>. QED
      BY <1>4, <3>2, <3>3, TabsFacts
  <2>4. ~HandleRelease(msg)
    BY <2>3 DEF HandleRelease
  <2>5. CASE Granted
    <3>1. opened' = opened + 1 /\ held' = held \cup {opened + 1} /\ toMain' = <<opened + 1>>
      BY <2>2, <2>5 DEF Granted
    <3>2. DOMAIN toMain' = {1} /\ toMain'[1] = opened + 1 /\ ToSet(toMain') = {opened + 1} /\ Len(toMain') = 1
      <4>1. Len(toMain') = 1 /\ toMain'[1] = opened + 1 /\ DOMAIN toMain' = 1..1
        BY <3>1
      <4>2. 1..1 = {1}
        OBVIOUS
      <4>. QED
        BY <4>1, <4>2 DEF ToSet
    <3>3. RequestInv'
      BY <1>1, <2>2, <3>2 DEF RequestInv
    <3>4. opened + 1 \notin held /\ opened + 1 # Denied
      BY <1>8 DEF Denied
    <3>5. ToSet(toMain) = {}
      <4>1. DOMAIN toMain = 1..0
        BY <2>2
      <4>. QED
        BY <4>1 DEF ToSet
    <3>6. held = (ToSet(mine) \cup {sent[m].of : m \in Returned}) \ {Denied}
      BY <1>2, <3>5 DEF FdsInv
    <3>7. /\ \A i \in DOMAIN mine : mine[i] # opened + 1
          /\ \A m \in Returned : sent[m].of # opened + 1
      BY <3>4, <3>6 DEF ToSet
    <3>8. held' = (ToSet(mine) \cup ToSet(toMain') \cup {sent[m].of : m \in Returned}) \ {Denied}
      BY <3>1, <3>2, <3>4, <3>6
    <3>. HIDE DEF t
    <3>9. FdsInv'
      BY <1>1, <1>2, <2>2, <3>2, <3>7, <3>8 DEF FdsInv
    <3>. QED
      BY <3>3, <3>9
  <2>6. CASE Refused
    <3>1. toMain' = <<Denied>> /\ held' = held
      BY <2>2, <2>6 DEF Refused
    <3>2. DOMAIN toMain' = {1} /\ toMain'[1] = Denied /\ ToSet(toMain') = {Denied} /\ Len(toMain') = 1
      <4>1. Len(toMain') = 1 /\ toMain'[1] = Denied /\ DOMAIN toMain' = 1..1
        BY <3>1
      <4>2. 1..1 = {1}
        OBVIOUS
      <4>. QED
        BY <4>1, <4>2 DEF ToSet
    <3>3. RequestInv'
      BY <1>1, <2>2, <3>2 DEF RequestInv
    <3>4. ToSet(toMain) = {}
      <4>1. DOMAIN toMain = 1..0
        BY <2>2
      <4>. QED
        BY <4>1 DEF ToSet
    <3>5. held' = (ToSet(mine) \cup ToSet(toMain') \cup {sent[m].of : m \in Returned}) \ {Denied}
      BY <1>2, <3>1, <3>2, <3>4 DEF FdsInv
    <3>6. FdsInv'
      BY <1>1, <1>2, <2>2, <3>2, <3>5 DEF FdsInv
    <3>. QED
      BY <3>3, <3>6
  <2>7. CASE HandleOther(msg)
    <3>1. UNCHANGED <<toMain, held>>
      BY <2>7 DEF HandleOther, lockVars
    <3>2. RequestInv'
      BY <1>1, <1>2, <2>2, <3>1 DEF RequestInv
    <3>3. FdsInv'
      BY <1>1, <1>2, <2>2, <3>1 DEF FdsInv
    <3>. QED
      BY <3>2, <3>3
  <2>. QED
    BY <1>5, <2>4, <2>5, <2>6, <2>7 DEF HandleRequest, Dies
<1>10. CASE sent[n].shape = "release"
  <2>. DEFINE fd == sent[n].of
  <2>1. t = <<"digit", "digit">> /\ Len(t) = 2 /\ \A k \in 1..2 : t[k] = "digit"
    <3>1. t = <<"digit", "digit">>
      BY <1>10 DEF Shapes
    <3>2. \A k \in 1..2 : k = 1 \/ k = 2
      OBVIOUS
    <3>. QED
      BY <3>1, <3>2
  <2>2. n \in Returned /\ Outstanding' = Outstanding
    <3>1. n \notin Outstanding
      BY <1>10 DEF Outstanding, Requests
    <3>. QED
      BY <1>3, <1>7, <1>10, <3>1 DEF Returned
  <2>3. DOMAIN msg = 1..2 /\ Len(msg) = 2 /\ msg # <<>>
    <3>1. Len(msg) = 2
      BY <1>4, <2>1
    <3>2. DOMAIN msg = 1..Len(msg)
      BY <1>4, LenProperties
    <3>3. msg # <<>>
      BY <3>1
    <3>. QED
      BY <3>1, <3>2, <3>3
  <2>. HIDE DEF t
  <2>4. \A k \in 1..2 : msg[k].text = "digit" /\ msg[k].line = n
    <3>. TAKE k \in 1..2
    <3>1. msg[k] = [line |-> n, text |-> t[k]]
      BY <1>4, <2>1, Zenon
    <3>. QED
      BY <2>1, <3>1
  <2>5. Tabs(msg) = 0
    BY <1>4, <2>3, <2>4, TabsFacts
  <2>6. HandleRelease(msg)
    BY <1>5, <2>3, <2>5 DEF HandleRequest, HandleOther
  <2>7. IsPrefix(<<"digit", "digit">>, Texts(msg))
    BY <1>4, <2>1 DEF IsPrefix
  <2>8. held' = held \ {fd} /\ toMain' = toMain
    <3>1. msg[1].line = n
      BY <2>4
    <3>. QED
      BY <2>6, <2>7, <3>1 DEF HandleRelease
  <2>9. RequestInv'
    BY <1>1, <1>2, <2>2, <2>8 DEF RequestInv
  <2>10. /\ held = (ToSet(mine) \cup ToSet(toMain) \cup {sent[m].of : m \in Returned}) \ {Denied}
         /\ \A l, m \in Returned : sent[l].of = sent[m].of /\ sent[l].of # Denied => l = m
         /\ \A i \in DOMAIN mine, m \in Returned : mine[i] # Denied => mine[i] # sent[m].of
         /\ \A j \in DOMAIN toMain, m \in Returned : toMain[j] # Denied => toMain[j] # sent[m].of
    BY <1>2 DEF FdsInv
  <2>11. \A x : x # Denied /\ x = fd => x \notin ToSet(mine) /\ x \notin ToSet(toMain)
    BY <2>2, <2>10 DEF ToSet
  <2>12. \A x : x # Denied => ((x \in {sent[m].of : m \in Returned} /\ x # fd)
                                <=> x \in {sent[m].of : m \in Returned \ {n}})
    BY <2>2, <2>10
  <2>13. held' = (ToSet(mine) \cup ToSet(toMain) \cup {sent[m].of : m \in Returned \ {n}}) \ {Denied}
    BY <2>8, <2>10, <2>11, <2>12
  <2>14. FdsInv'
    BY <1>1, <1>2, <1>7, <2>8, <2>13 DEF FdsInv
  <2>. QED
    BY <2>9, <2>14
<1>. QED
  BY <1>6, <1>9, <1>10

LEMMA SystemdNext ==
    TypeInv /\ StreamInv /\ WholeInv /\ SentInv /\ SystemdInv /\ [Next]_vars => SystemdInv'
<1>. SUFFICES ASSUME TypeInv, StreamInv, WholeInv, SentInv, SystemdInv, [Next]_vars
              PROVE  SystemdInv'
  OBVIOUS
<1>1. CASE /\ UNCHANGED <<helper, sent, mine, held, toMain, ended>> /\ (full' = FALSE => full = FALSE)
           /\ child' # "dead" => child # "dead"
           /\ main' = main \/ main' # "idle"
  BY <1>1 DEF SystemdInv, RequestInv, FdsInv, Outstanding, Returned, Pending, TypeInv, TypeOK
<1>2. CASE Sigint \/ Exit \/ UNCHANGED vars
  BY <1>1, <1>2 DEF Sigint, Exit, vars, lockVars
<1>3. CASE ChildExits
  BY <1>3 DEF ChildExits, Dies, SystemdInv
<1>4. CASE Read
  <2>1. UNCHANGED <<helper, main, sent, mine, held, toMain, ended>> /\ child = "reading"
    BY <1>4, ReadFacts DEF lockVars
  <2>2. full' = full \/ \E n \in 1..Len(toHelper) : full' = (full \/ n = BufSize)
    BY <1>4, ReadFacts DEF Takes
  <2>. QED
    BY <1>1, <2>1, <2>2 DEF TypeInv, TypeOK
<1>. QED
  BY <1>2, <1>3, <1>4, InhibitFds, UnInhibitFds, AnswerFds, HandleFds DEF Next, Daemon, Helper

----------------------------------------------------------------------------
(* What is held is what was asked for                                      *)

LEMMA Quiescent ==
    ASSUME TypeInv, StreamInv, toHelper = <<>>, buf = <<>>
    PROVE  Len(ended) = Len(sent) /\ Pending = {}
<1>1. DOMAIN toHelper = 1..0 /\ DOMAIN buf = 1..0
  OBVIOUS
<1>2. Len(ended) \in Nat /\ Len(sent) \in Nat /\ Len(ended) <= Len(sent)
  BY LenProperties DEF TypeInv, TypeOK, StreamInv
<1>3. Len(ended) + 1..Len(sent) = {}
  BY <1>1 DEF StreamInv
<1>4. Len(sent) \notin Len(ended) + 1..Len(sent)
  BY <1>3
<1>. QED
  BY <1>2, <1>3, <1>4 DEF Pending

LEMMA AsAsked == PipeInv => HoldsAsAsked
<1>. SUFFICES ASSUME PipeInv, toHelper = <<>>, buf = <<>>, toMain = <<>>, child = "reading", ~full
              PROVE  IF helper = SYSTEMD THEN held = ToSet(mine) \ {NoFd, Denied}
                     ELSE wake = {<<n, <<"name", "name">> >> : n \in ToSet(mine)}
  BY DEF HoldsAsAsked
<1>1. Len(ended) = Len(sent) /\ Pending = {}
  BY Quiescent DEF PipeInv
<1>2. CASE helper = SYSTEMD
  <2>1. Returned = {}
    BY <1>1 DEF Returned
  <2>2. ToSet(toMain) = {}
    <3>1. DOMAIN toMain = 1..0
      OBVIOUS
    <3>. QED
      BY <3>1 DEF ToSet
  <2>3. held = ToSet(mine) \ {Denied}
    BY <1>2, <2>1, <2>2 DEF PipeInv, SystemdInv, FdsInv
  <2>4. NoFd \notin held
    BY DEF PipeInv, TypeInv, TypeOK, NoFd
  <2>. QED
    BY <1>2, <2>3, <2>4
<1>3. CASE helper # SYSTEMD
  <2>1. helper = KERNEL
    BY <1>3, HelpersAssumption DEF PipeInv, TypeInv, TypeOK
  <2>. QED
    BY <1>1, <1>3, <2>1 DEF PipeInv, KernelInv
<1>. QED
  BY <1>2, <1>3

\* When all lines were worked off, a helper holds the locks that uinhibitd knows of
\* and no other, as long as no read has filled the buffer: of logind the descriptors,
\* of the kernel the names (handleMsg of SystemdInhibitFork and of
\* LinuxKernelInhibitFork).
THEOREM HoldsWhatWasAsked == Spec => []HoldsAsAsked
<1>1. Init => PipeInv
  BY TypeInit, StreamInit, WholeInit, LocksInit, SystemdInit DEF PipeInv
<1>2. PipeInv /\ [Next]_vars => PipeInv'
  BY TypeNext, StreamNext, WholeNext, LocksNext, SystemdNext DEF PipeInv
<1>. QED
  BY <1>1, <1>2, AsAsked, PTL DEF Spec

=============================================================================
