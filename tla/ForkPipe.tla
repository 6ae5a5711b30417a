------------------------------ MODULE ForkPipe ------------------------------
(***************************************************************************)
(* A setuid helper process and the two pipes between it and uinhibitd:     *)
(* Fork, NewlineMessageFork, and handleMsg of the helper that asks logind  *)
(* for locks (SystemdInhibitFork) and of the one that writes wake lock     *)
(* files (LinuxKernelInhibitFork).                                         *)
(*                                                                         *)
(* Bytes are grouped into cells where a read may cut a line with a         *)
(* different effect.  What is sent is never cut by the writer, but a read  *)
(* takes at most a buffer full.  The loop of the helper calls handleMsg    *)
(* with whatever it has: with a part of a line too, which it keeps, so     *)
(* that the whole line is handled again.                                   *)
(***************************************************************************)
EXTENDS Integers, SequencesExt

CONSTANTS
    Helpers,    \* which of the two helpers to look at
    BufSize,    \* the 1024 bytes of a read, in cells
    MaxLines    \* bound on the lines that are sent

VARIABLES
    helper,
    toHelper,   \* cells in the pipe to the helper
    toMain,     \* answers in the pipe from the helper
    buf,        \* buf of doRun
    child,      \* the helper process
    main,       \* the main thread of uinhibitd
    sent,       \* the lines sent so far
    mine,       \* request -> descriptor that main believes the helper holds for it
    held,       \* descriptors that the helper holds, each of them a lock
    opened,     \* how many descriptors there were
    wake,       \* names in the wake lock file
    ended,      \* history: lines whose end the helper has taken out of buf
    full        \* history: a read filled the buffer

vars == <<helper, toHelper, toMain, buf, child, main, sent, mine, held, opened,
          wake, ended, full>>
lockVars == <<held, opened, wake>>

SYSTEMD == "systemd"
KERNEL == "kernel"

ASSUME HelpersAssumption == Helpers \subseteq {SYSTEMD, KERNEL}
ASSUME SizesAssumption == BufSize \in Nat \ {0} /\ MaxLines \in Nat

\* A line by its cells, but for the newline.  The third tab of a request comes
\* before its mode; a name may hold a tab of its own.
Shapes == [
    request |-> <<"names", "tab+blo", "ck">>,
    long    |-> <<"names", "text", "text", "tab+blo", "ck">>,
    tabbed  |-> <<"names", "tab", "tab+blo", "ck">>,
    release |-> <<"digit", "digit">>,
    lock    |-> <<"name", "name">>,
    unlock  |-> <<"tab", "name", "name">>]

Requests == {"request", "long", "tabbed"}
ShapesOf == [h \in {SYSTEMD, KERNEL} |->
    IF h = SYSTEMD THEN Requests \cup {"release"} ELSE {"lock", "unlock"}]

\* `of' is what a line is about: a descriptor, or the line that took the lock.
Line == [shape : DOMAIN Shapes, of : Int]
Junk == [line |-> 0, text |-> "junk"]
Newline(n) == [line |-> n, text |-> "newline"]
Pieces == {"names", "text", "tab", "tab+blo", "ck", "digit", "name"}
Cell == [line : 1..MaxLines, text : Pieces \cup {"newline"}] \cup {Junk}

\* No descriptors: a lock that was denied, and the answer of a dead helper.
Denied == -1
NoFd == 0

CellsOf(n, shape) ==
    [k \in DOMAIN Shapes[shape] |-> [line |-> n, text |-> Shapes[shape][k]]] \o <<Newline(n)>>

----------------------------------------------------------------------------
(* uinhibitd                                                               *)

\* tx, to a helper that may be dead: write fails (libdbus has SIGPIPE ignored) and
\* the exception ends the handler, which the event loop survives, or handleExit
\* and the process with it.
Tx(line, then) ==
    IF child = "dead"
    THEN /\ main' = IF main = "exiting" THEN "terminated" ELSE "idle"
         /\ UNCHANGED <<toHelper, sent>>
    ELSE /\ main' = then
         /\ sent' = Append(sent, line)
         /\ toHelper' = toHelper \o CellsOf(Len(sent) + 1, line.shape)

\* SystemdInhibitInterface::doInhibit sends a request, and waits;
\* LinuxKernelInhibitInterface::doInhibit sends the name and does not.
DoInhibit(shape) ==
    /\ main = "idle" /\ Len(sent) < MaxLines
    /\ shape \in ShapesOf[helper] \ {"release", "unlock"}
    /\ Tx([shape |-> shape, of |-> Len(sent) + 1], IF helper = SYSTEMD THEN "waiting" ELSE "idle")
    /\ mine' = IF helper = KERNEL /\ child # "dead" THEN Append(mine, Len(sent) + 1) ELSE mine
    /\ UNCHANGED <<helper, toMain, buf, child, lockVars, ended, full>>

\* rx() takes all that there is, and atol the first number in it.  Of a closed
\* pipe there is nothing, which atol takes for 0.
Answer ==
    /\ main = "waiting" /\ (toMain # <<>> \/ child = "dead")
    /\ mine' = IF toMain # <<>> THEN Append(mine, Head(toMain)) ELSE Append(mine, NoFd)
    /\ toMain' = <<>>
    /\ main' = "idle"
    /\ UNCHANGED <<helper, toHelper, buf, child, sent, lockVars, ended, full>>

Freeing(k) == [shape |-> IF helper = SYSTEMD THEN "release" ELSE "unlock", of |-> mine[k]]

\* doUnInhibit, for the hub or for handleExit.
DoUnInhibit(k) ==
    /\ main \in {"idle", "exiting"} /\ Len(sent) < MaxLines
    /\ Tx(Freeing(k), main)
    /\ mine' = IF child = "dead" THEN mine ELSE RemoveAt(mine, k)
    /\ UNCHANGED <<helper, toMain, buf, child, lockVars, ended, full>>

\* SIGINT: handleExit frees all that is in a plan, one after the other.
Sigint ==
    /\ main \in {"idle", "waiting"} /\ Len(sent) + Len(mine) <= MaxLines
    /\ main' = "exiting"
    /\ UNCHANGED <<helper, toHelper, toMain, buf, child, sent, mine, lockVars, ended, full>>

Exit ==
    /\ main = "exiting" /\ mine = <<>>
    /\ main' = "exited"
    /\ UNCHANGED <<helper, toHelper, toMain, buf, child, sent, mine, lockVars, ended, full>>

----------------------------------------------------------------------------
(* The helper                                                              *)

Dies == child' = "dead" /\ held' = {}

\* It exits a second after a SIGINT, which a terminal sends to both, or when it
\* notices that it is orphaned.
ChildExits ==
    /\ child # "dead" /\ main \in {"exiting", "exited", "terminated"}
    /\ Dies
    /\ UNCHANGED <<helper, toHelper, toMain, buf, main, sent, mine, opened, wake, ended, full>>

HasLine(b) == \E k \in DOMAIN b : b[k].text = "newline"

\* Mutant: rx is called in every turn.
MutantNeedsRead(b) == TRUE

\* rx is called only when there is no line in buf.
NeedsRead(b) == ~HasLine(b)

\* rx: of a buffer that is full the end is not marked, and what follows it in
\* memory may be taken along.  (Should there be a newline in that, the line
\* would end there; this is left out.)
Read ==
    /\ child = "reading"
    /\ IF ~NeedsRead(buf) THEN UNCHANGED <<buf, toHelper, full>>
       ELSE /\ toHelper # <<>>
            /\ LET n == IF Len(toHelper) < BufSize THEN Len(toHelper) ELSE BufSize
               IN  /\ toHelper' = SubSeq(toHelper, n + 1, Len(toHelper))
                   /\ full' = (full \/ n = BufSize)
                   /\ \E junk \in {<<>>} \cup (IF n = BufSize THEN {<<Junk>>} ELSE {}) :
                        buf' = buf \o SubSeq(toHelper, 1, n) \o junk
    /\ child' = "handling"
    /\ UNCHANGED <<helper, toMain, main, sent, mine, lockVars, ended>>

\* The line doRun takes from buf, or all of it when there is no newline.
FirstLine(b) ==
    IF HasLine(b)
    THEN SubSeq(b, 1, (CHOOSE k \in DOMAIN b : b[k].text = "newline"
                            /\ \A j \in 1..k - 1 : b[j].text # "newline") - 1)
    ELSE b

Texts(msg) == [k \in DOMAIN msg |-> msg[k].text]

\* Two tabs are in the names of a request, one comes with its mode.
Tabs(msg) ==
    Cardinality({k \in DOMAIN msg : msg[k].text \in {"tab", "tab+blo"}})
        + 2 * Cardinality({k \in DOMAIN msg : msg[k].text = "names"})

\* Mutant: a refused lock is not answered.
MutantRefused == UNCHANGED <<toMain, held, opened>>

\* Mutant: the refusal is kept as if it were a descriptor.
MutantRefusedKept == toMain' = Append(toMain, Denied) /\ held' = held \cup {Denied} /\ UNCHANGED opened

\* Logind denied the lock, and once more without `sleep' in it.
Refused == toMain' = Append(toMain, Denied) /\ UNCHANGED <<held, opened>>

Granted ==
    /\ opened' = opened + 1
    /\ held' = held \cup {opened'}
    /\ toMain' = Append(toMain, opened')

\* SystemdInhibitFork::handleMsg, three tabs.  Logind refuses a mode it does not
\* know; that or no answer ends the helper.
HandleRequest(msg) ==
    /\ helper = SYSTEMD /\ Tabs(msg) = 3
    /\ \/ /\ IsSuffix(<<"tab+blo", "ck">>, Texts(msg))
          /\ Granted \/ Refused
          /\ child' = "reading"
       \/ Dies /\ UNCHANGED <<toMain, opened>>
    /\ UNCHANGED wake

\* No tab: the number of a descriptor, as far as it goes.  A number cut short is
\* that of some other descriptor.
HandleRelease(msg) ==
    /\ helper = SYSTEMD /\ Tabs(msg) = 0 /\ msg # <<>>
    /\ \E fd \in IF IsPrefix(<<"digit", "digit">>, Texts(msg)) THEN {sent[msg[1].line].of}
                 ELSE held \cup {NoFd} :
            held' = held \ {fd}
    /\ child' = "reading"
    /\ UNCHANGED <<toMain, opened, wake>>

\* Any other number of tabs, or nothing at all.
HandleOther(msg) ==
    /\ helper = SYSTEMD /\ (Tabs(msg) \notin {0, 3} \/ msg = <<>>)
    /\ child' = "reading"
    /\ UNCHANGED <<toMain, lockVars>>

IsUnlock(msg) == msg # <<>> /\ msg[1].text = "tab"

\* Mutant: the tab is left in the name.
MutantNameIn(msg) == msg

\* msg.erase(0,1)
NameIn(msg) == IF IsUnlock(msg) THEN Tail(msg) ELSE msg

\* LinuxKernelInhibitFork::handleMsg, with or without a tab in front.
HandleName(msg) ==
    /\ helper = KERNEL
    /\ LET name == NameIn(msg)
           entry == <<(IF name[1] = Junk THEN 0 ELSE sent[name[1].line].of), Texts(name)>>
       IN  wake' = IF name = <<>> THEN wake
                   ELSE IF IsUnlock(msg) THEN wake \ {entry} ELSE wake \cup {entry}
    /\ child' = "reading"
    /\ UNCHANGED <<toMain, held, opened>>

\* Mutant: the line is taken out of buf without its newline.
MutantRest(b) == SubSeq(b, Len(FirstLine(b)) + 1, Len(b))

\* buf once a line with its newline has been taken out.
Rest(b) == SubSeq(b, Len(FirstLine(b)) + 2, Len(b))

\* One turn of doRun, after rx.
HandleMsg ==
    /\ child = "handling"
    /\ LET msg == FirstLine(buf)
       IN  HandleRequest(msg) \/ HandleRelease(msg) \/ HandleOther(msg) \/ HandleName(msg)
    /\ IF HasLine(buf)
       THEN /\ buf' = Rest(buf)
            /\ ended' = Append(ended, buf[Len(FirstLine(buf)) + 1].line)
       ELSE UNCHANGED <<buf, ended>>
    /\ UNCHANGED <<helper, toHelper, main, sent, mine, full>>

----------------------------------------------------------------------------
Init ==
    /\ helper \in Helpers
    /\ toHelper = <<>> /\ toMain = <<>> /\ buf = <<>>
    /\ child = "reading" /\ main = "idle"
    /\ sent = <<>> /\ mine = <<>>
    /\ held = {} /\ opened = 0 /\ wake = {}
    /\ ended = <<>> /\ full = FALSE

Daemon ==
    \/ \E shape \in DOMAIN Shapes : DoInhibit(shape)
    \/ \E k \in DOMAIN mine : DoUnInhibit(k)
    \/ Sigint \/ Exit

Helper == Read \/ HandleMsg

Next == Daemon \/ Answer \/ Helper \/ ChildExits

Spec == Init /\ [][Next]_vars

\* The two processes run.  Nothing obliges the daemon to send a line.
FairSpec == Spec /\ WF_vars(Helper) /\ WF_vars(Answer)

----------------------------------------------------------------------------
(* Properties                                                              *)

\* The types of the variables.
TypeOK ==
    /\ helper \in Helpers
    /\ toHelper \in Seq(Cell) /\ buf \in Seq(Cell)
    /\ toMain \in Seq({Denied} \cup 1..opened)
    /\ child \in {"reading", "handling", "dead"}
    /\ main \in {"idle", "waiting", "exiting", "exited", "terminated"}
    /\ sent \in Seq(Line)
    /\ mine \in Seq(Int) /\ held \subseteq 1..opened
    /\ opened \in Nat
    /\ ended \in Seq(1..MaxLines)
    /\ full \in BOOLEAN

Lines == INSTANCE LineChannel
    WITH posted <- [n \in DOMAIN sent |-> n], handled <- ended

\* Whatever the reads cut a line into, and whatever is handled besides, the
\* lines are worked off whole: once each and in the order they were sent.
KeepsLines == Lines!Channel

\* Every line is worked off in the end, unless the helper dies or exits.
AllEnded == \A n \in 1..MaxLines : Len(sent) >= n ~> Len(ended) >= n \/ child = "dead"

\* doInhibit, on the main thread, does not wait for ever: each request brings
\* an answer or the end of the helper, unless a name has a tab in it.
Answered ==
    main = "waiting" /\ Last(sent).shape # "tabbed" ~> main # "waiting"

\* When all lines were worked off and all answers read, the helper holds the
\* locks that uinhibitd knows of and no other, as long as no read filled the
\* buffer.  (An answer is not read when SIGINT came while it was waited for.)
HoldsAsAsked ==
    /\ toHelper = <<>> /\ buf = <<>> /\ toMain = <<>>
    /\ child = "reading" /\ ~full
    =>
        IF helper = SYSTEMD THEN held = ToSet(mine) \ {NoFd, Denied}
        ELSE wake = {<<n, <<"name", "name">> >> : n \in ToSet(mine)}

\* include/Fork.hpp: what handleMsg is given "Will always be exactly one line.
\* Excludes the newline."
HandledWhole ==
    [][child = "handling" /\ child' # "handling" /\ main \in {"idle", "waiting"} =>
        HasLine(buf) /\ \E n \in DOMAIN sent : Texts(FirstLine(buf)) = Shapes[sent[n].shape]]_vars

=============================================================================
