------------------------------- MODULE Mailbox -------------------------------
(***************************************************************************)
(* The mailboxes of mbox.c: registers the program posts an address to, and *)
(* a host thread behind each, which a signal wakes.                        *)
(*                                                                         *)
(* The main thread clocks the 6502, and so makes the program's writes, or  *)
(* is inside mbox_init; the program stands still for as long as it is.     *)
(* The mailbox threads run beside it.  A program may initialise again: the *)
(* threads of the earlier call live on, and a thread is therefore named by *)
(* its mailbox and the number of the call that created it.                 *)
(*                                                                         *)
(* The signal is blocked in every thread, so that it stays pending until   *)
(* the thread takes it with sigwait, and one that is pending already is    *)
(* not queued again (POSIX, external).                                     *)
(***************************************************************************)
EXTENDS Naturals

CONSTANTS BoxCount,  \* the number of mailboxes, 4 in the code
          Bytes,     \* the bytes the program posts
          MaxInits   \* bound: how often the program calls mbox_init

ASSUME BoxCountAssumption == BoxCount \in Nat \ {0}
ASSUME MaxInitsAssumption == MaxInits \in Nat \ {0}
ASSUME BytesAssumption    == Bytes \subseteq 0 .. 255 /\ 0 \in Bytes

VARIABLES main,       \* where the main thread is: see MainPlaces
          box,        \* the mailbox mbox_init creates, or waits for
          inits,      \* how often mbox_init has been called
          inited,     \* what the last call has returned
          installed,  \* whether the handlers are installed
          sigset,     \* whether fSigSet holds the signal
          stopped,    \* mbox*_stopped
          addr,       \* mbox*_addr, as <<low, high>>
          thread,     \* mboxThread*: the call that created it, or see NoThread
          pc,         \* where each mailbox thread is: see ThreadPlaces
          pending,    \* the threads the signal is pending for
          posting     \* the low bytes the program has written, before the high

vars == <<main, box, inits, inited, installed, sigset, stopped, addr, thread,
          pc, pending, posting>>
registers == <<stopped, addr, thread, pc, pending>>

Boxes   == 0 .. BoxCount - 1
Threads == Boxes \X (1 .. MaxInits)

MainPlaces   == {"running", "setting", "creating", "waiting", "undefined"}
ThreadPlaces == {"none", "started", "stopped", "sigwait", "deaf", "woken"}

NoThread  == 0              \* mboxThread* before the first call
Undefined == MaxInits + 1   \* and after a pthread_create that failed
NoByte    == 256
NoPost    == [i \in Boxes |-> NoByte]

MailboxTypeOK ==
    /\ main \in MainPlaces
    /\ box \in Boxes
    /\ inits \in 0 .. MaxInits
    /\ inited \in {"never", "running", "ok", "failed"}
    /\ installed \in BOOLEAN
    /\ sigset \in BOOLEAN
    /\ stopped \in [Boxes -> BOOLEAN]
    /\ addr \in [Boxes -> Bytes \X Bytes]
    /\ thread \in [Boxes -> NoThread .. Undefined]
    /\ pc \in [Threads -> ThreadPlaces]
    /\ pending \subseteq Threads
    /\ posting \in [Boxes -> Bytes \cup {NoByte}]

MailboxInit ==
    /\ main = "running" /\ box = 0
    /\ inits = 0 /\ inited = "never"
    /\ installed = FALSE
    /\ sigset = FALSE
    /\ stopped = [i \in Boxes |-> FALSE]
    /\ addr = [i \in Boxes |-> <<0, 0>>]
    /\ thread = [i \in Boxes |-> NoThread]
    /\ pc = [t \in Threads |-> "none"]
    /\ pending = {}
    /\ posting = NoPost

-----------------------------------------------------------------------------
\* mbox_init: the set of signals is emptied, and filled again.  A program that
\* initialises again gives up what it was about to post.
InitCalled ==
    /\ main = "running" /\ inits < MaxInits
    /\ main' = "setting"
    /\ inits' = inits + 1
    /\ inited' = "running"
    /\ sigset' = FALSE
    /\ posting' = NoPost
    /\ UNCHANGED <<box, installed, registers>>

\* The signal is added, and blocked; the handlers are installed.
SigsetFilled ==
    /\ main = "setting"
    /\ main' = "creating" /\ box' = 0
    /\ sigset' = TRUE
    /\ installed' = TRUE
    /\ UNCHANGED <<inits, inited, posting, registers>>

\* Mutant: the mailbox is not reset for the second loop.
NextBox_noReset(place) ==
    IF box < BoxCount - 1
    THEN box' = box + 1 /\ UNCHANGED main
    ELSE box' = box + 1 /\ main' = place

\* On to the next mailbox or, after the last, to another place.
NextBox(place) ==
    IF box < BoxCount - 1
    THEN box' = box + 1 /\ UNCHANGED main
    ELSE box' = 0 /\ main' = place

ThreadCreated ==
    /\ main = "creating"
    /\ thread' = [thread EXCEPT ![box] = inits]
    /\ pc' = [pc EXCEPT ![<<box, inits>>] = "started"]
    /\ NextBox("waiting")
    /\ UNCHANGED <<inits, inited, installed, sigset, stopped, addr, pending, posting>>

\* Mutant: the error is printed and the call goes on.
CreateFailed_goesOn ==
    /\ main = "creating"
    /\ thread' = [thread EXCEPT ![box] = Undefined]
    /\ NextBox("waiting")
    /\ UNCHANGED <<inits, inited, installed, sigset, stopped, addr, pc, pending, posting>>

\* pthread_create fails: mbox_init returns -1, and leaves the handlers
\* installed and the threads before this one running.
CreateFailed ==
    /\ main = "creating"
    /\ thread' = [thread EXCEPT ![box] = Undefined]
    /\ main' = "running" /\ box' = 0
    /\ inited' = "failed"
    /\ UNCHANGED <<inits, installed, sigset, stopped, addr, pc, pending, posting>>

\* Mutant: nobody waits for the threads to stop.
StoppedSeen_noWait ==
    /\ main = "waiting"
    /\ NextBox("running")
    /\ inited' = IF box = BoxCount - 1 THEN "ok" ELSE inited
    /\ UNCHANGED <<inits, installed, sigset, posting, registers>>

\* while(!mbox*_stopped), one after the other; then mbox_init returns 0.
StoppedSeen ==
    /\ main = "waiting"
    /\ stopped[box]
    /\ NextBox("running")
    /\ inited' = IF box = BoxCount - 1 THEN "ok" ELSE inited
    /\ UNCHANGED <<inits, installed, sigset, posting, registers>>

MboxInit == InitCalled \/ SigsetFilled \/ ThreadCreated \/ CreateFailed \/ StoppedSeen

-----------------------------------------------------------------------------
\* mbox_mem_io_write, which the program reaches once the handlers are installed.
\* It writes a word, low byte first.
WriteLow(i, b) ==
    /\ main = "running" /\ installed
    /\ IF stopped[i]
       THEN addr' = [addr EXCEPT ![i][1] = b]
       ELSE UNCHANGED addr
    /\ posting' = [posting EXCEPT ![i] = b]
    /\ UNCHANGED <<main, box, inits, inited, installed, sigset,
                   stopped, thread, pc, pending>>

\* pthread_kill.  A thread handle nobody has filled in is undefined behaviour.
Kick(i) ==
    IF thread[i] \in 1 .. MaxInits
    THEN pending' = pending \cup {<<i, thread[i]>>} /\ UNCHANGED main
    ELSE main' = "undefined" /\ UNCHANGED pending

WriteHigh(i, b) ==
    /\ main = "running" /\ installed
    /\ posting[i] # NoByte
    /\ IF stopped[i]
       THEN addr' = [addr EXCEPT ![i][2] = b] /\ Kick(i)
       ELSE UNCHANGED <<addr, main, pending>>
    /\ posting' = [posting EXCEPT ![i] = NoByte]
    /\ UNCHANGED <<box, inits, inited, installed, sigset, stopped, thread, pc>>

-----------------------------------------------------------------------------
\* Mutant: the thread is marked as stopped when it has slept, not before.
MarkStopped_late(t) ==
    /\ pc[t] \in {"started", "woken"}
    /\ stopped' = [stopped EXCEPT ![t[1]] = pc[t] = "woken"]
    /\ pc' = [pc EXCEPT ![t] = "stopped"]
    /\ UNCHANGED <<main, box, inits, inited, installed, sigset, addr, thread,
                   pending, posting>>

\* mbox_thread*: the head of the loop.  The flag is never cleared.
MarkStopped(t) ==
    /\ pc[t] \in {"started", "woken"}
    /\ stopped' = [stopped EXCEPT ![t[1]] = TRUE]
    /\ pc' = [pc EXCEPT ![t] = "stopped"]
    /\ UNCHANGED <<main, box, inits, inited, installed, sigset, addr, thread,
                   pending, posting>>

\* sigwait reads the set of signals when it is called: a thread that calls it
\* while a later mbox_init has the set empty waits for nothing, for good.
Sleep(t) ==
    /\ pc[t] = "stopped"
    /\ pc' = [pc EXCEPT ![t] = IF sigset THEN "sigwait" ELSE "deaf"]
    /\ UNCHANGED <<main, box, inits, inited, installed, sigset, stopped, addr,
                   thread, pending, posting>>

\* Mutant: the thread ends when it has been woken once.
Wake_once(t) ==
    /\ pc[t] = "sigwait" /\ t \in pending
    /\ pc' = [pc EXCEPT ![t] = "none"]
    /\ pending' = pending \ {t}
    /\ UNCHANGED <<main, box, inits, inited, installed, sigset, stopped, addr,
                   thread, posting>>

\* sigwait takes the signal; the thread prints a line, and loops.
Wake(t) ==
    /\ pc[t] = "sigwait" /\ t \in pending
    /\ pc' = [pc EXCEPT ![t] = "woken"]
    /\ pending' = pending \ {t}
    /\ UNCHANGED <<main, box, inits, inited, installed, sigset, stopped, addr,
                   thread, posting>>

ThreadStep(t) == MarkStopped(t) \/ Sleep(t) \/ Wake(t)

MailboxNext ==
    \/ MboxInit
    \/ \E i \in Boxes, b \in Bytes : WriteLow(i, b) \/ WriteHigh(i, b)
    \/ \E t \in Threads : ThreadStep(t)

\* The kernel runs every thread that can run.  The program need not do anything.
MailboxSpec ==
    /\ MailboxInit /\ [][MailboxNext]_vars
    /\ WF_vars(SigsetFilled \/ ThreadCreated \/ CreateFailed \/ StoppedSeen)
    /\ \A t \in Threads : WF_vars(ThreadStep(t))

-----------------------------------------------------------------------------
(***************************************************************************)
(* Properties.                                                             *)
(***************************************************************************)
\* A program whose last mbox_init succeeded never signals a thread that does not
\* exist, whatever calls failed before (mbox.c:52, 205-223).  One that goes on
\* after a failure may: the flags of an earlier call still say "stopped".
OnlyThreadsSignalled == main = "undefined" => inited = "failed"

\* After mbox_init has returned 0 a post is never refused: the mailbox holds the
\* whole word that was posted, and the newest thread of the mailbox is signalled,
\* however the posts of several mailboxes interleave (mbox.c:36-94, 225-228).
PostDelivered ==
    [][\A i \in Boxes, b \in Bytes :
         WriteHigh(i, b) /\ inited = "ok"
         => addr'[i] = <<posting[i], b>> /\ <<i, inits>> \in pending']_vars

\* mbox_init comes to an end, whether the threads run before it waits for them
\* or after, and whether or not the threads of an earlier call have set the
\* flags already (mbox.c:225-228).
InitReturns == main \in {"setting", "creating", "waiting"} ~> main = "running"

\* A mailbox that is initialised is a doorbell: a post whose thread has not yet
\* gone back to sleep is not lost, and posts made before it wakes count as one
\* (mbox.c:48-53, 138-149).
Bell == INSTANCE Doorbell
          WITH rung <- [i \in Boxes |-> inited = "ok" /\ <<i, inits>> \in pending]

ImplementsDoorbell == Bell!DoorbellSpec
=============================================================================
