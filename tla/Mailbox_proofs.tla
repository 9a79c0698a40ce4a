--------------------------- MODULE Mailbox_proofs ---------------------------
(***************************************************************************)
(* Theorems about Mailbox, for any number of mailboxes and of calls of     *)
(* mbox_init: type correctness, that after a success no signal goes to a   *)
(* thread that does not exist, and that a post is whole and signalled.     *)
(*                                                                         *)
(* All three rest on one inductive invariant, which says how far mbox_init *)
(* has come: what it knows of a mailbox as soon as it has passed it.       *)
(***************************************************************************)
EXTENDS Mailbox, TLAPS

Initialising == main \in {"setting", "creating", "waiting"}

\* The program's posts, as far as they have come, are in the mailboxes.
PostsKept == \A i \in Boxes : posting[i] # NoByte => addr[i][1] = posting[i]

\* Before the first call nothing is installed.
NeverCalled == inited = "never" => ~ installed /\ main = "running"

\* The program neither runs nor posts while a call of mbox_init does.
OneAtATime ==
    /\ Initialising <=> inited = "running"
    /\ Initialising => inits > 0 /\ posting = NoPost

\* The threads this call has created, and those it has waited for.
Created == main = "creating" => \A i \in Boxes : i < box => thread[i] = inits
Awaited == main = "waiting" => /\ \A i \in Boxes : thread[i] = inits
                               /\ \A i \in Boxes : i < box => stopped[i]

\* What a call that succeeded leaves, for as long as none follows.
Succeeded ==
    inited = "ok" => /\ inits > 0
                     /\ \A i \in Boxes : thread[i] = inits /\ stopped[i]
                     /\ PostsKept

Inv == /\ MailboxTypeOK /\ NeverCalled /\ OneAtATime
       /\ Created /\ Awaited /\ Succeeded /\ OnlyThreadsSignalled

\* The invariant holds when the program starts.
LEMMA InvInit == MailboxInit => Inv
<1> SUFFICES ASSUME MailboxInit PROVE Inv
  OBVIOUS
<1>1. box \in Boxes /\ inits \in 0 .. MaxInits
  BY BoxCountAssumption, MaxInitsAssumption, SMT DEF MailboxInit, Boxes
<1>2. stopped \in [Boxes -> BOOLEAN] /\ pc \in [Threads -> ThreadPlaces]
  BY Zenon DEF MailboxInit, ThreadPlaces
<1>3. addr \in [Boxes -> Bytes \X Bytes]
  BY BytesAssumption, Zenon DEF MailboxInit
<1>4. NoThread \in NoThread .. Undefined
  BY MaxInitsAssumption, SMT DEF NoThread, Undefined
<1>5. thread \in [Boxes -> NoThread .. Undefined]
  BY <1>4, Zenon DEF MailboxInit
<1>6. posting \in [Boxes -> Bytes \cup {NoByte}]
  BY Zenon DEF MailboxInit, NoPost
<1>7. MailboxTypeOK
  BY <1>1, <1>2, <1>3, <1>5, <1>6 DEF MailboxInit, MailboxTypeOK, MainPlaces
<1> QED BY <1>7 DEF MailboxInit, Inv, NeverCalled, OneAtATime, Created, Awaited,
                    Succeeded, OnlyThreadsSignalled, Initialising

-----------------------------------------------------------------------------
(***************************************************************************)
(* Types.                                                                  *)
(***************************************************************************)
\* Where the main thread goes when it has dealt with a mailbox.
LEMMA NextBoxType ==
  ASSUME box \in Boxes, main \in MainPlaces, NEW place \in MainPlaces, NextBox(place)
  PROVE  /\ box' \in Boxes /\ main' \in MainPlaces
         /\ main' = main => box' = box + 1 \/ place = main
         /\ main' # main => main' = place /\ box = BoxCount - 1
BY BoxCountAssumption DEF NextBox, Boxes

\* No step leaves the types.  A thread is named by its mailbox and a call, so one
\* is only created when there has been a call.
LEMMA TypeStep ==
  ASSUME MailboxTypeOK, main = "creating" => inits > 0, MailboxNext
  PROVE  MailboxTypeOK'
<1> USE DEF MailboxTypeOK
<1>1. CASE InitCalled
  <2>1. inits' \in 0 .. MaxInits
    BY <1>1, MaxInitsAssumption, SMT DEF InitCalled
  <2>2. posting' \in [Boxes -> Bytes \cup {NoByte}]
    BY <1>1, Zenon DEF InitCalled, NoPost
  <2> QED BY <1>1, <2>1, <2>2 DEF InitCalled, registers, MainPlaces
<1>2. CASE SigsetFilled
  BY <1>2, BoxCountAssumption DEF SigsetFilled, registers, MainPlaces, Boxes
<1>3. CASE ThreadCreated
  <2>1. inits \in NoThread .. Undefined /\ inits \in 1 .. MaxInits
    BY <1>3, MaxInitsAssumption DEF ThreadCreated, NoThread, Undefined
  <2>2. thread' \in [Boxes -> NoThread .. Undefined]
    BY <1>3, <2>1 DEF ThreadCreated
  <2>3. pc' \in [Threads -> ThreadPlaces]
    BY <1>3, <2>1 DEF ThreadCreated, Threads, ThreadPlaces
  <2>4. box' \in Boxes /\ main' \in MainPlaces
    BY <1>3, NextBoxType DEF ThreadCreated, MainPlaces
  <2> QED BY <1>3, <2>2, <2>3, <2>4 DEF ThreadCreated
<1>4. CASE CreateFailed
  <2>1. Undefined \in NoThread .. Undefined
    BY MaxInitsAssumption DEF NoThread, Undefined
  <2>2. 0 \in Boxes
    BY BoxCountAssumption DEF Boxes
  <2> QED BY <1>4, <2>1, <2>2 DEF CreateFailed, MainPlaces
<1>5. CASE StoppedSeen
  <2>1. box' \in Boxes /\ main' \in MainPlaces
    BY <1>5, NextBoxType DEF StoppedSeen, MainPlaces
  <2> QED BY <1>5, <2>1 DEF StoppedSeen, registers
<1>6. ASSUME NEW i \in Boxes, NEW b \in Bytes, WriteLow(i, b)
      PROVE  MailboxTypeOK'
  <2>1. addr' \in [Boxes -> Bytes \X Bytes]
    <3>1. CASE stopped[i]
      <4>1. [addr[i] EXCEPT ![1] = b] \in Bytes \X Bytes
        OBVIOUS
      <4> QED BY <1>6, <3>1, <4>1 DEF WriteLow
    <3> QED BY <1>6, <3>1 DEF WriteLow
  <2>2. posting' \in [Boxes -> Bytes \cup {NoByte}]
    BY <1>6 DEF WriteLow
  <2> QED BY <1>6, <2>1, <2>2 DEF WriteLow
<1>7. ASSUME NEW i \in Boxes, NEW b \in Bytes, WriteHigh(i, b)
      PROVE  MailboxTypeOK'
  <2>1. addr' \in [Boxes -> Bytes \X Bytes]
    <3>1. CASE stopped[i]
      <4>1. [addr[i] EXCEPT ![2] = b] \in Bytes \X Bytes
        OBVIOUS
      <4> QED BY <1>7, <3>1, <4>1 DEF WriteHigh
    <3> QED BY <1>7, <3>1 DEF WriteHigh
  <2>2. posting' \in [Boxes -> Bytes \cup {NoByte}]
    BY <1>7 DEF WriteHigh
  <2>3. pending' \subseteq Threads /\ main' \in MainPlaces
    BY <1>7 DEF WriteHigh, Kick, Threads, MainPlaces
  <2> QED BY <1>7, <2>1, <2>2, <2>3 DEF WriteHigh
<1>8. ASSUME NEW t \in Threads, ThreadStep(t)
      PROVE  MailboxTypeOK'
  <2>1. CASE MarkStopped(t)
    <3>1. t[1] \in Boxes
      BY DEF Threads
    <3>2. stopped' \in [Boxes -> BOOLEAN]
      BY <2>1, <3>1, Zenon DEF MarkStopped
    <3>3. pc' \in [Threads -> ThreadPlaces]
      BY <2>1 DEF MarkStopped, ThreadPlaces
    <3> QED BY <2>1, <3>2, <3>3 DEF MarkStopped
  <2>2. CASE Sleep(t)
    BY <2>2 DEF Sleep, ThreadPlaces
  <2>3. CASE Wake(t)
    BY <2>3 DEF Wake, ThreadPlaces
  <2> QED BY <1>8, <2>1, <2>2, <2>3 DEF ThreadStep
<1> QED BY <1>1, <1>2, <1>3, <1>4, <1>5, <1>6, <1>7, <1>8 DEF MailboxNext, MboxInit

-----------------------------------------------------------------------------
(***************************************************************************)
(* The steps of mbox_init.                                                 *)
(***************************************************************************)
LEMMA CallStep == ASSUME Inv, InitCalled PROVE Inv'
<1> USE DEF InitCalled, registers, Initialising
<1>1. MailboxTypeOK'
  BY TypeStep DEF Inv, OneAtATime, MailboxNext, MboxInit
<1>2. inits \in Nat
  BY DEF Inv, MailboxTypeOK
<1>3. OneAtATime'
  BY <1>2, SMT DEF OneAtATime
<1> QED BY <1>1, <1>3 DEF Inv, NeverCalled, Created, Awaited, Succeeded, OnlyThreadsSignalled

LEMMA FillStep == ASSUME Inv, SigsetFilled PROVE Inv'
<1> USE DEF SigsetFilled, registers, Initialising
<1>1. MailboxTypeOK'
  BY TypeStep DEF Inv, OneAtATime, MailboxNext, MboxInit
<1>2. OneAtATime' /\ inited' = "running"
  BY DEF Inv, OneAtATime
<1>3. Created'
  BY BoxCountAssumption, SMT DEF Created, Boxes
<1> QED BY <1>1, <1>2, <1>3 DEF Inv, NeverCalled, Awaited, Succeeded, OnlyThreadsSignalled

\* The last thread created, all of them belong to this call.
LEMMA CreateStep == ASSUME Inv, ThreadCreated PROVE Inv'
<1> USE DEF Initialising
<1>1. MailboxTypeOK'
  BY TypeStep DEF Inv, OneAtATime, MailboxNext, MboxInit, ThreadCreated
<1>2. /\ main = "creating" /\ inited = "running" /\ inited' = "running"
      /\ inits > 0 /\ posting' = NoPost /\ inits' = inits
  BY DEF Inv, OneAtATime, ThreadCreated
<1>3. /\ box \in Boxes /\ thread \in [Boxes -> NoThread .. Undefined]
      /\ thread' = [thread EXCEPT ![box] = inits]
  BY DEF Inv, MailboxTypeOK, ThreadCreated
<1>4. \A i \in Boxes : i < box => thread[i] = inits
  BY <1>2 DEF Inv, Created
<1>5. CASE box < BoxCount - 1
  <2>1. box' = box + 1 /\ main' = "creating"
    BY <1>5, <1>2 DEF ThreadCreated, NextBox
  <2>2. Created'
    BY <2>1, <1>2, <1>3, <1>4, SMT DEF Created, Boxes
  <2> QED BY <1>1, <1>2, <2>1, <2>2
          DEF Inv, NeverCalled, OneAtATime, Awaited, Succeeded, OnlyThreadsSignalled
<1>6. CASE ~ (box < BoxCount - 1)
  <2>1. box' = 0 /\ main' = "waiting"
    BY <1>6 DEF ThreadCreated, NextBox
  <2>2. \A i \in Boxes : i = box \/ i < box
    BY <1>6, <1>3, BoxCountAssumption, SMT DEF Boxes
  <2>3. \A i \in Boxes : thread'[i] = inits'
    BY <2>2, <1>2, <1>3, <1>4
  <2>4. Awaited'
    BY <2>1, <2>3, SMT DEF Awaited, Boxes
  <2> QED BY <1>1, <1>2, <2>1, <2>4
          DEF Inv, NeverCalled, OneAtATime, Created, Succeeded, OnlyThreadsSignalled
<1> QED BY <1>5, <1>6

LEMMA FailStep == ASSUME Inv, CreateFailed PROVE Inv'
<1> USE DEF CreateFailed, Initialising
<1>1. MailboxTypeOK'
  BY TypeStep DEF Inv, OneAtATime, MailboxNext, MboxInit
<1> QED BY <1>1 DEF Inv, NeverCalled, OneAtATime, Created, Awaited, Succeeded,
                    OnlyThreadsSignalled

\* The call succeeds when it has seen the flag of every mailbox, and no post has
\* been begun by then.
LEMMA SeenStep == ASSUME Inv, StoppedSeen PROVE Inv'
<1> USE DEF Initialising
<1>1. MailboxTypeOK'
  BY TypeStep DEF Inv, OneAtATime, MailboxNext, MboxInit, StoppedSeen
<1>2. /\ main = "waiting" /\ inited = "running" /\ stopped[box]
      /\ inits > 0 /\ inits' = inits /\ posting = NoPost /\ posting' = NoPost
      /\ thread' = thread /\ stopped' = stopped
      /\ inited' = IF box = BoxCount - 1 THEN "ok" ELSE inited
  BY DEF Inv, OneAtATime, StoppedSeen, registers
<1>3. box \in Boxes
  BY DEF Inv, MailboxTypeOK
<1>4. /\ \A i \in Boxes : thread[i] = inits
      /\ \A i \in Boxes : i < box => stopped[i]
  BY <1>2 DEF Inv, Awaited
<1>5. CASE box < BoxCount - 1
  <2>1. box' = box + 1 /\ main' = "waiting" /\ inited' = "running"
    BY <1>5, <1>2, <1>3, BoxCountAssumption, SMT DEF StoppedSeen, NextBox, Boxes
  <2>2. \A i \in Boxes : i < box' => stopped'[i]
    <3> SUFFICES ASSUME NEW i \in Boxes, i < box' PROVE stopped[i]
      BY <1>2
    <3>1. i = box \/ i < box
      BY <2>1, <1>3, BoxCountAssumption, SMT DEF Boxes
    <3> QED BY <3>1, <1>2, <1>4
  <2> QED BY <1>1, <1>2, <1>4, <2>1, <2>2
          DEF Inv, NeverCalled, OneAtATime, Created, Awaited, Succeeded, OnlyThreadsSignalled
<1>6. CASE ~ (box < BoxCount - 1)
  <2>1. box = BoxCount - 1
    BY <1>6, <1>3, BoxCountAssumption, SMT DEF Boxes
  <2>2. main' = "running" /\ inited' = "ok"
    BY <1>6, <2>1, <1>2 DEF StoppedSeen, NextBox
  <2>3. \A i \in Boxes : i = box \/ i < box
    BY <2>1, BoxCountAssumption, SMT DEF Boxes
  <2>4. \A i \in Boxes : thread'[i] = inits' /\ stopped'[i]
    BY <2>3, <1>2, <1>4
  <2>5. PostsKept'
    BY <1>2 DEF PostsKept, NoPost
  <2> QED BY <1>1, <1>2, <2>2, <2>4, <2>5
          DEF Inv, NeverCalled, OneAtATime, Created, Awaited, Succeeded, OnlyThreadsSignalled
<1> QED BY <1>5, <1>6

-----------------------------------------------------------------------------
(***************************************************************************)
(* The steps of the program and of the threads.                            *)
(***************************************************************************)
LEMMA LowStep ==
  ASSUME Inv, NEW i \in Boxes, NEW b \in Bytes, WriteLow(i, b) PROVE Inv'
<1> USE DEF Initialising
<1>1. MailboxTypeOK'
  BY TypeStep DEF Inv, OneAtATime, MailboxNext, WriteLow
<1>2. /\ main = "running" /\ main' = "running" /\ installed
      /\ UNCHANGED <<box, inits, inited, installed, stopped, thread>>
      /\ posting' = [posting EXCEPT ![i] = b]
      /\ addr' = IF stopped[i] THEN [addr EXCEPT ![i][1] = b] ELSE addr
  BY DEF WriteLow
<1>3. /\ addr \in [Boxes -> Bytes \X Bytes]
      /\ posting \in [Boxes -> Bytes \cup {NoByte}]
  BY DEF Inv, MailboxTypeOK
<1>4. ASSUME inited = "ok" PROVE PostsKept'
  <2>1. stopped[i] /\ PostsKept
    BY <1>4 DEF Inv, Succeeded
  <2>2. addr' = [addr EXCEPT ![i] = [addr[i] EXCEPT ![1] = b]]
    BY <2>1, <1>2
  <2>3. [addr[i] EXCEPT ![1] = b][1] = b
    BY <1>3
  <2>4. addr'[i][1] = b /\ posting'[i] = b
    BY <2>2, <2>3, <1>2, <1>3
  <2>5. \A j \in Boxes \ {i} : addr'[j] = addr[j] /\ posting'[j] = posting[j]
    BY <2>2, <1>2, <1>3
  <2> QED BY <2>1, <2>4, <2>5 DEF PostsKept
<1>5. Succeeded'
  BY <1>2, <1>4 DEF Inv, Succeeded
<1> QED BY <1>1, <1>2, <1>5
        DEF Inv, NeverCalled, OneAtATime, Created, Awaited, OnlyThreadsSignalled

\* A post that ends in an undefined handle follows a call that failed.
LEMMA HighStep ==
  ASSUME Inv, NEW i \in Boxes, NEW b \in Bytes, WriteHigh(i, b) PROVE Inv'
<1> USE DEF Initialising
<1>1. MailboxTypeOK'
  BY TypeStep DEF Inv, OneAtATime, MailboxNext, WriteHigh
<1>2. /\ main = "running" /\ installed
      /\ UNCHANGED <<box, inits, inited, installed, stopped, thread>>
      /\ posting' = [posting EXCEPT ![i] = NoByte]
      /\ addr' = IF stopped[i] THEN [addr EXCEPT ![i][2] = b] ELSE addr
      /\ main' \in {"running", "undefined"}
      /\ main' = "undefined" => thread[i] \notin 1 .. MaxInits
  BY DEF WriteHigh, Kick
<1>3. /\ addr \in [Boxes -> Bytes \X Bytes]
      /\ posting \in [Boxes -> Bytes \cup {NoByte}]
      /\ inits \in 0 .. MaxInits
      /\ inited \in {"never", "running", "ok", "failed"}
  BY DEF Inv, MailboxTypeOK
<1>4. inited \in {"ok", "failed"}
  BY <1>2, <1>3 DEF Inv, NeverCalled, OneAtATime
<1>5. ASSUME inited = "ok" PROVE PostsKept'
  <2>1. PostsKept
    BY <1>5 DEF Inv, Succeeded
  <2>2. posting'[i] = NoByte
    BY <1>2, <1>3
  <2>3. \A j \in Boxes \ {i} : addr'[j] = addr[j] /\ posting'[j] = posting[j]
    BY <1>2, <1>3
  <2> QED BY <2>1, <2>2, <2>3 DEF PostsKept
<1>6. ASSUME inited = "ok" PROVE thread[i] \in 1 .. MaxInits
  <2>1. thread[i] = inits /\ inits > 0
    BY <1>6 DEF Inv, Succeeded
  <2> QED BY <2>1, <1>3, MaxInitsAssumption, SMT
<1>7. Succeeded'
  BY <1>2, <1>5 DEF Inv, Succeeded
<1>8. OnlyThreadsSignalled'
  BY <1>2, <1>4, <1>6 DEF OnlyThreadsSignalled
<1>9. OneAtATime' /\ NeverCalled'
  BY <1>2, <1>4 DEF OneAtATime, NeverCalled
<1> QED BY <1>1, <1>2, <1>7, <1>8, <1>9 DEF Inv, Created, Awaited

\* A thread only ever sets its flag.
LEMMA ThreadsStep ==
  ASSUME Inv, NEW t \in Threads, ThreadStep(t) PROVE Inv'
<1> USE DEF Initialising
<1>1. MailboxTypeOK'
  BY TypeStep DEF Inv, OneAtATime, MailboxNext
<1>2. UNCHANGED <<main, box, inits, inited, installed, addr, thread, posting>>
  BY DEF ThreadStep, MarkStopped, Sleep, Wake
<1>3. stopped \in [Boxes -> BOOLEAN]
  BY DEF Inv, MailboxTypeOK
<1>4. \A i \in Boxes : stopped[i] => stopped'[i]
  <2>1. CASE MarkStopped(t)
    BY <2>1, <1>3, Zenon DEF MarkStopped
  <2>2. CASE Sleep(t) \/ Wake(t)
    BY <2>2 DEF Sleep, Wake
  <2> QED BY <2>1, <2>2 DEF ThreadStep
<1>5. Awaited'
  BY <1>2, <1>4 DEF Inv, Awaited
<1>6. Succeeded'
  BY <1>2, <1>4 DEF Inv, Succeeded, PostsKept
<1> QED BY <1>1, <1>2, <1>5, <1>6
        DEF Inv, NeverCalled, OneAtATime, Created, OnlyThreadsSignalled

-----------------------------------------------------------------------------
(***************************************************************************)
(* The theorems.                                                           *)
(***************************************************************************)
LEMMA InvStep == Inv /\ [MailboxNext]_vars => Inv'
<1> SUFFICES ASSUME Inv, [MailboxNext]_vars PROVE Inv'
  OBVIOUS
<1>1. CASE MboxInit
  BY <1>1, CallStep, FillStep, CreateStep, FailStep, SeenStep DEF MboxInit
<1>2. CASE \E i \in Boxes, b \in Bytes : WriteLow(i, b) \/ WriteHigh(i, b)
  BY <1>2, LowStep, HighStep
<1>3. CASE \E t \in Threads : ThreadStep(t)
  BY <1>3, ThreadsStep
<1>4. CASE UNCHANGED vars
  BY <1>4 DEF vars, Inv, MailboxTypeOK, NeverCalled, OneAtATime, Created, Awaited,
              Succeeded, OnlyThreadsSignalled, Initialising, PostsKept
<1> QED BY <1>1, <1>2, <1>3, <1>4 DEF MailboxNext

\* Every behaviour of the mailboxes keeps the invariant.
THEOREM InvCorrect == MailboxSpec => []Inv
BY InvInit, InvStep, PTL DEF MailboxSpec

\* The registers, the handles and the threads of mbox.c keep their types, for
\* any number of mailboxes and of calls (mbox.c:9-34).
THEOREM MailboxTypeCorrect == MailboxSpec => []MailboxTypeOK
<1>1. Inv => MailboxTypeOK
  BY DEF Inv
<1> QED BY InvCorrect, <1>1, PTL

\* After an mbox_init that returned 0, pthread_kill is only ever given a thread
\* that exists, whatever calls failed before it (mbox.c:52, 205-223).
THEOREM ThreadsOnlySignalled == MailboxSpec => []OnlyThreadsSignalled
<1>1. Inv => OnlyThreadsSignalled
  BY DEF Inv
<1> QED BY InvCorrect, <1>1, PTL

\* After an mbox_init that returned 0, a post is never refused: its two bytes are
\* in the mailbox and its thread is signalled (mbox.c:36-94, 225-228).
THEOREM PostsAreDelivered == MailboxSpec => PostDelivered
<1>1. ASSUME Inv, NEW i \in Boxes, NEW b \in Bytes, WriteHigh(i, b), inited = "ok"
      PROVE  addr'[i] = <<posting[i], b>> /\ <<i, inits>> \in pending'
  <2>1. /\ thread[i] = inits /\ inits > 0 /\ stopped[i]
        /\ addr[i][1] = posting[i]
    BY <1>1 DEF Inv, Succeeded, PostsKept, WriteHigh
  <2>2. /\ addr \in [Boxes -> Bytes \X Bytes]
        /\ inits \in 0 .. MaxInits
    BY <1>1 DEF Inv, MailboxTypeOK
  <2>3. thread[i] \in 1 .. MaxInits
    BY <2>1, <2>2, MaxInitsAssumption, SMT
  <2>4. <<i, inits>> \in pending'
    BY <1>1, <2>1, <2>3 DEF WriteHigh, Kick
  <2>5. addr' = [addr EXCEPT ![i] = [addr[i] EXCEPT ![2] = b]]
    BY <1>1, <2>1 DEF WriteHigh
  <2>6. addr[i] \in Bytes \X Bytes /\ addr'[i] = [addr[i] EXCEPT ![2] = b]
    BY <2>5, <2>2
  <2>7. [addr[i] EXCEPT ![2] = b] = <<posting[i], b>>
    BY <2>6, <2>1
  <2> QED BY <2>4, <2>6, <2>7
<1>2. Inv /\ [MailboxNext]_vars
      => [\A i \in Boxes, b \in Bytes :
            WriteHigh(i, b) /\ inited = "ok"
            => addr'[i] = <<posting[i], b>> /\ <<i, inits>> \in pending']_vars
  BY <1>1
<1> QED BY InvCorrect, <1>2, PTL DEF MailboxSpec, PostDelivered

-----------------------------------------------------------------------------
(***************************************************************************)
(* The doorbell: the safety part of ImplementsDoorbell.  The mapped state  *)
(* is Rung; the invariant says which threads a signal can be pending for.  *)
(***************************************************************************)
Rung == [i \in Boxes |-> inited = "ok" /\ <<i, inits>> \in pending]

\* A signal is pending for a thread of this call of mbox_init or of an earlier
\* one; and for none of this one while it runs.
PendingKnown ==
    /\ \A i \in Boxes : thread[i] = Undefined \/ thread[i] <= inits
    /\ \A t \in pending : t[2] <= inits
    /\ Initialising => \A t \in pending : t[2] < inits

\* Only mbox_init changes a handle, only a post makes a signal pending.
LEMMA PendingStep ==
  ASSUME Inv, PendingKnown, [MailboxNext]_vars
  PROVE  PendingKnown'
<1> USE DEF Initialising
<1>1. /\ inits \in 0 .. MaxInits /\ pending \subseteq Threads
      /\ thread \in [Boxes -> NoThread .. Undefined]
  BY DEF Inv, MailboxTypeOK
<1>2. \A t \in pending : t[2] \in 1 .. MaxInits
  BY <1>1 DEF Threads
<1>3. \A i \in Boxes : thread[i] \in Nat
  BY <1>1 DEF NoThread, Undefined
<1>4. CASE InitCalled
  <2>1. inits' = inits + 1 /\ pending' = pending /\ thread' = thread
    BY <1>4 DEF InitCalled, registers
  <2> HIDE DEF Undefined, Initialising
  <2>2. \A i \in Boxes : thread'[i] = Undefined \/ thread'[i] <= inits'
    BY <1>1, <1>3, <2>1, SMT DEF PendingKnown
  <2>3. \A t \in pending' : t[2] < inits'
    BY <1>1, <1>2, <2>1, SMT DEF PendingKnown
  <2>4. \A t \in pending' : t[2] <= inits'
    BY <1>1, <1>2, <2>1, SMT DEF PendingKnown
  <2> QED BY <2>2, <2>3, <2>4 DEF PendingKnown, Undefined
<1>5. CASE SigsetFilled \/ StoppedSeen
  <2>1. main \in {"setting", "waiting"} /\ UNCHANGED <<inits, pending, thread>>
    BY <1>5 DEF SigsetFilled, StoppedSeen, registers
  <2> QED BY <2>1 DEF PendingKnown, Undefined
<1>6. CASE ThreadCreated \/ CreateFailed
  <2>1. /\ main = "creating" /\ UNCHANGED <<inits, pending>>
        /\ \/ thread' = [thread EXCEPT ![box] = inits]
           \/ thread' = [thread EXCEPT ![box] = Undefined]
    BY <1>6 DEF ThreadCreated, CreateFailed
  <2>2. \A i \in Boxes : thread'[i] \in {thread[i], inits, Undefined}
    BY <1>1, <2>1
  <2>3. inits <= inits
    BY <1>1, SMT
  <2>4. \A i \in Boxes : thread'[i] = Undefined \/ thread'[i] <= inits
    BY <2>2, <2>3 DEF PendingKnown
  <2> QED BY <2>1, <2>4 DEF PendingKnown, Undefined
<1>7. ASSUME NEW i \in Boxes, NEW b \in Bytes, WriteHigh(i, b)
      PROVE  PendingKnown'
  <2>1. /\ main = "running" /\ main' \in {"running", "undefined"}
        /\ UNCHANGED <<inits, thread>>
        /\ pending' \subseteq pending \cup {<<i, thread[i]>>}
        /\ <<i, thread[i]>> \in pending' \ pending => thread[i] \in 1 .. MaxInits
    BY <1>7 DEF WriteHigh, Kick
  <2>2. thread[i] \in 1 .. MaxInits => thread[i] # Undefined
    BY MaxInitsAssumption, SMT DEF Undefined
  <2>3. \A t \in pending' : t[2] <= inits
    BY <2>1, <2>2 DEF PendingKnown
  <2> QED BY <2>1, <2>3 DEF PendingKnown, Undefined
<1>8. ASSUME NEW i \in Boxes, NEW b \in Bytes, WriteLow(i, b)
      PROVE  PendingKnown'
  BY <1>8 DEF WriteLow, PendingKnown, Undefined
<1>9. ASSUME NEW t \in Threads, ThreadStep(t)
      PROVE  PendingKnown'
  <2>1. UNCHANGED <<main, inits, thread>> /\ pending' \subseteq pending
    BY <1>9 DEF ThreadStep, MarkStopped, Sleep, Wake
  <2> QED BY <2>1 DEF PendingKnown, Undefined
<1>10. CASE UNCHANGED vars
  BY <1>10 DEF vars, PendingKnown, Undefined
<1> QED BY <1>4, <1>5, <1>6, <1>7, <1>8, <1>9, <1>10 DEF MailboxNext, MboxInit

\* Only mbox_init silences bells, only a post rings one, and only the thread the
\* bell belongs to answers it.
LEMMA BellStep ==
  ASSUME Inv, PendingKnown, [MailboxNext]_vars
  PROVE  [Bell!DoorbellNext]_Rung
<1> USE DEF Initialising
<1>1. \A i \in Boxes : Rung[i] = (inited = "ok" /\ <<i, inits>> \in pending)
  BY DEF Rung
<1>2. CASE InitCalled
  <2>1. Rung' = [i \in Boxes |-> FALSE]
    BY <1>2 DEF InitCalled, Rung
  <2> QED BY <2>1 DEF Bell!DoorbellNext, Bell!Silence, Rung
<1>3. CASE SigsetFilled \/ ThreadCreated \/ CreateFailed
  <2>1. inited # "ok" /\ inited' # "ok"
    BY <1>3 DEF Inv, OneAtATime, SigsetFilled, ThreadCreated, CreateFailed
  <2> QED BY <2>1 DEF Rung
<1>4. CASE StoppedSeen
  <2>1. /\ inited = "running" /\ UNCHANGED <<inits, pending>>
        /\ main = "waiting" /\ inits \in Nat
    BY <1>4 DEF Inv, MailboxTypeOK, OneAtATime, StoppedSeen, registers
  <2>2. \A i \in Boxes : <<i, inits>> \notin pending
    BY <2>1, SMT DEF PendingKnown
  <2> QED BY <2>1, <2>2 DEF Rung
<1>5. ASSUME NEW i \in Boxes, NEW b \in Bytes, WriteHigh(i, b)
      PROVE  [Bell!DoorbellNext]_Rung
  <2>1. inits' = inits /\ inited' = inited
    BY <1>5 DEF WriteHigh
  <2>2. CASE inited = "ok"
    <3>1. thread[i] = inits /\ stopped[i] /\ inits \in 1 .. MaxInits
      BY <2>2, MaxInitsAssumption DEF Inv, Succeeded, MailboxTypeOK
    <3>2. pending' = pending \cup {<<i, inits>>}
      BY <1>5, <3>1 DEF WriteHigh, Kick
    <3>3. Rung' = [Rung EXCEPT ![i] = TRUE]
      BY <2>1, <2>2, <3>2, Zenon DEF Rung
    <3> QED BY <3>3 DEF Bell!DoorbellNext, Bell!Ring, Rung
  <2>3. CASE inited # "ok"
    BY <2>1, <2>3 DEF Rung
  <2> QED BY <2>2, <2>3
<1>6. ASSUME NEW i \in Boxes, NEW b \in Bytes, WriteLow(i, b)
      PROVE  [Bell!DoorbellNext]_Rung
  BY <1>6 DEF WriteLow, Rung
<1>7. ASSUME NEW t \in Threads, ThreadStep(t)
      PROVE  [Bell!DoorbellNext]_Rung
  <2>1. CASE MarkStopped(t) \/ Sleep(t)
    BY <2>1 DEF MarkStopped, Sleep, Rung
  <2>2. CASE Wake(t)
    <3>1. /\ inits' = inits /\ inited' = inited
          /\ t \in pending /\ pending' = pending \ {t}
      BY <2>2 DEF Wake
    <3>2. t[1] \in Boxes /\ t = <<t[1], t[2]>>
      BY DEF Threads
    <3>3. CASE inited = "ok" /\ t[2] = inits
      <4>1. Rung[t[1]]
        BY <3>1, <3>2, <3>3 DEF Rung
      <4>2. \A i \in Boxes : <<i, inits>> \in pending'
                             <=> i # t[1] /\ <<i, inits>> \in pending
        BY <3>1, <3>2, <3>3
      <4>3. Rung' = [Rung EXCEPT ![t[1]] = FALSE]
        BY <3>1, <3>3, <4>2, Zenon DEF Rung
      <4> QED BY <3>2, <4>1, <4>3 DEF Bell!DoorbellNext, Bell!AnswerBell, Rung
    <3>4. CASE ~ (inited = "ok" /\ t[2] = inits)
      <4>1. \A i \in Boxes : Rung'[i] = Rung[i]
        BY <3>1, <3>2, <3>4 DEF Rung
      <4> QED BY <4>1 DEF Rung
    <3> QED BY <3>3, <3>4
  <2> QED BY <1>7, <2>1, <2>2 DEF ThreadStep
<1>8. CASE UNCHANGED vars
  BY <1>8 DEF vars, Rung
<1> QED BY <1>2, <1>3, <1>4, <1>5, <1>6, <1>7, <1>8 DEF MailboxNext, MboxInit

\* The mailboxes are doorbells, for any number of mailboxes and of calls: a post
\* rings its bell and no other, a signal that is pending is not lost, and nobody
\* but the mailbox's own thread takes it (mbox.c:48-53, 138-149).
THEOREM MailboxesAreDoorbells ==
  MailboxSpec => Bell!DoorbellInit /\ [][Bell!DoorbellNext]_Rung
<1>1. MailboxInit => Bell!DoorbellInit
  BY DEF MailboxInit, Bell!DoorbellInit
<1>2. MailboxInit => PendingKnown
  BY MaxInitsAssumption DEF MailboxInit, PendingKnown, NoThread, Initialising
<1> QED BY <1>1, <1>2, InvInit, InvStep, PendingStep, BellStep, PTL DEF MailboxSpec
=============================================================================
