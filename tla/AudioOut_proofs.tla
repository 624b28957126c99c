--------------------------- MODULE AudioOut_proofs ---------------------------
(***************************************************************************)
(* Proofs about AudioOut: the inductive invariant IInv, the invariants it  *)
(* implies, and that the MP3 status line implements StatusRegister.  Then  *)
(* about Sound: at most one output sounds, and a silent wire leaves        *)
(* isPlaying() right.                                                      *)
(***************************************************************************)
EXTENDS AudioOut, Sound, SequenceTheorems, WellFoundedInduction, TLAPS

USE AudioAssumption

\* The initial state: no task, nothing parked.
LEMMA InitInv == Init => IInv
  <1> SUFFICES ASSUME Init PROVE IInv OBVIOUS
  <1> USE DEF Init, NoPub
  <1>1. TypeOK
    <2>1. NoPub \in Publication BY DEF Publication, Labels
    <2>2. [station |-> None, title |-> None, error |-> None, playing |-> FALSE]
            \in Radio
      BY DEF Radio
    <2>3. 0 \in 0..MaxPlays /\ 0 \in 0..MaxMp3 OBVIOUS
    <2> QED BY <2>1, <2>2, <2>3 DEF TypeOK, Labels
  <1>2. ReportInv BY DEF ReportInv, Drained, FilePhase
  <1>3. PubInv BY DEF PubInv
  <1>4. LocalsInv BY DEF LocalsInv, FilePhase, TypeOK
  <1>5. DriverInv BY DEF DriverInv
  <1> QED BY <1>1, <1>2, <1>3, <1>4, <1>5 DEF IInv

\* One step per action of the audio task.
LEMMA TaskInv == IInv /\ Task => IInv'
  <1> SUFFICES ASSUME IInv, Task PROVE IInv' OBVIOUS
  <1> USE DEF IInv, TypeOK, ReportInv, PubInv, LocalsInv, DriverInv, Drained, FilePhase,
       Radio, Publication, NoPub, Labels, handoff, request, mp3Request, main, task,
       Goto, StreamOn, LockHeld
  <1>1. CASE PublishWrite
    <2>1. TypeOK'
      <3>1. pendingTitle' \in Urls \cup {None} /\ pendingError' \in Urls \cup {None}
        BY <1>1 DEF PublishWrite
      <3>2. pendingStarted' \in Mp3s \cup {None}
        BY <1>1 DEF PublishWrite
      <3>3. pendingEnded' \in BOOLEAN
        BY <1>1 DEF PublishWrite
      <3>4. pc' \in Labels
        BY <1>1 DEF PublishWrite
      <3>5. UNCHANGED <<request, playing, mp3Request, mp3Playing, unseen, main, url, seq,
                 mp3Seen, path, startSeq, pub, i2s>>
        BY <1>1 DEF PublishWrite
      <3> QED BY <3>1, <3>2, <3>3, <3>4, <3>5
    <2>2. ReportInv' BY <1>1 DEF PublishWrite
    <2>3. PubInv' BY <1>1 DEF PublishWrite
    <2>4. LocalsInv' BY <1>1 DEF PublishWrite
    <2>5. DriverInv' BY <1>1 DEF PublishWrite
    <2> QED BY <2>1, <2>2, <2>3, <2>4, <2>5 DEF IInv
  <1>2. CASE PublishBump
    <2>1. TypeOK' BY <1>2 DEF PublishBump
    <2>2. ReportInv' BY <1>2 DEF PublishBump
    <2>3. PubInv' BY <1>2 DEF PublishBump
    <2>4. LocalsInv' BY <1>2 DEF PublishBump
    <2>5. DriverInv' BY <1>2 DEF PublishBump
    <2> QED BY <2>1, <2>2, <2>3, <2>4, <2>5 DEF IInv
  <1>3. CASE PickMp3
    <2>1. TypeOK' BY <1>3 DEF PickMp3
    <2>2. ReportInv' BY <1>3 DEF PickMp3
    <2>3. PubInv' BY <1>3 DEF PickMp3
    <2>4. LocalsInv' BY <1>3 DEF PickMp3
    <2>5. DriverInv' BY <1>3 DEF PickMp3
    <2> QED BY <2>1, <2>2, <2>3, <2>4, <2>5 DEF IInv
  <1>4. CASE PickUrl
    BY <1>4 DEF PickUrl
  <1>5. CASE Rest
    <2>1. TypeOK'
      <3>1. i2s' \in BOOLEAN /\ playing' \in BOOLEAN
        BY <1>5 DEF Rest
      <3> QED BY <3>1, <1>5 DEF Rest
    <2>2. ReportInv' BY <1>5 DEF Rest
    <2>3. PubInv' BY <1>5 DEF Rest
    <2>4. LocalsInv' BY <1>5 DEF Rest
    <2>5. DriverInv' BY <1>5 DEF Rest
    <2> QED BY <2>1, <2>2, <2>3, <2>4, <2>5 DEF IInv
  <1>6. CASE Connect
    BY <1>6 DEF Connect
  <1>7. CASE Preempted
    BY <1>7 DEF Preempted
  <1>8. CASE ConnectFails
    BY <1>8 DEF ConnectFails, Publish
  <1>9. CASE ConnectOk
    BY <1>9 DEF ConnectOk
  <1>10. ASSUME NEW ok \in BOOLEAN, PlaylistRead(ok) PROVE IInv'
    BY <1>10 DEF PlaylistRead, Publish
  <1>11. CASE PlaylistSave
    BY <1>11 DEF PlaylistSave
  <1>12. CASE Open
    BY <1>12 DEF Open
  <1>13. CASE StreamCheck
    BY <1>13 DEF StreamCheck
  <1>14. CASE StreamFrame
    BY <1>14 DEF StreamFrame
  <1>15. CASE StreamTitle
    <2>1. TypeOK' BY <1>15 DEF StreamTitle, Publish
    <2>2. ReportInv' BY <1>15 DEF StreamTitle, Publish
    <2>3. PubInv' BY <1>15 DEF StreamTitle, Publish
    <2>4. LocalsInv' BY <1>15 DEF StreamTitle, Publish
    <2>5. DriverInv' BY <1>15 DEF StreamTitle, Publish
    <2> QED BY <2>1, <2>2, <2>3, <2>4, <2>5 DEF IInv
  <1>16. CASE StreamLost
    BY <1>16 DEF StreamLost
  <1>17. CASE StreamUnplayable
    <2>1. TypeOK' BY <1>17 DEF StreamUnplayable, Publish
    <2>2. ReportInv' BY <1>17 DEF StreamUnplayable, Publish
    <2>3. PubInv' BY <1>17 DEF StreamUnplayable, Publish
    <2>4. LocalsInv' BY <1>17 DEF StreamUnplayable, Publish
    <2>5. DriverInv' BY <1>17 DEF StreamUnplayable, Publish
    <2> QED BY <2>1, <2>2, <2>3, <2>4, <2>5 DEF IInv
  <1>18. CASE StreamReject
    BY <1>18 DEF StreamReject
  <1>19. CASE StreamLeave
    <2>1. TypeOK'
      <3>1. i2s' \in BOOLEAN /\ playing' \in BOOLEAN
        BY <1>19 DEF StreamLeave
      <3> QED BY <3>1, <1>19 DEF StreamLeave
    <2>2. ReportInv' BY <1>19 DEF StreamLeave
    <2>3. PubInv' BY <1>19 DEF StreamLeave
    <2>4. LocalsInv' BY <1>19 DEF StreamLeave
    <2>5. DriverInv' BY <1>19 DEF StreamLeave
    <2> QED BY <2>1, <2>2, <2>3, <2>4, <2>5 DEF IInv
  <1>20. CASE Backoff
    BY <1>20 DEF Backoff
  <1>21. ASSUME NEW ok \in BOOLEAN, FileOpen(ok) PROVE IInv'
    <2>1. TypeOK' BY <1>21 DEF FileOpen, Publish
    <2>2. ReportInv' BY <1>21 DEF FileOpen, Publish
    <2>3. PubInv' BY <1>21 DEF FileOpen, Publish
    <2>4. LocalsInv' BY <1>21 DEF FileOpen, Publish
    <2>5. DriverInv' BY <1>21 DEF FileOpen, Publish
    <2> QED BY <2>1, <2>2, <2>3, <2>4, <2>5 DEF IInv
  <1>22. CASE FileStart
    BY <1>22 DEF FileStart
  <1>23. CASE FileFrame
    BY <1>23 DEF FileFrame
  <1>24. CASE FileEnd
    <2>1. TypeOK'
      <3>1. i2s' \in BOOLEAN /\ mp3Playing' \in BOOLEAN
        BY <1>24 DEF FileEnd, Publish
      <3>2. pub' \in Publication
        BY <1>24 DEF FileEnd, Publish
      <3> QED BY <3>1, <3>2, <1>24 DEF FileEnd, Publish
    <2>2. ReportInv' BY <1>24 DEF FileEnd, Publish
    <2>3. PubInv' BY <1>24 DEF FileEnd, Publish
    <2>4. LocalsInv' BY <1>24 DEF FileEnd, Publish
    <2>5. DriverInv' BY <1>24 DEF FileEnd, Publish
    <2> QED BY <2>1, <2>2, <2>3, <2>4, <2>5 DEF IInv
  <1> QED BY <1>1, <1>2, <1>3, <1>4, <1>5, <1>6, <1>7, <1>8, <1>9,
    <1>10, <1>11, <1>12, <1>13, <1>14, <1>15, <1>16, <1>17, <1>18,
    <1>19, <1>20, <1>21, <1>22, <1>23, <1>24 DEF Task, Tuning,
    Streaming, File

\* One step per action of the main loop.
LEMMA MainInv == IInv /\ Main => IInv'
  <1> SUFFICES ASSUME IInv, Main PROVE IInv' OBVIOUS
  <1> USE DEF IInv, TypeOK, ReportInv, PubInv, LocalsInv, DriverInv, Drained, FilePhase,
       Radio, Publication, NoPub, Labels, handoff, request, mp3Request, main, task,
       Goto, StreamOn, LockHeld
  <1>1. ASSUME NEW u \in Stations, PlayStream(u) PROVE IInv'
    BY <1>1 DEF PlayStream
  <1>2. ASSUME NEW ok \in BOOLEAN, TuneDone(ok) PROVE IInv'
    <2>1. TypeOK'
      <3>1. radio' \in Radio /\ stopRequested' \in BOOLEAN
        BY <1>2 DEF TuneDone, EnsureTask
      <3> QED BY <3>1, <1>2 DEF TuneDone, EnsureTask
    <2>2. ReportInv' BY <1>2 DEF TuneDone, EnsureTask
    <2>3. PubInv' BY <1>2 DEF TuneDone, EnsureTask
    <2>4. LocalsInv' BY <1>2 DEF TuneDone, EnsureTask
    <2>5. DriverInv' BY <1>2 DEF TuneDone, EnsureTask
    <2> QED BY <2>1, <2>2, <2>3, <2>4, <2>5 DEF IInv
  <1>3. ASSUME NEW m \in Mp3s, PlayMp3(m) PROVE IInv'
    <2>1. TypeOK'
      <3>1. mp3Stop' \in BOOLEAN
        BY <1>3 DEF PlayMp3, EnsureTask
      <3>2. mp3Seq' \in 0..MaxMp3
        BY <1>3 DEF PlayMp3, EnsureTask
      <3> QED BY <3>1, <3>2, <1>3 DEF PlayMp3, EnsureTask
    <2>2. ReportInv' BY <1>3 DEF PlayMp3, EnsureTask
    <2>3. PubInv' BY <1>3 DEF PlayMp3, EnsureTask
    <2>4. LocalsInv' BY <1>3 DEF PlayMp3, EnsureTask
    <2>5. DriverInv' BY <1>3 DEF PlayMp3, EnsureTask
    <2> QED BY <2>1, <2>2, <2>3, <2>4, <2>5 DEF IInv
  <1>4. ASSUME NEW a \in BOOLEAN, NEW b \in BOOLEAN, StopAudio(a, b) PROVE IInv'
    <2>1. TypeOK'
      <3>1. mp3Stop' \in BOOLEAN /\ stopRequested' \in BOOLEAN /\ playing' \in BOOLEAN
        BY <1>4 DEF StopAudio
      <3>2. radio' \in Radio
        BY <1>4 DEF StopAudio
      <3> QED BY <3>1, <3>2, <1>4 DEF StopAudio
    <2>2. ReportInv' BY <1>4 DEF StopAudio
    <2>3. PubInv' BY <1>4 DEF StopAudio
    <2>4. LocalsInv' BY <1>4 DEF StopAudio
    <2>5. DriverInv' BY <1>4 DEF StopAudio
    <2> QED BY <2>1, <2>2, <2>3, <2>4, <2>5 DEF IInv
  <1>5. ASSUME Tick, TickDrain PROVE IInv'
    <2>1. TypeOK'
      <3>1. radio' \in Radio
        BY <1>5 DEF TickDrain
      <3>2. unseen' \in BOOLEAN /\ pendingEnded' \in BOOLEAN
        BY <1>5 DEF TickDrain
      <3>3. mp3Shown' \in Mp3s \cup {None}
        BY <1>5 DEF TickDrain
      <3> QED BY <3>1, <3>2, <3>3, <1>5 DEF TickDrain
    <2>2. ReportInv' BY <1>5 DEF TickDrain
    <2>3. PubInv' BY <1>5 DEF TickDrain
    <2>4. LocalsInv' BY <1>5 DEF TickDrain
    <2>5. DriverInv' BY <1>5 DEF TickDrain
    <2> QED BY <2>1, <2>2, <2>3, <2>4, <2>5 DEF IInv
  <1>6. ASSUME TickBusy PROVE IInv'
    BY <1>6 DEF TickBusy, vars
  <1> QED BY <1>1, <1>2, <1>3, <1>4, <1>5, <1>6 DEF Main, Tick

LEMMA StutterInv == IInv /\ UNCHANGED vars => IInv'
  BY DEF vars, IInv, TypeOK, ReportInv, PubInv, LocalsInv, DriverInv, Drained,
     FilePhase, handoff, request, mp3Request, main, task

\* The inductive invariant holds in every reachable state, for every set of
\* stations, playlists and MP3s and any number of requests.
THEOREM Invariance == Spec => []IInv
  <1>1. Init => IInv BY InitInv
  <1>2. IInv /\ [Next]_vars => IInv' BY TaskInv, MainInv, StutterInv DEF Next
  <1> QED BY <1>1, <1>2, PTL DEF Spec

\* Every variable keeps its type.
THEOREM TypeCorrect == Spec => []TypeOK
  <1>1. IInv => TypeOK BY DEF IInv
  <1> QED BY <1>1, Invariance, PTL

\* With nothing left to drain, the MP3 reported is the MP3 being played.
THEOREM StatusCorrect == Spec => []Mp3StatusAgrees
  <1>1. IInv => Mp3StatusAgrees
    BY DEF IInv, ReportInv, Mp3StatusAgrees, Drained, FilePhase
  <1> QED BY <1>1, Invariance, PTL

\* The I2S driver is not left clocking while the task connects, waits or rests.
THEOREM DriverCorrect == Spec => []DriverQuiet
  <1>1. IInv => DriverQuiet BY DEF IInv, DriverInv, DriverQuiet
  <1> QED BY <1>1, Invariance, PTL

\* A frame is scaled by the volume of the source it comes from.
THEOREM GainCorrect == Spec => []GainOfSource
  <1>1. IInv => GainOfSource BY DEF IInv, DriverInv, GainOfSource
  <1> QED BY <1>1, Invariance, PTL

\* All of it together.
THEOREM AudioCorrect == Spec => []AudioSafe
  <1>1. IInv /\ Mp3StatusAgrees /\ DriverQuiet /\ GainOfSource => AudioSafe
    BY DEF AudioSafe
  <1> QED BY <1>1, Invariance, StatusCorrect, DriverCorrect, GainCorrect, PTL

\* The MP3 status line implements the abstract register: a publish under the
\* lock begins or ends a file, a drain observes, every other step stutters.
THEOREM StatusRefines == Spec => RegisterSafe
  <1> DEFINE R == <<Drained(pendingStarted, pendingEnded, mp3Shown), mp3Shown>>
  <1>1. Init => Register!Init
    BY DEF Init, Register!Init, Drained
  <1>2. ASSUME IInv, Next PROVE Register!Next \/ UNCHANGED R
    <2>1. CASE PublishWrite
      <3>1. CASE pub.kind = "started"
        <4>1. path \in Mp3s BY <1>2, <2>1, <3>1 DEF PublishWrite, IInv, PubInv, TypeOK
        <4>2. Register!Begin(path)
          BY <1>2, <2>1, <3>1, <4>1
          DEF PublishWrite, IInv, PubInv, ReportInv, Drained, FilePhase, TypeOK,
              Register!Begin, main
        <4> QED BY <4>1, <4>2 DEF Register!Next
      <3>2. CASE pub.kind = "ended"
        <4>1. CASE path # None
          <5>1. Register!End
            BY <1>2, <2>1, <3>2, <4>1
            DEF PublishWrite, IInv, PubInv, ReportInv, Drained, FilePhase,
                Register!End, main
          <5> QED BY <5>1 DEF Register!Next
        <4>2. CASE path = None
          BY <1>2, <2>1, <3>2, <4>2
          DEF PublishWrite, IInv, PubInv, ReportInv, Drained, FilePhase, main
        <4> QED BY <4>1, <4>2
      <3>3. CASE pub.kind \in {"title", "error"}
        BY <1>2, <2>1, <3>3 DEF PublishWrite, IInv, TypeOK, Drained, main
      <3> QED BY <1>2, <2>1, <3>1, <3>2, <3>3 DEF PublishWrite, IInv, PubInv
    <2>2. CASE Tick
      <3>1. TickDrain => Register!Observe
        BY DEF TickDrain, Drained, Register!Observe
      <3>2. TickBusy => UNCHANGED R
        BY DEF TickBusy, vars, handoff, main, Drained
      <3> QED BY <2>2, <3>1, <3>2 DEF Tick, Register!Next
    <2>3. CASE Main /\ ~Tick
      BY <2>3 DEF Main, PlayStream, TuneDone, PlayMp3, StopAudio, EnsureTask,
         handoff, main, Drained
    <2>4. CASE Tuning \/ Streaming \/ File \/ PublishBump
      <3>1. UNCHANGED <<pendingStarted, pendingEnded, mp3Shown>>
        BY <2>4 DEF Tuning, Streaming, File, PublishBump, PickMp3, PickUrl, Rest, Connect, Preempted, ConnectFails, ConnectOk, PlaylistSave, Open, StreamCheck, StreamFrame, StreamTitle, StreamLost, StreamUnplayable, StreamReject, StreamLeave, Backoff, FileStart, FileFrame, FileEnd, PlaylistRead, FileOpen, handoff, main
      <3> QED BY <3>1 DEF Drained
    <2> QED BY <1>2, <2>1, <2>2, <2>3, <2>4 DEF Next, Task
  <1>3. UNCHANGED vars => UNCHANGED R
    BY DEF vars, handoff, main, Drained
  <1>4. IInv /\ [Next]_vars => [Register!Next]_(Register!vars)
    BY <1>2, <1>3 DEF Register!vars
  <1> QED BY <1>1, <1>4, Invariance, PTL DEF Spec, RegisterSafe, Register!Spec

-----------------------------------------------------------------------------
(* The one-shot sounds (Sound) *)

Replies == {"ack", "error", "finished"}
Driver ==
  [playing : BOOLEAN, pending : Tracks \cup {NoTrack},
   wait : 0..StopReplyTimeout, retries : 0..MaxRetries,
   last : {NoFrame, Stop(TRUE)} \cup {Play(t) : t \in Tracks},
   line : Seq(Frames)]

\* What needs nothing of the wire.
Routed == SoundTypeOK /\ OneCommanded

\* The order of the numbers, as a relation induction can be done over.
LEMMA LessIsWellFounded ==
  \E R : /\ \A x, y \in Nat : y < x => <<y, x>> \in R
         /\ \A T \in SUBSET Nat : T # {} => \E x \in T : \A y \in T : <<y, x>> \notin R
  <1> DEFINE R == OpToRel(<, Nat)
  <1>1. IsWellFoundedOn(R, Nat) BY NatLessThanWellFounded
  <1>2. \A x, y \in Nat : y < x => <<y, x>> \in R BY DEF OpToRel
  <1> HIDE DEF R
  <1>3. \A T \in SUBSET Nat : T # {} => \E x \in T : \A y \in T : <<y, x>> \notin R
    BY <1>1, WFMin
  <1> QED BY <1>2, <1>3

\* Induction over a set of numbers.
LEMMA AllNaturals ==
  ASSUME NEW T, 0 \in T, \A j \in Nat : j \in T => j + 1 \in T
  PROVE  Nat \subseteq T
  <1> SUFFICES ASSUME Nat \ T # {} PROVE FALSE OBVIOUS
  <1>1. PICK R :
          /\ \A x, y \in Nat : y < x => <<y, x>> \in R
          /\ \A S \in SUBSET Nat : S # {} => \E x \in S : \A y \in S : <<y, x>> \notin R
    BY LessIsWellFounded
  <1>2. PICK x \in Nat \ T : \A y \in Nat \ T : <<y, x>> \notin R BY <1>1
  <1>3. x # 0 BY <1>2
  <1>4. x - 1 \in Nat /\ x - 1 < x BY <1>2, <1>3
  <1>5. x - 1 \in T BY <1>1, <1>2, <1>4
  <1>6. (x - 1) + 1 \in T BY <1>4, <1>5
  <1> QED BY <1>2, <1>4, <1>6

\* What the driver is after each of the frames read.
Step(d, f, k) == IF k = 0 THEN d ELSE OnFrame(f[k - 1], replies[k])
IsReading(d, f, n) == f = [k \in 0..n |-> Step(d, f, k)]

\* Take reads the frames one by one.
LEMMA TakeReads ==
  ASSUME NEW d, NEW n \in Nat
  PROVE  \E f : /\ f[0] = d /\ Take(d, n) = f[n]
                /\ \A k \in 1..n : f[k] = OnFrame(f[k - 1], replies[k])
  <1> DEFINE T == {j \in Nat : \E f : IsReading(d, f, j)}
  <1>1. 0 \in T
    <2>1. IsReading(d, [k \in 0..0 |-> d], 0) BY DEF IsReading, Step
    <2> QED BY <2>1
  <1>2. ASSUME NEW j \in Nat, j \in T PROVE j + 1 \in T
    <2>1. PICK f : IsReading(d, f, j) BY <1>2
    <2> DEFINE g == [k \in 0..(j + 1) |->
                       IF k <= j THEN f[k] ELSE OnFrame(f[j], replies[j + 1])]
    <2>2. \A k \in 0..j : g[k] = f[k] /\ f[k] = Step(d, f, k)
      <3>1. f = [k \in 0..j |-> Step(d, f, k)] BY <2>1 DEF IsReading
      <3>2. \A k \in 0..j : f[k] = Step(d, f, k)
        <4> HIDE DEF g
        <4> QED BY <3>1
      <3>3. \A k \in 0..j : k \in 0..(j + 1) /\ k <= j BY <1>2
      <3>4. \A k \in 0..j : g[k] = f[k] BY <3>3
      <3> QED BY <3>2, <3>4
    <2>3. /\ g[j + 1] = OnFrame(f[j], replies[j + 1])
          /\ g = [k \in 0..(j + 1) |-> g[k]]
      OBVIOUS
    <2> HIDE DEF g
    <2>4. ASSUME NEW k \in 0..(j + 1) PROVE g[k] = Step(d, g, k)
      <3>1. CASE k = 0 BY <2>2, <3>1 DEF Step
      <3>2. CASE k # 0
        <4>1. k - 1 \in 0..j /\ g[k - 1] = f[k - 1] BY <2>2, <3>2
        <4>2. CASE k <= j
          <5>1. g[k] = f[k] /\ f[k] = Step(d, f, k) BY <2>2, <4>2
          <5> QED BY <3>2, <4>1, <5>1 DEF Step
        <4>3. CASE k = j + 1
          <5>1. k - 1 = j BY <4>3
          <5> QED BY <2>3, <3>2, <4>1, <4>3, <5>1 DEF Step
        <4> QED BY <4>2, <4>3
      <3> QED BY <3>1, <3>2
    <2>5. [k \in 0..(j + 1) |-> g[k]] = [k \in 0..(j + 1) |-> Step(d, g, k)] BY <2>4
    <2>6. IsReading(d, g, j + 1) BY <2>3, <2>5 DEF IsReading
    <2> QED BY <2>6
  <1>3. \E f : IsReading(d, f, n)
    <2> HIDE DEF T
    <2>1. n \in T BY <1>1, <1>2, AllNaturals
    <2> QED BY <2>1 DEF T
  <1> DEFINE taken == CHOOSE f : IsReading(d, f, n)
  <1>4. Take(d, n) = taken[n] BY DEF Take, IsReading, Step
  <1>5. IsReading(d, taken, n) BY <1>3
  <1> HIDE DEF taken
  <1>6. \A k \in 0..n : taken[k] = Step(d, taken, k) BY <1>5 DEF IsReading
  <1>7. taken[0] = d BY <1>6 DEF Step
  <1>8. \A k \in 1..n : taken[k] = OnFrame(taken[k - 1], replies[k]) BY <1>6 DEF Step
  <1> QED BY <1>4, <1>7, <1>8

\* A frame is appended to the line; nothing else that is asserted here changes.
LEMMA SendType ==
  ASSUME NEW d \in Driver, NEW f \in Frames
  PROVE  /\ Send(d, f) \in Driver
         /\ Send(d, f).line = Append(d.line, f)
         /\ Send(d, f).pending = d.pending
         /\ Send(d, f).playing = d.playing
         /\ Send(d, f).wait = d.wait
  <1>1. d.line \in Seq(Frames) BY DEF Driver
  <1>2. Append(d.line, f) \in Seq(Frames) BY <1>1
  <1>3. f.ack => f \in {Stop(TRUE)} \cup {Play(t) : t \in Tracks}
    BY DEF Frames, Stop, Volume
  <1> HIDE DEF Frames
  <1> QED BY <1>2, <1>3 DEF Send, Driver

\* No frame of the player changes what is held back or sets the flag.
LEMMA OnFrameType ==
  ASSUME NEW d \in Driver, NEW r \in Replies
  PROVE  /\ OnFrame(d, r) \in Driver
         /\ OnFrame(d, r).pending = d.pending
         /\ OnFrame(d, r).playing => d.playing
  <1>1. 1 \in 0..StopReplyTimeout /\ StopReplyTimeout \in 0..StopReplyTimeout
    BY SoundAssumption
  <1>2. CASE r = "finished" BY <1>2 DEF OnFrame, Driver
  <1>3. CASE r = "ack" BY <1>1, <1>3 DEF OnFrame, Driver
  <1>4. CASE r = "error"
    <2>1. CASE d.retries > 0 /\ d.last # NoFrame
      <3> DEFINE e == [d EXCEPT !.retries = @ - 1,
                         !.wait = IF d.pending # NoTrack THEN StopReplyTimeout ELSE @]
      <3>1. e \in Driver /\ e.pending = d.pending /\ e.playing = d.playing
        <4>1. d.retries - 1 \in 0..MaxRetries
          BY <2>1, SoundAssumption DEF Driver
        <4>2. (IF d.pending # NoTrack THEN StopReplyTimeout ELSE d.wait)
                \in 0..StopReplyTimeout
          BY <1>1 DEF Driver
        <4> QED BY <4>1, <4>2 DEF Driver
      <3>2. d.last \in Frames BY <2>1 DEF Driver, Frames
      <3>3. OnFrame(d, r) = Send(e, d.last)
        BY <1>4, <2>1 DEF OnFrame, Repeat
      <3> HIDE DEF e
      <3> QED BY <3>1, <3>2, <3>3, SendType
    <2>2. CASE ~(d.retries > 0 /\ d.last # NoFrame)
      BY <1>4, <2>2 DEF OnFrame
    <2> QED BY <2>1, <2>2
  <1> QED BY <1>2, <1>3, <1>4 DEF Replies

\* Nor do all that are read in one tick.
LEMMA TakeType ==
  ASSUME NEW d \in Driver, NEW n \in Nat,
         \A k \in 1..n : replies[k] \in Replies
  PROVE  /\ Take(d, n) \in Driver
         /\ Take(d, n).pending = d.pending
         /\ Take(d, n).playing => d.playing
  <1>1. PICK f : /\ f[0] = d /\ Take(d, n) = f[n]
                 /\ \A k \in 1..n : f[k] = OnFrame(f[k - 1], replies[k])
    BY TakeReads
  <1> DEFINE Kept(e) == e \in Driver /\ e.pending = d.pending /\ (e.playing => d.playing)
             T == {j \in Nat : j <= n => Kept(f[j])}
  <1>2. 0 \in T BY <1>1
  <1>3. ASSUME NEW j \in Nat, j \in T PROVE j + 1 \in T
    <2> SUFFICES ASSUME j + 1 <= n
                 PROVE  Kept(f[j + 1])
      OBVIOUS
    <2>1. j <= n /\ j + 1 \in 1..n /\ (j + 1) - 1 = j OBVIOUS
    <2>2. f[j + 1] = OnFrame(f[j], replies[j + 1]) BY <1>1, <2>1
    <2>3. replies[j + 1] \in Replies BY <2>1
    <2>4. f[j] \in Driver /\ f[j].pending = d.pending
      BY <1>3, <2>1
    <2>5. f[j].playing => d.playing BY <1>3, <2>1
    <2>6. /\ f[j + 1] \in Driver
          /\ f[j + 1].pending = f[j].pending
          /\ f[j + 1].playing => f[j].playing
      <3> HIDE DEF T
      <3>1. PICK e, r : e = f[j] /\ r = replies[j + 1] OBVIOUS
      <3>2. e \in Driver /\ r \in Replies BY <2>3, <2>4, <3>1
      <3> QED BY <2>2, <3>1, <3>2, OnFrameType
    <2> QED BY <2>4, <2>5, <2>6
  <1>4. n \in T
    <2> HIDE DEF T
    <2>1. Nat \subseteq T
      <3>1. \A j \in Nat : j \in T => j + 1 \in T BY <1>3
      <3> QED BY <1>2, <3>1, AllNaturals
    <2> QED BY <2>1
  <1>5. f[n] \in Driver /\ f[n].pending = d.pending /\ (f[n].playing => d.playing)
    BY <1>4
  <1> QED BY <1>1, <1>5

\* The driver after a command of the router, or a held track sent out.
LEMMA DriverCommands ==
  ASSUME df \in Driver
  PROVE  /\ \A t \in Tracks : PlayTrack(t) \in Driver
         /\ /\ StopTrack \in Driver
            /\ StopTrack.pending = NoTrack /\ ~StopTrack.playing
         /\ \A d \in Driver : Due(d) => SendPending(d) \in Driver
  <1>1. Stop(TRUE) \in Frames /\ Stop(FALSE) \in Frames
    BY DEF Frames
  <1>2. ASSUME NEW t \in Tracks PROVE PlayTrack(t) \in Driver
    <2> DEFINE d == [df EXCEPT !.retries = MaxRetries, !.pending = t,
                               !.wait = StopReplyTimeout, !.playing = TRUE]
    <2>1. d \in Driver
      <3>1. MaxRetries \in 0..MaxRetries /\ StopReplyTimeout \in 0..StopReplyTimeout
        BY SoundAssumption
      <3> QED BY <3>1 DEF Driver
    <2>2. PlayTrack(t) = Send(d, Stop(TRUE)) BY DEF PlayTrack
    <2> HIDE DEF d
    <2>3. Send(d, Stop(TRUE)) \in Driver BY <1>1, <2>1, SendType
    <2> QED BY <2>2, <2>3
  <1>3. /\ StopTrack \in Driver
        /\ StopTrack.pending = NoTrack /\ ~StopTrack.playing
    <2> DEFINE d == [df EXCEPT !.pending = NoTrack, !.playing = FALSE]
    <2>1. d \in Driver /\ d.pending = NoTrack /\ ~d.playing BY DEF Driver
    <2>2. StopTrack = Send(d, Stop(FALSE)) BY DEF StopTrack
    <2> HIDE DEF d
    <2>3. /\ Send(d, Stop(FALSE)) \in Driver
          /\ Send(d, Stop(FALSE)).pending = d.pending
          /\ Send(d, Stop(FALSE)).playing = d.playing
      BY <1>1, <2>1, SendType
    <2> QED BY <2>1, <2>2, <2>3
  <1>4. ASSUME NEW d \in Driver, Due(d) PROVE SendPending(d) \in Driver
    <2> DEFINE e == [d EXCEPT !.pending = NoTrack, !.playing = TRUE]
    <2>1. e \in Driver BY DEF Driver
    <2>2. Play(d.pending) \in Frames
      <3>1. d.pending \in Tracks BY <1>4 DEF Driver, Due
      <3> QED BY <3>1 DEF Frames
    <2>3. SendPending(d) = Send(e, Play(d.pending))
      BY DEF SendPending
    <2> HIDE DEF e
    <2> QED BY <2>1, <2>2, <2>3, SendType
  <1> QED BY <1>2, <1>3, <1>4

\* The frames read in one tick, and those that are left.
Budget == IF Len(replies) < FramesPerTick THEN Len(replies) ELSE FramesPerTick

\* The budget is within what has arrived.
LEMMA BudgetFits ==
  ASSUME replies \in Seq(Replies)
  PROVE  /\ Budget \in Nat /\ Budget <= Len(replies)
         /\ \A k \in 1..Budget : replies[k] \in Replies
         /\ SubSeq(replies, Budget + 1, Len(replies)) \in Seq(Replies)
  <1>1. Len(replies) \in Nat /\ FramesPerTick \in Nat BY SoundAssumption
  <1>2. Budget \in Nat /\ Budget <= Len(replies) BY <1>1 DEF Budget
  <1>3. SubSeq(replies, Budget + 1, Len(replies)) \in Seq(Replies)
    <2>1. \A k \in (Budget + 1)..Len(replies) : replies[k] \in Replies BY <1>1, <1>2
    <2> QED BY <1>1, <1>2, <2>1, SubSeqProperties
  <1> QED BY <1>1, <1>2, <1>3

\* The initial state: nothing sounds, nothing is on the wire.
LEMMA SoundStarts ==
  ASSUME SoundInit PROVE Routed
  <1> USE SoundAssumption DEF SoundInit
  <1>1. df \in Driver
    <2>1. <<>> \in Seq(Frames) OBVIOUS
    <2> QED BY <2>1 DEF Driver
  <1>2. replies \in Seq(Replies) OBVIOUS
  <1>3. SoundTypeOK
    <2>1. {buzzer, mp3, stream, muted, heard} \subseteq BOOLEAN OBVIOUS
    <2>2. commands \in 0..MaxCommands /\ errors \in 0..MaxErrors /\ lost \in 0..MaxLost
      OBVIOUS
    <2>3. {sounding, asked} \subseteq Tracks \cup {NoTrack} OBVIOUS
    <2> QED BY <1>1, <1>2, <2>1, <2>2, <2>3 DEF SoundTypeOK, Driver, Replies
  <1>4. OneCommanded BY DEF OneCommanded
  <1> QED BY <1>3, <1>4 DEF Routed

\* Whatever starts a sound of its own stops the others; what the player does
\* and says starts nothing.
LEMMA SoundStep ==
  ASSUME Routed, [SoundNext]_soundVars
  PROVE  Routed'
  <1>1. /\ df \in Driver /\ replies \in Seq(Replies)
        /\ {sounding, asked} \subseteq Tracks \cup {NoTrack}
        /\ {buzzer, mp3, stream, muted, heard} \subseteq BOOLEAN
        /\ commands \in 0..MaxCommands /\ errors \in 0..MaxErrors /\ lost \in 0..MaxLost
    BY DEF Routed, SoundTypeOK, Driver, Replies
  <1>2. OneCommanded BY DEF Routed
  <1> DEFINE Counted ==
        /\ commands' \in 0..MaxCommands /\ errors' \in 0..MaxErrors
        /\ lost' \in 0..MaxLost
      Typed ==
        /\ df' \in Driver /\ replies' \in Seq(Replies)
        /\ {sounding, asked}' \subseteq Tracks \cup {NoTrack}
        /\ {buzzer, mp3, stream, muted, heard}' \subseteq BOOLEAN
        /\ Counted
  <1>3. Typed /\ OneCommanded' => Routed'
    BY DEF Routed, SoundTypeOK, Driver, Replies
  <1>4. CASE Command
    <2>1. Commanded
      BY <1>4 DEF Command, PlayOnTrack, PlayOnBuzzer, PlayOnMp3,
         PlayOnStream, StopScope, SetMuted, SetVolume
    <2>2. Counted /\ UNCHANGED <<replies, sounding>>
      BY <1>1, <2>1, SoundAssumption DEF Commanded
    <2>3. ASSUME NEW t \in Tracks, PlayOnTrack(t) PROVE Typed /\ OneCommanded'
      <3>1. df' \in Driver BY <1>1, <2>3, DriverCommands DEF PlayOnTrack
      <3> QED BY <1>1, <2>2, <2>3, <3>1 DEF PlayOnTrack, OneCommanded
    <2>4. CASE PlayOnBuzzer
      <3>1. df' \in Driver /\ df'.pending = NoTrack /\ ~df'.playing
        BY <1>1, <2>4, DriverCommands DEF PlayOnBuzzer
      <3> QED BY <1>1, <1>3, <2>2, <2>4, <3>1 DEF PlayOnBuzzer, OneCommanded
    <2>5. CASE PlayOnMp3
      <3>1. df' \in Driver /\ df'.pending = NoTrack /\ ~df'.playing
        BY <1>1, <2>5, DriverCommands DEF PlayOnMp3
      <3> QED BY <1>1, <1>3, <2>2, <2>5, <3>1 DEF PlayOnMp3, OneCommanded
    <2>6. CASE PlayOnStream
      BY <1>1, <1>2, <1>3, <2>2, <2>6 DEF PlayOnStream, OneCommanded, promise
    <2>7. ASSUME NEW scope \in {"sounds", "stream", "all"}, StopScope(scope)
          PROVE  Typed /\ OneCommanded'
      <3>1. CASE scope = "stream"
        BY <1>1, <1>2, <2>2, <2>7, <3>1 DEF StopScope, OneCommanded, promise
      <3>2. CASE scope # "stream"
        <4>1. df' \in Driver
          BY <1>1, <2>7, <3>2, DriverCommands DEF StopScope, StopSounds
        <4> QED BY <1>1, <2>2, <2>7, <3>2, <4>1
                DEF StopScope, StopSounds, OneCommanded
      <3> QED BY <3>1, <3>2
    <2>8. CASE SetMuted
      BY <1>1, <1>2, <1>3, <2>2, <2>8 DEF SetMuted, OneCommanded, promise
    <2>9. CASE SetVolume
      <3>1. Volume \in Frames BY DEF Frames
      <3>2. df' \in Driver /\ df'.pending = df.pending /\ df'.playing = df.playing
        BY <1>1, <2>9, <3>1, SendType DEF SetVolume
      <3> QED BY <1>1, <1>2, <1>3, <2>2, <2>9, <3>2
              DEF SetVolume, OneCommanded, others, promise
    <2> QED BY <1>3, <1>4, <2>3, <2>4, <2>5, <2>6, <2>7, <2>8, <2>9 DEF Command
  <1>5. CASE TickTrack
    <2>1. PICK d : d = Take(df, Budget) OBVIOUS
    <2>2. /\ d \in Driver /\ d.pending = df.pending
          /\ d.playing => df.playing
      BY <1>1, <2>1, BudgetFits, TakeType
    <2>3. /\ df' = IF Due(d) THEN SendPending(d) ELSE d
          /\ replies' = SubSeq(replies, Budget + 1, Len(replies))
          /\ UNCHANGED <<sounding, others, promise, bounds>>
      BY <1>5, <2>1 DEF TickTrack, Budget
    <2>4. df' \in Driver BY <1>1, <2>2, <2>3, DriverCommands
    <2>5. replies' \in Seq(Replies) BY <1>1, <2>3, BudgetFits
    <2>6. df'.pending # NoTrack \/ df'.playing => df.pending # NoTrack \/ df.playing
      BY <2>2, <2>3 DEF Due
    <2>7. UNCHANGED <<sounding, buzzer, mp3, stream, muted, asked, heard,
                      commands, errors, lost>>
      BY <2>3 DEF others, promise, bounds
    <2> QED BY <1>1, <1>2, <1>3, <2>4, <2>5, <2>6, <2>7 DEF OneCommanded
  <1>6. CASE Pass
    <2>1. df.wait - 1 \in 0..StopReplyTimeout
      <3>1. df.wait \in 0..StopReplyTimeout /\ df.wait # 0 BY <1>1, <1>6 DEF Pass, Driver
      <3>2. StopReplyTimeout \in Nat BY SoundAssumption
      <3> QED BY <3>1, <3>2
    <2>2. df' \in Driver /\ df'.pending = df.pending /\ df'.playing = df.playing
      BY <1>1, <1>6, <2>1 DEF Pass, Driver
    <2>3. lost' \in 0..MaxLost BY <1>1, <1>6, SoundAssumption DEF Pass
    <2> QED BY <1>1, <1>2, <1>3, <1>6, <2>2, <2>3
            DEF Pass, OneCommanded, others, promise
  <1>7. CASE Player
    <2>1. Counted
      <3>1. /\ commands' = commands
            /\ errors' = errors \/ (errors < MaxErrors /\ errors' = errors + 1)
            /\ lost' = lost \/ (lost < MaxLost /\ lost' = lost + 1)
        BY <1>7 DEF Player, Obey, Refuse, LoseCommand,
           LoseReply, FinishTrack, bounds
      <3>2. MaxErrors \in Nat /\ MaxLost \in Nat BY SoundAssumption
      <3>3. /\ commands \in 0..MaxCommands /\ errors \in 0..MaxErrors
            /\ lost \in 0..MaxLost
        BY <1>1
      <3> QED BY <3>1, <3>2, <3>3
    <2>2. UNCHANGED <<buzzer, mp3, stream, muted, asked>>
      BY <1>7 DEF Player, Obey, Refuse, LoseCommand,
         LoseReply, FinishTrack, others, promise
    <2>3. /\ df' \in Driver
          /\ df'.pending = df.pending /\ df'.playing = df.playing
      <3>1. CASE UNCHANGED df BY <1>1, <3>1
      <3>2. CASE df.line # <<>> /\ Received
        <4>1. Tail(df.line) \in Seq(Frames) BY <1>1, <3>2 DEF Driver
        <4> QED BY <1>1, <3>2, <4>1 DEF Received, Driver
      <3> QED BY <1>7, <3>1, <3>2 DEF Player, Obey, Refuse,
              LoseCommand, LoseReply, FinishTrack
    <2>4. replies' \in Seq(Replies)
      <3>1. \A r \in Replies : Append(replies, r) \in Seq(Replies) BY <1>1
      <3>2. replies # <<>> => Tail(replies) \in Seq(Replies) BY <1>1
      <3> QED BY <1>1, <1>7, <3>1, <3>2 DEF Player, Obey, Refuse,
              LoseCommand, LoseReply, FinishTrack, Reply, Replies
    <2>5. sounding' \in Tracks \cup {NoTrack} /\ heard' \in BOOLEAN
      <3>1. CASE Obey
        <4>1. Head(df.line) \in Frames BY <1>1, <3>1 DEF Obey, Driver
        <4>2. Head(df.line).track \in Tracks \cup {NoTrack}
          BY <4>1 DEF Frames, Stop, Play, Volume
        <4> QED BY <1>1, <3>1, <4>2 DEF Obey
      <3>2. CASE ~Obey
        BY <1>1, <1>7, <3>2 DEF Player, Refuse, LoseCommand,
           LoseReply, FinishTrack, promise
      <3> QED BY <3>1, <3>2
    <2> QED BY <1>1, <1>2, <1>3, <2>1, <2>2, <2>3, <2>4, <2>5 DEF OneCommanded
  <1>8. CASE FinishOther
    BY <1>1, <1>2, <1>3, <1>8 DEF FinishOther, OneCommanded, driver,
       promise, bounds
  <1>9. CASE UNCHANGED soundVars
    BY <1>1, <1>2, <1>3, <1>9 DEF soundVars, OneCommanded, driver, others,
       promise, bounds
  <1> QED BY <1>4, <1>5, <1>6, <1>7, <1>8, <1>9 DEF SoundNext

-----------------------------------------------------------------------------
(* What the wire holds while the player has refused and lost nothing *)

Elems(q) == {q[i] : i \in 1..Len(q)}
Has(q, cmd) == \E f \in Elems(q) : f.cmd = cmd
PlayComesFirst(q) ==
  \A i \in 1..Len(q) : q[i].cmd = "play" => \A j \in 1..(i - 1) : q[j].cmd = "volume"
OneEnd(q) == \A i, j \in 1..Len(q) : q[i] = "finished" /\ q[j] = "finished" => i = j

\* The track that runs will stop, or none runs and none will.
Silenced(line, snd) == Has(line, "stop") \/ (snd = NoTrack /\ ~Has(line, "play"))

\* A held track: the stop before it is on its way, and answered once the wait is over.
Held(line, sent, pending, wait, snd, ask) ==
  pending # NoTrack =>
    /\ pending = ask /\ Silenced(line, snd)
    /\ wait = 0 => /\ sent = <<>> /\ snd = NoTrack
                   /\ ~Has(line, "stop") /\ ~Has(line, "play")

\* The track asked for is on its way, sounds, or has ended.
Sent(line, sent, pending, playing_, snd, ask) ==
  pending = NoTrack /\ ask # NoTrack =>
    /\ ~Has(line, "stop")
    /\ \A f \in Elems(line) : f.cmd = "play" => f.track = ask
    /\ snd \in {ask, NoTrack}
    /\ playing_ <=> (Has(line, "play") \/ snd # NoTrack \/ "finished" \in Elems(sent))
    /\ OneEnd(sent)
    /\ "finished" \in Elems(sent) => snd = NoTrack /\ ~Has(line, "play")

Told(line, sent, pending, wait, playing_, snd, ask) ==
  /\ "error" \notin Elems(sent)
  /\ PlayComesFirst(line)
  /\ Has(line, "play") => snd = NoTrack
  /\ Held(line, sent, pending, wait, snd, ask)
  /\ ask = NoTrack => Silenced(line, snd) /\ ~playing_
  /\ Sent(line, sent, pending, playing_, snd, ask)

\* The inductive invariant behind OneSound and SettledTruth.
ToldInv ==
  /\ Routed
  /\ errors = 0 /\ lost = 0 =>
       Told(df.line, replies, df.pending, df.wait, df.playing, sounding, asked)

\* A frame or a reply is added at the end of what is on its way.
LEMMA Appended ==
  ASSUME NEW S, NEW q \in Seq(S), NEW f \in S
  PROVE  /\ Elems(Append(q, f)) = Elems(q) \cup {f}
         /\ \A c : Has(Append(q, f), c) <=> Has(q, c) \/ f.cmd = c
  <1>1. /\ Len(Append(q, f)) = Len(q) + 1 /\ Len(q) \in Nat
        /\ \A i \in 1..Len(q) : Append(q, f)[i] = q[i]
        /\ Append(q, f)[Len(q) + 1] = f
    OBVIOUS
  <1>2. Elems(Append(q, f)) = Elems(q) \cup {f}
    <2>1. ASSUME NEW x \in Elems(Append(q, f)) PROVE x \in Elems(q) \cup {f}
      <3>1. PICK i \in 1..Len(Append(q, f)) : x = Append(q, f)[i] BY <2>1 DEF Elems
      <3> QED BY <1>1, <3>1 DEF Elems
    <2>2. ASSUME NEW x \in Elems(q) \cup {f} PROVE x \in Elems(Append(q, f))
      <3>1. CASE x = f BY <1>1, <3>1 DEF Elems
      <3>2. CASE x \in Elems(q)
        <4>1. PICK i \in 1..Len(q) : x = q[i] BY <3>2 DEF Elems
        <4>2. i \in 1..Len(Append(q, f)) BY <1>1
        <4> QED BY <1>1, <4>1, <4>2 DEF Elems
      <3> QED BY <2>2, <3>1, <3>2
    <2> QED BY <2>1, <2>2
  <1> QED BY <1>2 DEF Has

\* The play command stays first when what it is not first of is added.
LEMMA PlayStaysFirst ==
  ASSUME NEW q \in Seq(Frames), NEW f \in Frames, PlayComesFirst(q),
         f.cmd = "play" => ~Has(q, "stop") /\ ~Has(q, "play")
  PROVE  PlayComesFirst(Append(q, f))
  <1>1. /\ Len(Append(q, f)) = Len(q) + 1 /\ Len(q) \in Nat
        /\ \A i \in 1..Len(q) : Append(q, f)[i] = q[i]
        /\ Append(q, f)[Len(q) + 1] = f
    OBVIOUS
  <1>2. \A i \in 1..Len(q) : q[i].cmd \in {"stop", "play", "volume"}
    <2>1. \A g \in Frames : g.cmd \in {"stop", "play", "volume"}
      BY DEF Frames, Stop, Play, Volume
    <2>2. \A i \in 1..Len(q) : q[i] \in Frames OBVIOUS
    <2> QED BY <2>1, <2>2
  <1>3. ASSUME NEW i \in 1..(Len(q) + 1), Append(q, f)[i].cmd = "play",
               NEW j \in 1..(i - 1)
        PROVE  Append(q, f)[j].cmd = "volume"
    <2>1. j \in 1..Len(q) BY <1>1
    <2>2. CASE i \in 1..Len(q) BY <1>1, <1>3, <2>1, <2>2 DEF PlayComesFirst
    <2>3. CASE i = Len(q) + 1
      <3>1. q[j] \in Elems(q) BY <2>1 DEF Elems
      <3>2. q[j].cmd # "stop" /\ q[j].cmd # "play" BY <1>1, <1>3, <2>3, <3>1 DEF Has
      <3> QED BY <1>1, <1>2, <2>1, <3>2
    <2> QED BY <1>1, <2>2, <2>3
  <1> QED BY <1>1, <1>3 DEF PlayComesFirst

\* The frame at the head is taken off the line.
LEMMA Taken ==
  ASSUME NEW q \in Seq(Frames), q # <<>>, PlayComesFirst(q)
  PROVE  /\ Elems(q) = {Head(q)} \cup Elems(Tail(q))
         /\ \A c : Has(q, c) <=> Head(q).cmd = c \/ Has(Tail(q), c)
         /\ PlayComesFirst(Tail(q))
         /\ Head(q).cmd # "volume" => ~Has(Tail(q), "play")
  <1>1. /\ Len(Tail(q)) = Len(q) - 1 /\ Len(q) \in Nat \ {0} /\ Head(q) = q[1]
        /\ \A i \in 1..(Len(q) - 1) : Tail(q)[i] = q[i + 1]
    OBVIOUS
  <1>2. Elems(q) = {Head(q)} \cup Elems(Tail(q))
    <2>1. ASSUME NEW x \in Elems(q) PROVE x \in {Head(q)} \cup Elems(Tail(q))
      <3>1. PICK i \in 1..Len(q) : x = q[i] BY <2>1 DEF Elems
      <3>2. CASE i = 1 BY <1>1, <3>1, <3>2
      <3>3. CASE i # 1
        <4>1. i - 1 \in 1..(Len(q) - 1) /\ (i - 1) + 1 = i BY <1>1, <3>3
        <4>2. x = Tail(q)[i - 1] BY <1>1, <3>1, <4>1
        <4> QED BY <1>1, <4>1, <4>2 DEF Elems
      <3> QED BY <3>2, <3>3
    <2>2. ASSUME NEW x \in {Head(q)} \cup Elems(Tail(q)) PROVE x \in Elems(q)
      <3>1. CASE x = Head(q)
        <4>1. 1 \in 1..Len(q) BY <1>1
        <4> QED BY <1>1, <3>1, <4>1 DEF Elems
      <3>2. CASE x \in Elems(Tail(q))
        <4>1. PICK i \in 1..Len(Tail(q)) : x = Tail(q)[i] BY <3>2 DEF Elems
        <4>2. i + 1 \in 1..Len(q) /\ x = q[i + 1] BY <1>1, <4>1
        <4> QED BY <4>2 DEF Elems
      <3> QED BY <2>2, <3>1, <3>2
    <2> QED BY <2>1, <2>2
  <1>3. PlayComesFirst(Tail(q))
    <2> SUFFICES ASSUME NEW i \in 1..Len(Tail(q)), Tail(q)[i].cmd = "play",
                        NEW j \in 1..(i - 1)
                 PROVE  Tail(q)[j].cmd = "volume"
      BY DEF PlayComesFirst
    <2>1. i + 1 \in 1..Len(q) /\ q[i + 1].cmd = "play" BY <1>1
    <2>2. j + 1 \in 1..((i + 1) - 1) /\ Tail(q)[j] = q[j + 1] BY <1>1
    <2>3. q[j + 1].cmd = "volume" BY <2>1, <2>2 DEF PlayComesFirst
    <2> QED BY <2>2, <2>3
  <1>4. ASSUME Has(Tail(q), "play") PROVE Head(q).cmd = "volume"
    <2>1. PICK i \in 1..Len(Tail(q)) : Tail(q)[i].cmd = "play" BY <1>4 DEF Has, Elems
    <2>2. i + 1 \in 1..Len(q) /\ q[i + 1].cmd = "play" BY <1>1, <2>1
    <2>3. 1 \in 1..((i + 1) - 1) BY <1>1
    <2> QED BY <1>1, <2>2, <2>3 DEF PlayComesFirst
  <1> QED BY <1>2, <1>3, <1>4 DEF Has

\* The end of a track that is added to none is the only one.
LEMMA EndAppended ==
  ASSUME NEW q \in Seq(Replies), NEW r \in Replies, OneEnd(q),
         r = "finished" => "finished" \notin Elems(q)
  PROVE  OneEnd(Append(q, r))
  <1>1. /\ Len(Append(q, r)) = Len(q) + 1 /\ Len(q) \in Nat
        /\ \A i \in 1..Len(q) : Append(q, r)[i] = q[i]
        /\ Append(q, r)[Len(q) + 1] = r
    OBVIOUS
  <1>2. ASSUME NEW i \in 1..(Len(q) + 1), NEW j \in 1..(Len(q) + 1),
               Append(q, r)[i] = "finished", Append(q, r)[j] = "finished"
        PROVE  i = j
    <2>1. CASE i \in 1..Len(q) /\ j \in 1..Len(q) BY <1>1, <1>2, <2>1 DEF OneEnd
    <2>2. CASE i = Len(q) + 1 /\ j = Len(q) + 1 BY <2>2
    <2>3. CASE i = Len(q) + 1 /\ j \in 1..Len(q) BY <1>1, <1>2, <2>3 DEF Elems
    <2>4. CASE i \in 1..Len(q) /\ j = Len(q) + 1 BY <1>1, <1>2, <2>4 DEF Elems
    <2> QED BY <1>1, <2>1, <2>2, <2>3, <2>4
  <1> QED BY <1>1, <1>2 DEF OneEnd

\* What is left of the replies after the first n.
LEMMA Left ==
  ASSUME NEW q \in Seq(Replies), NEW n \in Nat, n <= Len(q)
  PROVE  LET rest == SubSeq(q, n + 1, Len(q))
         IN /\ Elems(q) = {q[k] : k \in 1..n} \cup Elems(rest)
            /\ OneEnd(q) => /\ OneEnd(rest)
                            /\ \A k \in 1..n : q[k] = "finished" => "finished" \notin Elems(rest)
  <1>0. PICK rest : rest = SubSeq(q, n + 1, Len(q)) OBVIOUS
  <1>1. /\ Len(q) \in Nat /\ Len(rest) = Len(q) - n
        /\ \A i \in 1..(Len(q) - n) : rest[i] = q[n + i]
    <2>1. Len(q) \in Nat OBVIOUS
    <2>2. CASE n = Len(q) BY <1>0, <2>1, <2>2
    <2>3. CASE n < Len(q)
      <3>1. \A k \in (n + 1)..Len(q) : q[k] \in Replies BY <2>1
      <3> QED BY <1>0, <2>1, <2>3, <3>1, SubSeqProperties
    <2> QED BY <2>1, <2>2, <2>3
  <1>2. Elems(q) = {q[k] : k \in 1..n} \cup Elems(rest)
    <2>1. ASSUME NEW x \in Elems(q) PROVE x \in {q[k] : k \in 1..n} \cup Elems(rest)
      <3>1. PICK i \in 1..Len(q) : x = q[i] BY <2>1 DEF Elems
      <3>2. CASE i <= n BY <3>1, <3>2
      <3>3. CASE i > n
        <4>1. i - n \in 1..Len(rest) /\ rest[i - n] = q[n + (i - n)] BY <1>1, <3>3
        <4>2. n + (i - n) = i OBVIOUS
        <4> QED BY <3>1, <4>1, <4>2 DEF Elems
      <3> QED BY <3>2, <3>3
    <2>2. ASSUME NEW k \in 1..n PROVE q[k] \in Elems(q) BY <1>1 DEF Elems
    <2>3. ASSUME NEW x \in Elems(rest) PROVE x \in Elems(q)
      <3>1. PICK i \in 1..Len(rest) : x = rest[i] BY <2>3 DEF Elems
      <3>2. n + i \in 1..Len(q) /\ x = q[n + i] BY <1>1, <3>1
      <3> QED BY <3>2 DEF Elems
    <2> QED BY <2>1, <2>2, <2>3
  <1>3. ASSUME OneEnd(q) PROVE OneEnd(rest)
    <2> SUFFICES ASSUME NEW i \in 1..Len(rest), NEW j \in 1..Len(rest),
                        rest[i] = "finished", rest[j] = "finished"
                 PROVE  i = j
      BY DEF OneEnd
    <2>1. /\ n + i \in 1..Len(q) /\ n + j \in 1..Len(q)
          /\ q[n + i] = "finished" /\ q[n + j] = "finished"
      BY <1>1
    <2>2. n + i = n + j BY <1>3, <2>1 DEF OneEnd
    <2> QED BY <2>2
  <1>4. ASSUME OneEnd(q), NEW k \in 1..n, q[k] = "finished", "finished" \in Elems(rest)
        PROVE  FALSE
    <2>1. PICK i \in 1..Len(rest) : rest[i] = "finished" BY <1>4 DEF Elems
    <2>2. n + i \in 1..Len(q) /\ q[n + i] = "finished" /\ k \in 1..Len(q) BY <1>1, <2>1
    <2>3. k = n + i BY <1>4, <2>2 DEF OneEnd
    <2> QED BY <1>1, <2>3
  <1> QED BY <1>0, <1>2, <1>3, <1>4

\* What is on the wire and what the driver holds, before a step.
Wired(line, sent, pending, wait, playing_, snd, ask) ==
  /\ line \in Seq(Frames) /\ sent \in Seq(Replies)
  /\ pending \in Tracks \cup {NoTrack} /\ wait \in Nat /\ playing_ \in BOOLEAN
  /\ {snd, ask} \subseteq Tracks \cup {NoTrack}
  /\ Told(line, sent, pending, wait, playing_, snd, ask)

\* A track is asked for: its stop goes out first.
LEMMA ToldAsked ==
  ASSUME NEW line, NEW sent, NEW pending, NEW wait, NEW playing_, NEW snd, NEW ask,
         Wired(line, sent, pending, wait, playing_, snd, ask),
         NEW t \in Tracks
  PROVE  Told(Append(line, Stop(TRUE)), sent, t, StopReplyTimeout, TRUE, snd, t)
  <1>1. PICK f : f = Stop(TRUE) OBVIOUS
  <1>2. f \in Frames /\ f.cmd = "stop" BY <1>1 DEF Frames, Stop
  <1>3. line \in Seq(Frames) BY DEF Wired
  <1>4. \A c : Has(Append(line, f), c) <=> Has(line, c) \/ f.cmd = c
    BY <1>2, <1>3, Appended
  <1>5. PlayComesFirst(Append(line, f)) BY <1>2, <1>3, PlayStaysFirst DEF Wired, Told
  <1>6. Has(Append(line, f), "stop") /\ (Has(Append(line, f), "play") <=> Has(line, "play"))
    BY <1>2, <1>4
  <1>7. t # NoTrack /\ StopReplyTimeout # 0 BY SoundAssumption
  <1>8. Told(Append(line, f), sent, t, StopReplyTimeout, TRUE, snd, t)
    BY <1>5, <1>6, <1>7 DEF Wired, Told, Held, Sent, Silenced
  <1> QED BY <1>1, <1>8

\* The player is told to stop: nothing is held any more.
LEMMA ToldToStop ==
  ASSUME NEW line, NEW sent, NEW pending, NEW wait, NEW playing_, NEW snd, NEW ask,
         Wired(line, sent, pending, wait, playing_, snd, ask)
  PROVE  Told(Append(line, Stop(FALSE)), sent, NoTrack, wait, FALSE, snd, NoTrack)
  <1>1. PICK f : f = Stop(FALSE) OBVIOUS
  <1>2. f \in Frames /\ f.cmd = "stop" BY <1>1 DEF Frames, Stop
  <1>3. line \in Seq(Frames) BY DEF Wired
  <1>4. \A c : Has(Append(line, f), c) <=> Has(line, c) \/ f.cmd = c
    BY <1>2, <1>3, Appended
  <1>5. PlayComesFirst(Append(line, f)) BY <1>2, <1>3, PlayStaysFirst DEF Wired, Told
  <1>6. Has(Append(line, f), "stop") /\ (Has(Append(line, f), "play") <=> Has(line, "play"))
    BY <1>2, <1>4
  <1>7. Told(Append(line, f), sent, NoTrack, wait, FALSE, snd, NoTrack)
    BY <1>5, <1>6 DEF Wired, Told, Held, Sent, Silenced
  <1> QED BY <1>1, <1>7

\* A volume frame changes nothing of this.
LEMMA ToldVolume ==
  ASSUME NEW line, NEW sent, NEW pending, NEW wait, NEW playing_, NEW snd, NEW ask,
         Wired(line, sent, pending, wait, playing_, snd, ask)
  PROVE  Told(Append(line, Volume), sent, pending, wait, playing_, snd, ask)
  <1>1. PICK f : f = Volume OBVIOUS
  <1>2. f \in Frames /\ f.cmd = "volume" BY <1>1 DEF Frames, Volume
  <1>3. line \in Seq(Frames) BY DEF Wired
  <1>4. /\ \A c : Has(Append(line, f), c) <=> Has(line, c) \/ f.cmd = c
        /\ Elems(Append(line, f)) = Elems(line) \cup {f}
    BY <1>2, <1>3, Appended
  <1>5. PlayComesFirst(Append(line, f)) BY <1>2, <1>3, PlayStaysFirst DEF Wired, Told
  <1>6. /\ Has(Append(line, f), "stop") <=> Has(line, "stop")
        /\ Has(Append(line, f), "play") <=> Has(line, "play")
    BY <1>2, <1>4
  <1>7. Held(Append(line, f), sent, pending, wait, snd, ask)
    BY <1>6 DEF Wired, Told, Held, Silenced
  <1>8. Sent(Append(line, f), sent, pending, playing_, snd, ask)
    BY <1>2, <1>4, <1>6 DEF Wired, Told, Sent
  <1>9. Told(Append(line, f), sent, pending, wait, playing_, snd, ask)
    BY <1>5, <1>6, <1>7, <1>8 DEF Wired, Told, Silenced
  <1> QED BY <1>1, <1>9

\* The held track goes out, with the player silent and the wire empty of commands.
LEMMA ToldDue ==
  ASSUME NEW line, NEW sent, NEW pending, NEW wait, NEW playing_, NEW snd, NEW ask,
         Wired(line, sent, pending, wait, playing_, snd, ask),
         pending # NoTrack, wait = 0
  PROVE  Told(Append(line, Play(pending)), <<>>, NoTrack, wait, TRUE, snd, ask)
  <1>1. PICK f : f = Play(pending) OBVIOUS
  <1>2. f \in Frames /\ f.cmd = "play" /\ f.track = pending
    BY <1>1 DEF Wired, Frames, Play
  <1>3. line \in Seq(Frames) BY DEF Wired
  <1>4. /\ \A c : Has(Append(line, f), c) <=> Has(line, c) \/ f.cmd = c
        /\ Elems(Append(line, f)) = Elems(line) \cup {f}
    BY <1>2, <1>3, Appended
  <1>5. /\ pending = ask /\ snd = NoTrack
        /\ ~Has(line, "stop") /\ ~Has(line, "play")
    BY DEF Wired, Told, Held
  <1>6. PlayComesFirst(Append(line, f))
    BY <1>2, <1>3, <1>5, PlayStaysFirst DEF Wired, Told
  <1>7. ~Has(Append(line, f), "stop") /\ Has(Append(line, f), "play") BY <1>2, <1>4, <1>5
  <1>8. \A g \in Elems(Append(line, f)) : g.cmd = "play" => g.track = ask
    BY <1>2, <1>4, <1>5 DEF Has
  <1>9. OneEnd(<<>>) /\ Elems(<<>>) = {} BY DEF OneEnd, Elems
  <1>10. Told(Append(line, f), <<>>, NoTrack, wait, TRUE, snd, ask)
    BY <1>5, <1>6, <1>7, <1>8, <1>9 DEF Told, Held, Sent
  <1> QED BY <1>1, <1>10

\* The first n replies are read, and no held track is due then.
LEMMA ToldRead ==
  ASSUME NEW line, NEW sent, NEW pending, NEW wait, NEW playing_, NEW snd, NEW ask,
         Wired(line, sent, pending, wait, playing_, snd, ask),
         NEW n \in Nat, n <= Len(sent), NEW w, NEW p \in BOOLEAN,
         p <=> (playing_ /\ \A k \in 1..n : sent[k] # "finished"),
         pending # NoTrack => w # 0
  PROVE  Told(line, SubSeq(sent, n + 1, Len(sent)), pending, w, p, snd, ask)
  <1>1. PICK rest : rest = SubSeq(sent, n + 1, Len(sent)) OBVIOUS
  <1>2. /\ Elems(sent) = {sent[k] : k \in 1..n} \cup Elems(rest)
        /\ OneEnd(sent) => /\ OneEnd(rest)
                           /\ \A k \in 1..n : sent[k] = "finished" => "finished" \notin Elems(rest)
    <2>1. sent \in Seq(Replies) BY DEF Wired
    <2> QED BY <1>1, <2>1, Left
  <1>3. "error" \notin Elems(rest) BY <1>2 DEF Wired, Told
  <1>4. Held(line, rest, pending, w, snd, ask) BY DEF Wired, Told, Held
  <1>5. Sent(line, rest, pending, p, snd, ask)
    <2> SUFFICES ASSUME pending = NoTrack, ask # NoTrack
                 PROVE  Sent(line, rest, pending, p, snd, ask)
      BY DEF Sent
    <2>1. /\ ~Has(line, "stop") /\ snd \in {ask, NoTrack} /\ OneEnd(sent)
          /\ \A f \in Elems(line) : f.cmd = "play" => f.track = ask
          /\ playing_ <=> (Has(line, "play") \/ snd # NoTrack \/ "finished" \in Elems(sent))
          /\ "finished" \in Elems(sent) => snd = NoTrack /\ ~Has(line, "play")
      BY DEF Wired, Told, Sent
    <2>2. CASE \E k \in 1..n : sent[k] = "finished"
      <3>1. "finished" \in Elems(sent) /\ "finished" \notin Elems(rest) BY <1>2, <2>1, <2>2
      <3>2. ~p BY <2>2
      <3> QED BY <1>2, <2>1, <3>1, <3>2 DEF Sent
    <2>3. CASE \A k \in 1..n : sent[k] # "finished"
      <3>1. "finished" \in Elems(sent) <=> "finished" \in Elems(rest) BY <1>2, <2>3
      <3>2. p <=> playing_ BY <2>3
      <3> QED BY <1>2, <2>1, <3>1, <3>2 DEF Sent
    <2> QED BY <2>2, <2>3
  <1>6. Told(line, rest, pending, w, p, snd, ask)
    BY <1>3, <1>4, <1>5 DEF Wired, Told
  <1> QED BY <1>1, <1>6

\* The wait may end when nothing is on the wire.
LEMMA ToldWait ==
  ASSUME NEW line, NEW sent, NEW pending, NEW wait, NEW playing_, NEW snd, NEW ask,
         Wired(line, sent, pending, wait, playing_, snd, ask),
         line = <<>>, sent = <<>>, pending # NoTrack, NEW w
  PROVE  Told(line, sent, pending, w, playing_, snd, ask)
  <1>1. ~Has(line, "stop") /\ ~Has(line, "play") BY DEF Has, Elems
  <1>2. Held(line, sent, pending, w, snd, ask) BY <1>1 DEF Wired, Told, Held, Silenced
  <1> QED BY <1>2 DEF Wired, Told, Sent

\* The track ends: that is said once, and not while another one is on its way.
LEMMA ToldEnd ==
  ASSUME NEW line, NEW sent, NEW pending, NEW wait, NEW playing_, NEW snd, NEW ask,
         Wired(line, sent, pending, wait, playing_, snd, ask), snd # NoTrack
  PROVE  Told(line, Append(sent, "finished"), pending, wait, playing_, NoTrack, ask)
  <1>1. sent \in Seq(Replies) /\ "finished" \in Replies BY DEF Wired, Replies
  <1>2. Elems(Append(sent, "finished")) = Elems(sent) \cup {"finished"}
    BY <1>1, Appended
  <1>3. Held(line, Append(sent, "finished"), pending, wait, NoTrack, ask)
    BY DEF Wired, Told, Held, Silenced
  <1>4. Sent(line, Append(sent, "finished"), pending, playing_, NoTrack, ask)
    <2> SUFFICES ASSUME pending = NoTrack, ask # NoTrack
                 PROVE  Sent(line, Append(sent, "finished"), pending, playing_, NoTrack, ask)
      BY DEF Sent
    <2>1. OneEnd(Append(sent, "finished"))
      BY <1>1, EndAppended DEF Wired, Told, Sent
    <2> QED BY <1>2, <2>1 DEF Wired, Told, Sent
  <1> QED BY <1>2, <1>3, <1>4 DEF Wired, Told, Silenced

\* What the player sounds once it has taken a command, and what it answers.
Sounding(f, snd) ==
  CASE f.cmd = "stop" -> NoTrack
    [] f.cmd = "play" /\ snd = NoTrack -> f.track
    [] OTHER -> snd

\* The player takes a command: nothing it is sent finds it sounding another
\* track, and what it acknowledges is no end of a track.
LEMMA ToldObeyed ==
  ASSUME NEW line, NEW sent, NEW pending, NEW wait, NEW playing_, NEW snd, NEW ask,
         Wired(line, sent, pending, wait, playing_, snd, ask), line # <<>>,
         NEW answer, answer \in {sent, Append(sent, "ack")},
         Head(line).cmd = "volume" => answer = sent
  PROVE  Told(Tail(line), answer, pending, wait, playing_, Sounding(Head(line), snd), ask)
  <1>1. PICK f, rest : f = Head(line) /\ rest = Tail(line) OBVIOUS
  <1>2. line \in Seq(Frames) /\ PlayComesFirst(line) BY DEF Wired, Told
  <1>3. /\ Elems(line) = {f} \cup Elems(rest)
        /\ \A c : Has(line, c) <=> f.cmd = c \/ Has(rest, c)
        /\ PlayComesFirst(rest)
        /\ f.cmd # "volume" => ~Has(rest, "play")
    BY <1>1, <1>2, Taken
  <1>4. f.cmd \in {"stop", "play", "volume"}
    <2>1. f \in Frames BY <1>1, <1>2
    <2> QED BY <2>1 DEF Frames, Stop, Play, Volume
  <1>5. sent \in Seq(Replies) /\ "ack" \in Replies BY DEF Wired, Replies
  <1>6. /\ "error" \notin Elems(answer)
        /\ "finished" \in Elems(answer) <=> "finished" \in Elems(sent)
        /\ OneEnd(sent) => OneEnd(answer)
    <2>1. Elems(Append(sent, "ack")) = Elems(sent) \cup {"ack"} BY <1>5, Appended
    <2>2. OneEnd(sent) => OneEnd(Append(sent, "ack")) BY <1>5, EndAppended
    <2>3. "error" \notin Elems(sent) BY DEF Wired, Told
    <2>4. CASE answer = sent BY <2>3, <2>4
    <2>5. CASE answer = Append(sent, "ack")
      <3>1. Elems(answer) = Elems(sent) \cup {"ack"} BY <2>1, <2>5
      <3>2. OneEnd(sent) => OneEnd(answer) BY <2>2, <2>5
      <3> QED BY <2>3, <3>1, <3>2
    <2> QED BY <2>4, <2>5
  <1>7. PICK now : now = Sounding(f, snd) OBVIOUS
  <1>8. CASE f.cmd = "stop"
    <2>1. /\ Has(line, "stop") /\ ~Has(rest, "play") /\ ~Has(line, "play")
          /\ now = NoTrack
      BY <1>3, <1>7, <1>8 DEF Sounding
    <2>2. Held(rest, answer, pending, wait, now, ask)
      BY <2>1 DEF Wired, Told, Held, Silenced
    <2>3. ~(pending = NoTrack /\ ask # NoTrack) BY <2>1 DEF Wired, Told, Sent
    <2>4. Told(rest, answer, pending, wait, playing_, now, ask)
      BY <1>3, <1>6, <2>1, <2>2, <2>3 DEF Wired, Told, Sent, Silenced
    <2> QED BY <1>1, <1>7, <2>4
  <1>9. CASE f.cmd = "play"
    <2>1. Has(line, "play") /\ ~Has(rest, "play") /\ (Has(line, "stop") <=> Has(rest, "stop"))
      BY <1>3, <1>9
    <2>2. snd = NoTrack /\ now = f.track
      <3>1. snd = NoTrack BY <2>1 DEF Wired, Told
      <3> QED BY <1>7, <1>9, <3>1 DEF Sounding
    <2>3. Held(rest, answer, pending, wait, now, ask)
      BY <2>1 DEF Wired, Told, Held, Silenced
    <2>4. Sent(rest, answer, pending, playing_, now, ask)
      <3> SUFFICES ASSUME pending = NoTrack, ask # NoTrack
                   PROVE  Sent(rest, answer, pending, playing_, now, ask)
        BY DEF Sent
      <3>1. /\ ~Has(line, "stop") /\ OneEnd(sent) /\ playing_
            /\ f.track = ask /\ "finished" \notin Elems(sent)
        BY <1>3, <1>9, <2>1 DEF Wired, Told, Sent
      <3>2. \A g \in Elems(rest) : g.cmd = "play" => g.track = ask
        BY <2>1 DEF Has
      <3> QED BY <1>6, <2>1, <2>2, <3>1, <3>2 DEF Sent
    <2>5. Told(rest, answer, pending, wait, playing_, now, ask)
      BY <1>3, <1>6, <2>1, <2>3, <2>4 DEF Wired, Told, Silenced
    <2> QED BY <1>1, <1>7, <2>5
  <1>10. CASE f.cmd = "volume"
    <2>1. /\ now = snd /\ answer = sent
          /\ Has(line, "stop") <=> Has(rest, "stop")
          /\ Has(line, "play") <=> Has(rest, "play")
      BY <1>1, <1>3, <1>7, <1>10 DEF Sounding
    <2>2. Held(rest, answer, pending, wait, now, ask)
      BY <2>1 DEF Wired, Told, Held, Silenced
    <2>3. Sent(rest, answer, pending, playing_, now, ask)
      BY <1>3, <2>1 DEF Wired, Told, Sent
    <2>4. Told(rest, answer, pending, wait, playing_, now, ask)
      BY <1>3, <2>1, <2>2, <2>3 DEF Wired, Told, Silenced
    <2> QED BY <1>1, <1>7, <2>4
  <1> QED BY <1>4, <1>8, <1>9, <1>10

\* Frames that are no error send nothing: an acknowledgement ends the wait
\* early, the end of a track clears the flag.
LEMMA TakeCalm ==
  ASSUME NEW d \in Driver, NEW n \in Nat,
         \A k \in 1..n : replies[k] \in {"ack", "finished"}
  PROVE  /\ Take(d, n).line = d.line /\ Take(d, n).pending = d.pending
         /\ Take(d, n).wait \in {d.wait, 1}
         /\ Take(d, n).playing <=>
              (d.playing /\ \A k \in 1..n : replies[k] # "finished")
         /\ n = 0 => Take(d, n) = d
  <1>1. PICK f : /\ f[0] = d /\ Take(d, n) = f[n]
                 /\ \A k \in 1..n : f[k] = OnFrame(f[k - 1], replies[k])
    BY TakeReads
  <1> DEFINE Fields == [playing : BOOLEAN, pending : Tracks \cup {NoTrack}, wait : Nat \cup {d.wait},
                        retries : {d.retries}, last : {d.last}, line : {d.line}]
             Calm(e, j) == /\ e \in Fields /\ e.pending = d.pending /\ e.wait \in {d.wait, 1}
                           /\ e.playing <=> (d.playing /\ \A k \in 1..j : replies[k] # "finished")
             T == {j \in Nat : j <= n => Calm(f[j], j)}
  <1>2. 0 \in T
    <2>1. d \in Fields BY DEF Driver
    <2> HIDE DEF Fields
    <2>2. Calm(d, 0) BY <2>1
    <2> QED BY <1>1, <2>2
  <1>3. ASSUME NEW j \in Nat, j \in T PROVE j + 1 \in T
    <2> SUFFICES ASSUME j + 1 <= n PROVE Calm(f[j + 1], j + 1) OBVIOUS
    <2>1. j <= n /\ j + 1 \in 1..n /\ (j + 1) - 1 = j OBVIOUS
    <2>2. PICK e, r : e = f[j] /\ r = replies[j + 1] OBVIOUS
    <2>3. f[j + 1] = OnFrame(e, r) BY <1>1, <2>1, <2>2
    <2>4. Calm(e, j) BY <1>3, <2>1, <2>2
    <2>5. r \in {"ack", "finished"} BY <2>1, <2>2
    <2>6. (\A k \in 1..(j + 1) : replies[k] # "finished") <=>
            (r # "finished" /\ \A k \in 1..j : replies[k] # "finished")
      <3>1. \A k \in 1..(j + 1) : k \in 1..j \/ k = j + 1 OBVIOUS
      <3>2. \A k \in 1..j : k \in 1..(j + 1) OBVIOUS
      <3>3. j + 1 \in 1..(j + 1) OBVIOUS
      <3> QED BY <2>2, <3>1, <3>2, <3>3
    <2>7. CASE r = "ack"
      <3>1. OnFrame(e, r) =
              [e EXCEPT !.wait = IF e.pending # NoTrack THEN 1 ELSE @]
        BY <2>7 DEF OnFrame
      <3> QED BY <2>3, <2>4, <2>6, <2>7, <3>1
    <2>8. CASE r = "finished"
      <3>1. OnFrame(e, r) = [e EXCEPT !.playing = FALSE]
        BY <2>8 DEF OnFrame
      <3>2. /\ f[j + 1] \in Fields /\ f[j + 1].pending = d.pending
            /\ f[j + 1].wait \in {d.wait, 1}
        <4>1. e \in Fields /\ e.pending = d.pending /\ e.wait \in {d.wait, 1} BY <2>4
        <4>2. f[j + 1] = [e EXCEPT !.playing = FALSE] BY <2>3, <3>1
        <4> HIDE DEF T, Calm
        <4> QED BY <4>1, <4>2
      <3>3. ~f[j + 1].playing BY <2>3, <2>4, <3>1
      <3>4. ~(\A k \in 1..(j + 1) : replies[k] # "finished") BY <2>6, <2>8
      <3> QED BY <3>2, <3>3, <3>4
    <2> QED BY <2>5, <2>7, <2>8
  <1>4. Calm(f[n], n)
    <2> HIDE DEF T, Calm
    <2>1. Nat \subseteq T
      <3>1. \A j \in Nat : j \in T => j + 1 \in T BY <1>3
      <3> QED BY <1>2, <3>1, AllNaturals
    <2> QED BY <2>1 DEF T
  <1>5. /\ f[n].line = d.line /\ f[n].pending = d.pending /\ f[n].wait \in {d.wait, 1}
        /\ f[n].playing <=> (d.playing /\ \A k \in 1..n : replies[k] # "finished")
    BY <1>4
  <1> QED BY <1>1, <1>5

\* In the initial state nothing is on the wire and nothing sounds.
LEMMA ToldInit ==
  ASSUME SoundInit PROVE ToldInv
  <1>1. PICK q : q = <<>> OBVIOUS
  <1>2. Elems(q) = {} /\ PlayComesFirst(q) BY <1>1 DEF Elems, PlayComesFirst
  <1>3. ~Has(q, "stop") /\ ~Has(q, "play") BY <1>2 DEF Has
  <1>4. Told(q, q, NoTrack, 0, FALSE, NoTrack, NoTrack)
    BY <1>2, <1>3 DEF Told, Held, Sent, Silenced
  <1>5. /\ df.line = q /\ replies = q /\ df.pending = NoTrack /\ df.wait = 0
        /\ df.playing = FALSE /\ sounding = NoTrack /\ asked = NoTrack
    BY <1>1 DEF SoundInit
  <1> QED BY <1>4, <1>5, SoundStarts DEF ToldInv

\* Every step keeps it, or is the first refusal or loss.
LEMMA ToldStep ==
  ASSUME ToldInv, [SoundNext]_soundVars
  PROVE  ToldInv'
  <1>1. Routed' BY SoundStep DEF ToldInv
  <1>2. /\ df \in Driver /\ replies \in Seq(Replies)
        /\ {sounding, asked} \subseteq Tracks \cup {NoTrack}
        /\ errors \in Nat /\ lost \in Nat
    <2>1. SoundTypeOK BY DEF ToldInv, Routed
    <2>2. errors \in 0..MaxErrors /\ lost \in 0..MaxLost BY <2>1 DEF SoundTypeOK
    <2>3. errors \in Nat /\ lost \in Nat BY <2>2, SoundAssumption
    <2> QED BY <2>1, <2>3 DEF SoundTypeOK, Driver, Replies
  <1> DEFINE Truth == Told(df.line, replies, df.pending, df.wait, df.playing, sounding, asked)
  <1> SUFFICES ASSUME errors' = 0, lost' = 0 PROVE Truth'
    BY <1>1 DEF ToldInv
  <1>3. /\ errors' \in {errors, errors + 1} /\ lost' \in {lost, lost + 1}
        /\ ~Refuse /\ ~LoseCommand /\ ~LoseReply
    <2>1. errors' \in {errors, errors + 1} /\ lost' \in {lost, lost + 1}
      BY DEF SoundNext, Command, PlayOnTrack, PlayOnBuzzer,
         PlayOnMp3, PlayOnStream, StopScope, SetMuted,
         SetVolume, Commanded, TickTrack, Pass, Player,
         Obey, Refuse, LoseCommand, LoseReply,
         FinishTrack, FinishOther, bounds, soundVars
    <2>2. ~Refuse BY <1>2 DEF Refuse
    <2>3. ~LoseCommand /\ ~LoseReply
      BY <1>2 DEF LoseCommand, LoseReply
    <2> QED BY <2>1, <2>2, <2>3
  <1>4. errors = 0 /\ lost = 0 BY <1>2, <1>3
  <1>5. Wired(df.line, replies, df.pending, df.wait, df.playing, sounding, asked)
    <2>1. Truth BY <1>4 DEF ToldInv
    <2>2. /\ df.line \in Seq(Frames) /\ df.pending \in Tracks \cup {NoTrack}
          /\ df.playing \in BOOLEAN
      BY <1>2 DEF Driver
    <2>3. df.wait \in Nat BY <1>2, SoundAssumption DEF Driver
    <2> QED BY <1>2, <2>1, <2>2, <2>3 DEF Wired
  <1>6. ASSUME df' = StopTrack, asked' = NoTrack, UNCHANGED <<replies, sounding>>
        PROVE  Truth'
    <2>1. /\ df'.line = Append(df.line, Stop(FALSE)) /\ df'.pending = NoTrack
          /\ df'.wait = df.wait /\ df'.playing = FALSE
      <3> DEFINE d == [df EXCEPT !.pending = NoTrack, !.playing = FALSE]
      <3>1. /\ d \in Driver /\ d.line = df.line /\ d.pending = NoTrack
            /\ d.wait = df.wait /\ d.playing = FALSE
        BY <1>2 DEF Driver
      <3>2. StopTrack = Send(d, Stop(FALSE)) BY DEF StopTrack
      <3>3. Stop(FALSE) \in Frames BY DEF Frames
      <3> HIDE DEF d
      <3> QED BY <1>6, <3>1, <3>2, <3>3, SendType
    <2>2. Told(Append(df.line, Stop(FALSE)), replies, NoTrack, df.wait, FALSE,
               sounding, NoTrack)
      BY <1>5, ToldToStop
    <2> QED BY <1>6, <2>1, <2>2
  <1>7. CASE Command
    <2>1. Commanded
      BY <1>7 DEF Command, PlayOnTrack, PlayOnBuzzer, PlayOnMp3,
         PlayOnStream, StopScope, SetMuted, SetVolume
    <2>2. UNCHANGED <<replies, sounding>> BY <2>1 DEF Commanded
    <2>3. ASSUME NEW t \in Tracks, PlayOnTrack(t) PROVE Truth'
      <3>1. /\ df'.line = Append(df.line, Stop(TRUE)) /\ df'.pending = t
            /\ df'.wait = StopReplyTimeout /\ df'.playing = TRUE
        <4> DEFINE d == [df EXCEPT !.retries = MaxRetries, !.pending = t,
                                   !.wait = StopReplyTimeout, !.playing = TRUE]
        <4>1. MaxRetries \in 0..MaxRetries /\ StopReplyTimeout \in 0..StopReplyTimeout
          BY SoundAssumption
        <4>2. /\ d \in Driver /\ d.line = df.line /\ d.pending = t
              /\ d.wait = StopReplyTimeout /\ d.playing = TRUE
          BY <1>2, <4>1 DEF Driver
        <4>3. df' = Send(d, Stop(TRUE))
          BY <2>3 DEF PlayOnTrack, PlayTrack
        <4>4. Stop(TRUE) \in Frames BY DEF Frames
        <4> HIDE DEF d
        <4>5. /\ df'.line = Append(d.line, Stop(TRUE)) /\ df'.pending = d.pending
              /\ df'.playing = d.playing /\ df'.wait = d.wait
          BY <4>2, <4>3, <4>4, SendType
        <4> QED BY <4>2, <4>5
      <3>2. asked' = t BY <2>3 DEF PlayOnTrack
      <3>3. Told(Append(df.line, Stop(TRUE)), replies, t, StopReplyTimeout, TRUE,
                 sounding, t)
        BY <1>5, ToldAsked
      <3> QED BY <2>2, <3>1, <3>2, <3>3
    <2>4. CASE PlayOnBuzzer \/ PlayOnMp3
      BY <1>6, <2>2, <2>4 DEF PlayOnBuzzer, PlayOnMp3
    <2>5. ASSUME NEW scope \in {"sounds", "stream", "all"}, StopScope(scope)
          PROVE  Truth'
      <3>1. CASE scope = "stream"
        <4>1. UNCHANGED <<df, asked>>
          BY <2>5, <3>1 DEF StopScope, promise
        <4> QED BY <1>5, <2>2, <4>1 DEF Wired
      <3>2. CASE scope # "stream"
        BY <1>6, <2>2, <2>5, <3>2 DEF StopScope, StopSounds
      <3> QED BY <3>1, <3>2
    <2>6. CASE PlayOnStream \/ SetMuted
      <3>1. UNCHANGED <<df, asked>>
        BY <2>6 DEF PlayOnStream, SetMuted, promise
      <3> QED BY <1>5, <2>2, <3>1 DEF Wired
    <2>7. CASE SetVolume
      <3>1. /\ df'.line = Append(df.line, Volume) /\ df'.pending = df.pending
            /\ df'.wait = df.wait /\ df'.playing = df.playing
        <4>1. Volume \in Frames BY DEF Frames
        <4> QED BY <1>2, <2>7, <4>1, SendType DEF SetVolume
      <3>2. asked' = asked BY <2>7 DEF SetVolume, promise
      <3> QED BY <1>5, <2>2, <3>1, <3>2, ToldVolume
    <2> QED BY <1>7, <2>3, <2>4, <2>5, <2>6, <2>7 DEF Command
  <1>8. CASE TickTrack
    <2>1. PICK d : d = Take(df, Budget) OBVIOUS
    <2>2. Budget \in Nat /\ Budget <= Len(replies) BY <1>2, BudgetFits
    <2>3. \A k \in 1..Budget : replies[k] \in {"ack", "finished"}
      <3>1. ASSUME NEW k \in 1..Budget PROVE replies[k] \in {"ack", "finished"}
        <4>1. k \in 1..Len(replies) BY <1>2, <2>2
        <4>2. replies[k] \in Elems(replies) BY <4>1 DEF Elems
        <4>3. replies[k] # "error" BY <1>5, <4>2 DEF Wired, Told
        <4>4. replies[k] \in Replies BY <1>2, <4>1
        <4> QED BY <4>3, <4>4 DEF Replies
      <3> QED BY <3>1
    <2>4. /\ d.line = df.line /\ d.pending = df.pending /\ d.wait \in {df.wait, 1}
          /\ d.playing <=> (df.playing /\ \A k \in 1..Budget : replies[k] # "finished")
          /\ Budget = 0 => d = df
      BY <1>2, <2>1, <2>2, <2>3, TakeCalm
    <2>5. d \in Driver BY <1>2, <2>1, BudgetFits, TakeType
    <2>6. /\ df' = IF Due(d) THEN SendPending(d) ELSE d
          /\ replies' = SubSeq(replies, Budget + 1, Len(replies))
          /\ UNCHANGED <<sounding, asked>>
      BY <1>8, <2>1 DEF TickTrack, Budget, promise
    <2>7. CASE Due(d)
      <3>1. df.pending # NoTrack /\ df.wait = 0 BY <2>4, <2>7 DEF Due
      <3>2. replies = <<>> BY <1>5, <3>1 DEF Wired, Told, Held
      <3>3. Budget = 0 /\ d = df BY <2>2, <2>4, <3>2
      <3>4. replies' = <<>> BY <2>6, <3>2, <3>3
      <3>5. /\ df'.line = Append(df.line, Play(df.pending)) /\ df'.pending = NoTrack
            /\ df'.wait = df.wait /\ df'.playing = TRUE
        <4> DEFINE e == [df EXCEPT !.pending = NoTrack, !.playing = TRUE]
        <4>1. /\ e \in Driver /\ e.line = df.line /\ e.pending = NoTrack
              /\ e.wait = df.wait /\ e.playing = TRUE
          BY <1>2 DEF Driver
        <4>2. df' = Send(e, Play(df.pending))
          BY <2>6, <2>7, <3>3 DEF SendPending
        <4>3. Play(df.pending) \in Frames
          <5>1. df.pending \in Tracks BY <1>2, <3>1 DEF Driver
          <5> QED BY <5>1 DEF Frames
        <4> HIDE DEF e
        <4> QED BY <4>1, <4>2, <4>3, SendType
      <3>6. Told(Append(df.line, Play(df.pending)), <<>>, NoTrack, df.wait, TRUE,
                 sounding, asked)
        BY <1>5, <3>1, ToldDue
      <3> QED BY <2>6, <3>4, <3>5, <3>6
    <2>8. CASE ~Due(d)
      <3>1. df' = d BY <2>6, <2>8
      <3>2. df.pending # NoTrack => d.wait # 0 BY <2>4, <2>8 DEF Due
      <3>3. d.playing \in BOOLEAN BY <2>5 DEF Driver
      <3>4. Told(df.line, SubSeq(replies, Budget + 1, Len(replies)), df.pending,
                 d.wait, d.playing, sounding, asked)
        BY <1>5, <2>2, <2>4, <3>2, <3>3, ToldRead
      <3> QED BY <2>4, <2>6, <3>1, <3>4
    <2> QED BY <2>7, <2>8
  <1>9. CASE Pass
    <2>1. /\ df.pending # NoTrack /\ df.line = <<>> /\ replies = <<>>
          /\ UNCHANGED <<replies, sounding, asked>>
      BY <1>2, <1>4, <1>9 DEF Pass, promise
    <2>2. /\ df'.line = df.line /\ df'.pending = df.pending /\ df'.playing = df.playing
      BY <1>2, <1>9 DEF Pass, Driver
    <2> QED BY <1>5, <2>1, <2>2, ToldWait
  <1>10. CASE Obey
    <2>1. df.line # <<>> /\ df' = [df EXCEPT !.line = Tail(@)] /\ asked' = asked
      BY <1>10 DEF Obey, Received
    <2>2. /\ df'.line = Tail(df.line) /\ df'.pending = df.pending
          /\ df'.wait = df.wait /\ df'.playing = df.playing
      BY <1>2, <2>1 DEF Driver
    <2>3. PICK f : f = Head(df.line) OBVIOUS
    <2>4. f \in Frames BY <1>2, <2>1, <2>3 DEF Driver
    <2>5. f.cmd \in {"stop", "play", "volume"} /\ (f.cmd = "volume" => ~f.ack)
      BY <2>4 DEF Frames, Stop, Play, Volume
    <2>6. sounding' = Sounding(f, sounding)
      BY <1>10, <2>3, <2>5 DEF Obey, Sounding
    <2>7. replies' \in {replies, Append(replies, "ack")} /\ (f.cmd = "volume" => replies' = replies)
      BY <1>10, <2>3, <2>5 DEF Obey, Reply
    <2>8. PICK answer : answer = replies' OBVIOUS
    <2>9. Told(Tail(df.line), answer, df.pending, df.wait, df.playing,
               Sounding(f, sounding), asked)
      BY <1>5, <2>1, <2>3, <2>7, <2>8, ToldObeyed
    <2> QED BY <2>1, <2>2, <2>6, <2>8, <2>9
  <1>11. CASE FinishTrack
    <2>1. /\ sounding # NoTrack /\ sounding' = NoTrack
          /\ replies' = Append(replies, "finished") /\ UNCHANGED <<df, asked>>
      BY <1>11 DEF FinishTrack, promise
    <2> QED BY <1>5, <2>1, ToldEnd
  <1>12. CASE FinishOther \/ UNCHANGED soundVars
    <2>1. UNCHANGED <<df, replies, sounding, asked>>
      BY <1>12 DEF FinishOther, soundVars, driver, promise
    <2> QED BY <1>5, <2>1 DEF Wired
  <1> QED BY <1>3, <1>7, <1>8, <1>9, <1>10, <1>11, <1>12 DEF SoundNext, Player

\* So it holds throughout.
LEMMA ToldAlways == SoundSpec => []ToldInv
  <1>1. ToldInv /\ [SoundNext]_soundVars => ToldInv' BY ToldStep
  <1> QED BY <1>1, ToldInit, PTL DEF SoundSpec

\* At most one output sounds, and none after a stop, as long as no frame was
\* lost or refused: while the player is asked for nothing it is silent or has a
\* stop on its way, behind every play command.  The router commands one output
\* at most whatever is lost (AudioRouter.cpp, DfTrackSink.h).
THEOREM SoundCorrect ==
  SoundSpec => []SoundInv
  <1>1. ToldInv => SoundInv
    <2> SUFFICES ASSUME ToldInv PROVE SoundInv OBVIOUS
    <2>1. SoundTypeOK /\ OneCommanded BY DEF ToldInv, Routed
    <2>2. OneSound
      <3> SUFFICES ASSUME asked = NoTrack, errors = 0, lost = 0
                   PROVE  /\ sounding # NoTrack => StopFollows(0)
                          /\ \A i \in DOMAIN df.line :
                               df.line[i].cmd = "play" => StopFollows(i)
        BY DEF OneSound
      <3> DEFINE q == df.line
      <3>1. q \in Seq(Frames) BY <2>1 DEF SoundTypeOK
      <3>2. Len(q) \in Nat /\ DOMAIN q = 1..Len(q) BY <3>1
      <3>3. Silenced(q, sounding) /\ PlayComesFirst(q) BY DEF ToldInv, Told
      <3>4. CASE Has(q, "stop")
        <4>1. PICK j \in 1..Len(q) : q[j].cmd = "stop" BY <3>4 DEF Has, Elems
        <4>2. StopFollows(0) BY <4>1 DEF StopFollows
        <4>3. ASSUME NEW i \in 1..Len(q), q[i].cmd = "play" PROVE StopFollows(i)
          <5>1. j \notin 1..(i - 1) BY <3>3, <4>1, <4>3 DEF PlayComesFirst
          <5>2. j \in (i + 1)..Len(q) BY <4>1, <4>3, <5>1, <3>2
          <5> QED BY <4>1, <5>2 DEF StopFollows
        <4> QED BY <3>2, <4>2, <4>3
      <3>5. CASE ~Has(q, "stop")
        <4>1. sounding = NoTrack /\ ~Has(q, "play") BY <3>3, <3>5 DEF Silenced
        <4> QED BY <3>2, <4>1 DEF Has, Elems
      <3> QED BY <3>4, <3>5
    <2> QED BY <2>1, <2>2 DEF SoundInv
  <1> QED BY <1>1, ToldAlways, PTL

\* Once the wire is silent, with nothing refused and nothing lost, the player
\* sounds the track last asked for or none, and isPlaying() says which.
THEOREM SettledCorrect ==
  SoundSpec => []SettledTruth
  <1>2. ToldInv => SettledTruth
    <2> SUFFICES ASSUME ToldInv, Quiet, errors = 0, lost = 0
                 PROVE  sounding \in {asked, NoTrack} /\ (df.playing <=> sounding # NoTrack)
      BY DEF SettledTruth
    <2>1. Told(df.line, replies, df.pending, df.wait, df.playing, sounding, asked)
      BY DEF ToldInv
    <2>2. df.line = <<>> /\ replies = <<>> /\ df.pending = NoTrack BY DEF Quiet
    <2>3. Elems(df.line) = {} /\ Elems(replies) = {} BY <2>2 DEF Elems
    <2>4. ~Has(df.line, "stop") /\ ~Has(df.line, "play") BY <2>3 DEF Has
    <2>5. CASE asked = NoTrack BY <2>1, <2>4, <2>5 DEF Told, Silenced
    <2>6. CASE asked # NoTrack BY <2>1, <2>2, <2>3, <2>4, <2>6 DEF Told, Sent
    <2> QED BY <2>5, <2>6
  <1> QED BY <1>2, ToldAlways, PTL

=============================================================================
