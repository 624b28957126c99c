-------------------------- MODULE ScriptHttp_proofs --------------------------
(***************************************************************************)
(* Proofs about ScriptHttp: the worker's lossy queue never loses a         *)
(* request, and a callback runs in the install that registered it.  Then   *)
(* about FetchWindow: a request that is late was held back and retried.    *)
(***************************************************************************)
EXTENDS ScriptHttp, FetchWindow, TLAPS

USE HttpAssumption

\* What is appended to a queue comes on top of what it holds.
LEMMA AppendKeeps ==
  ASSUME NEW S, NEW q \in Seq(S), NEW v \in S
  PROVE  /\ Append(q, v) \in Seq(S)
         /\ Len(Append(q, v)) = Len(q) + 1
         /\ Elements(Append(q, v)) = Elements(q) \cup {v}
  <1>1. Append(q, v) \in Seq(S) /\ Len(Append(q, v)) = Len(q) + 1 OBVIOUS
  <1>2. \A i \in 1..Len(q) : Append(q, v)[i] = q[i] OBVIOUS
  <1>3. Append(q, v)[Len(q) + 1] = v OBVIOUS
  <1>4. 1..(Len(q) + 1) = 1..Len(q) \cup {Len(q) + 1} OBVIOUS
  <1> QED BY <1>1, <1>2, <1>3, <1>4 DEF Elements

\* Whatever it drops, it stays a queue of the same things.
LEMMA PushType ==
  ASSUME NEW S, NEW q \in Seq(S), NEW v \in S, NEW cap \in Nat \ {0}
  PROVE  Push(q, v, cap) \in Seq(S)
  BY DEF Push

\* The head leaves, the rest stays.
LEMMA PopKeeps ==
  ASSUME NEW S, NEW q \in Seq(S), q # <<>>
  PROVE  /\ Head(q) \in S /\ Tail(q) \in Seq(S)
         /\ Len(q) > 0 /\ Len(Tail(q)) = Len(q) - 1
         /\ Elements(q) = Elements(Tail(q)) \cup {Head(q)}
  <1>1. Len(q) \in Nat /\ Len(q) > 0 /\ Head(q) = q[1] OBVIOUS
  <1>2. Tail(q) \in Seq(S) /\ Len(Tail(q)) = Len(q) - 1 OBVIOUS
  <1>3. \A i \in 1..(Len(q) - 1) : Tail(q)[i] = q[i + 1] OBVIOUS
  <1>4. Elements(q) \subseteq Elements(Tail(q)) \cup {Head(q)}
    <2> SUFFICES ASSUME NEW i \in 1..Len(q), i # 1 PROVE q[i] \in Elements(Tail(q))
      BY <1>1 DEF Elements
    <2>1. i - 1 \in 1..(Len(q) - 1) BY <1>1
    <2>2. Tail(q)[i - 1] = q[i] BY <1>3, <2>1
    <2> QED BY <1>2, <2>1, <2>2 DEF Elements
  <1>5. Elements(Tail(q)) \cup {Head(q)} \subseteq Elements(q)
    <2> SUFFICES ASSUME NEW i \in 1..(Len(q) - 1) PROVE Tail(q)[i] \in Elements(q)
      BY <1>1, <1>2 DEF Elements
    <2>1. i + 1 \in 1..Len(q) BY <1>1
    <2> QED BY <1>3, <2>1 DEF Elements
  <1> QED BY <1>1, <1>2, <1>4, <1>5

\* A callback that is held belongs to a request that was made.
LEMMA RequestType ==
  ASSUME TypeOK, HostInv, NEW i \in cbs
  PROVE  i \in 1..Len(made) /\ made[i] \in Request /\ made[i].script \in Scripts
  <1>1. i \in 1..Len(made) BY DEF HostInv
  <1>2. made \in Seq(Request) BY DEF TypeOK
  <1>3. made[i] \in Request BY <1>1, <1>2
  <1> QED BY <1>1, <1>3 DEF Request

\* The initial state: nothing asked, nothing queued.
LEMMA InitInv == Init => IInv
  <1> SUFFICES ASSUME Init PROVE IInv OBVIOUS
  <1> USE DEF Init, Ids, Request
  <1>1. Elements(queue) = {} BY DEF Elements
  <1>2. TypeOK BY DEF TypeOK
  <1>3. PendingExact BY DEF PendingExact
  <1>4. NoRequestLost BY DEF NoRequestLost
  <1>5. HostInv BY DEF HostInv
  <1>6. WorkerInv BY <1>1 DEF WorkerInv
  <1>7. HeldByItsInstall BY DEF HeldByItsInstall
  <1>8. CallbackInItsInstall BY DEF CallbackInItsInstall
  <1> QED BY <1>2, <1>3, <1>4, <1>5, <1>6, <1>7, <1>8 DEF IInv

\* A script asks: the counter, the queue and the books change in step.
LEMMA AskInv == IInv /\ Ask => IInv'
  <1> SUFFICES ASSUME IInv, Ask PROVE IInv' OBVIOUS
  <1> USE DEF IInv, Request, Ids
  <1>1. ASSUME NEW s \in Scripts, NEW https \in BOOLEAN, AskRefused(s, https) PROVE IInv'
    <2>1. UNCHANGED <<kind, gen, broken, running, owned, overdue, cbs, phase,
                      vm, expired, sending, accepted, queue, pending, results, wpc, cur,
                      answered>>
      BY <1>1 DEF AskRefused, scripts, host
    <2>a. s \in Scripts /\ kind[s] # "none" /\ Len(made) < MaxId
      BY <1>1 DEF TypeOK, HostInv, AskRefused, Executing
    <2>b. RequestOf(s, https) \in Request BY <2>a DEF RequestOf, TypeOK
    <2>c. /\ made' \in Seq(Request) /\ Len(made') = Len(made) + 1
          /\ \A i \in 1..Len(made) : made'[i] = made[i]
          /\ made'[Len(made) + 1] = RequestOf(s, https)
      <3>1. made' = Append(made, RequestOf(s, https)) BY <1>1 DEF AskRefused
      <3> QED BY <2>b, <3>1 DEF TypeOK
    <2>2. TypeOK'
      <3>1. made' \in Seq(Request) /\ Len(made') <= MaxId BY <2>a, <2>c DEF TypeOK
      <3>2. fired' \in [Ids -> 0..MaxGen] BY <1>1 DEF TypeOK, AskRefused, Executing
      <3> QED BY <2>1, <3>1, <3>2 DEF TypeOK
    <2>3. PendingExact' BY <2>1 DEF PendingExact
    <2>4. NoRequestLost' BY <2>1 DEF NoRequestLost
    <2>5. HostInv'
      <3>1. Len(made) \in Nat BY DEF TypeOK
      <3>2. cbs' \cup accepted' \subseteq 1..Len(made') BY <2>1, <2>c, <3>1 DEF HostInv
      <3>3. sending' = None BY <1>1, <2>1 DEF AskRefused, Executing
      <3>4. \A i \in Ids : i > Len(made') => fired'[i] = 0
        <4>1. \A i \in Ids : i > Len(made) + 1 => fired'[i] = fired[i]
          BY <1>1, <3>1 DEF AskRefused, TypeOK
        <4>2. \A i \in Ids : i > Len(made) + 1 => i > Len(made) BY <3>1
        <4>3. \A i \in Ids : i > Len(made) => fired[i] = 0 BY DEF HostInv
        <4> QED BY <2>c, <4>1, <4>2, <4>3
      <3> QED BY <2>1, <3>2, <3>3, <3>4 DEF HostInv
    <2>6. WorkerInv' BY <2>1, <2>c DEF TypeOK, WorkerInv
    <2>7. HeldByItsInstall' 
      BY <2>1, <2>c DEF TypeOK, HeldByItsInstall, HostInv
    <2>8. CallbackInItsInstall'
      <3> SUFFICES ASSUME NEW i \in 1..(Len(made) + 1), made'[i].kind = "app"
                   PROVE  fired'[i] \in {0, made'[i].gen}
        BY <2>c DEF CallbackInItsInstall
      <3>0. Len(made) \in Nat BY DEF TypeOK
      <3>1. CASE i = Len(made) + 1
        <4>1. fired'[i] = gen[s] BY <1>1, <3>1, <2>a DEF AskRefused, TypeOK
        <4>2. made'[i].gen = gen[s] BY <2>c, <3>1 DEF RequestOf
        <4> QED BY <4>1, <4>2
      <3>2. CASE i \in 1..Len(made)
        <4>1. fired'[i] = fired[i] BY <1>1, <3>2, <2>a DEF AskRefused, TypeOK
        <4>2. made'[i] = made[i] BY <2>c, <3>2
        <4> QED BY <3>2, <4>1, <4>2 DEF CallbackInItsInstall
      <3> QED BY ONLY <3>0, <3>1, <3>2
    <2> QED BY <2>2, <2>3, <2>4, <2>5, <2>6, <2>7, <2>8
  <1>2. ASSUME NEW s \in Scripts, AskReserve(s) PROVE IInv'
    <2>1. UNCHANGED <<kind, gen, broken, running, made, owned, overdue, cbs,
                      phase, vm, expired, accepted, fired, queue, results, wpc, cur,
                      answered>>
      BY <1>2 DEF AskReserve, scripts, host
    <2>a. sending = None /\ sending' = s /\ s # None /\ pending' = pending + 1
      BY <1>2 DEF AskReserve, Executing
    <2>b. kind[s] # "none" /\ Len(made) < MaxId
      BY <1>2 DEF AskReserve, Executing, HostInv, TypeOK
    <2>2. TypeOK'
      <3>1. sending' \in Scripts \cup {None} BY <2>a
      <3>2. pending' \in 0..QueueCap BY <1>2, <2>a DEF AskReserve, TypeOK
      <3> QED BY <2>1, <3>1, <3>2 DEF TypeOK
    <2>3. PendingExact' BY <2>1, <2>a DEF PendingExact, TypeOK
    <2>4. NoRequestLost' BY <2>1 DEF NoRequestLost
    <2>5. HostInv' BY <2>1, <2>a, <2>b DEF HostInv
    <2>6. WorkerInv' BY <2>1 DEF WorkerInv
    <2>7. HeldByItsInstall' BY <2>1 DEF HeldByItsInstall
    <2>8. CallbackInItsInstall' BY <2>1 DEF CallbackInItsInstall
    <2> QED BY <2>2, <2>3, <2>4, <2>5, <2>6, <2>7, <2>8
  <1>3. ASSUME NEW https \in BOOLEAN, AskPush(https) PROVE IInv'
    <2>1. UNCHANGED <<kind, gen, broken, running, overdue, phase, vm,
                      expired, fired, pending, results, wpc, cur, answered>>
      BY <1>3 DEF AskPush, scripts, host
    <2>a. sending \in Scripts /\ kind[sending] # "none" /\ Len(made) < MaxId
      BY <1>3 DEF TypeOK, HostInv, AskPush
    <2>b. RequestOf(sending, https) \in Request BY <2>a DEF RequestOf, TypeOK
    <2>c. /\ made' \in Seq(Request) /\ Len(made') = Len(made) + 1
          /\ \A i \in 1..Len(made) : made'[i] = made[i]
          /\ made'[Len(made) + 1] = RequestOf(sending, https)
      <3>1. made' = Append(made, RequestOf(sending, https)) BY <1>3 DEF AskPush
      <3> QED BY <2>b, <3>1 DEF TypeOK
    <2>d. /\ Len(made) + 1 \in Ids
          /\ owned' = owned \cup {Len(made) + 1}
          /\ cbs' = cbs \cup {Len(made) + 1}
          /\ accepted' = accepted \cup {Len(made) + 1}
          /\ queue' = Push(queue, Len(made) + 1, QueueCap)
          /\ sending # None /\ sending' = None
      BY <1>3, <2>a DEF AskPush, TypeOK
    <2>e. Len(queue) < QueueCap
      <3>1. queue \in Seq(Ids) /\ pending \in Nat /\ pending <= QueueCap BY DEF TypeOK
      <3>2. Len(queue) \in Nat BY <3>1
      <3>3. pending >= Len(queue) + 1 BY <2>d, <3>2 DEF PendingExact
      <3> QED BY <3>1, <3>2, <3>3
    <2>f. /\ queue' \in Seq(Ids) /\ Len(queue') = Len(queue) + 1
          /\ Elements(queue') = Elements(queue) \cup {Len(made) + 1}
      <3>1. queue \in Seq(Ids) /\ QueueCap \in Nat BY DEF TypeOK
      <3> DEFINE id == Len(made) + 1
      <3>2. id \in Ids BY <2>d
      <3>3. Push(queue, id, QueueCap) = Append(queue, id) BY ONLY <2>e, <3>1 DEF Push
      <3>4. /\ Append(queue, id) \in Seq(Ids) /\ Len(Append(queue, id)) = Len(queue) + 1
            /\ Elements(Append(queue, id)) = Elements(queue) \cup {id}
        <4> HIDE DEF id, Ids
        <4> QED BY ONLY <3>1, <3>2, AppendKeeps
      <3> QED BY ONLY <2>d, <3>3, <3>4
    <2>2. TypeOK'
      <3>1. made' \in Seq(Request) /\ Len(made') <= MaxId BY <2>a, <2>c DEF TypeOK
      <3>2. owned' \in SUBSET Ids BY <2>d DEF TypeOK
      <3>3. cbs' \in SUBSET Ids BY <2>d DEF TypeOK
      <3>4. sending' \in Scripts \cup {None} BY <2>d
      <3>5. accepted' \in SUBSET Ids BY <2>d DEF TypeOK
      <3>6. queue' \in Seq(Ids) BY <2>f
      <3> QED BY <2>1, <3>1, <3>2, <3>3, <3>4, <3>5, <3>6 DEF TypeOK
    <2>3. PendingExact'
      <3>1. PendingExact /\ Len(queue) \in Nat BY DEF TypeOK
      <3> QED BY ONLY <2>1, <2>d, <2>f, <3>1 DEF PendingExact
    <2>4. NoRequestLost' BY <2>1, <2>d, <2>f DEF NoRequestLost
    <2>5. HostInv'
      <3>1. owned' \cup expired' \subseteq cbs' BY <2>1, <2>d DEF HostInv
      <3>2. owned' \cap expired' = {}
        <4>1. owned \cap expired = {} /\ Len(made) + 1 \notin expired BY DEF HostInv, TypeOK
        <4> QED BY ONLY <2>1, <2>d, <4>1
      <3>3. cbs' \cup accepted' \subseteq 1..Len(made')
        <4>1. cbs \cup accepted \subseteq 1..Len(made) /\ Len(made) \in Nat
          BY DEF HostInv, TypeOK
        <4> QED BY ONLY <2>c, <2>d, <4>1
      <3>4. \A i \in Ids : i > Len(made') => fired'[i] = 0 BY <2>1, <2>c DEF HostInv, TypeOK
      <3> QED BY <2>1, <2>d, <3>1, <3>2, <3>3, <3>4 DEF HostInv
    <2>6. WorkerInv'
      <3>1. WorkerInv /\ Len(made) \in Nat BY DEF TypeOK
      <3> QED BY ONLY <2>1, <2>c, <2>f, <3>1 DEF WorkerInv
    <2>7. HeldByItsInstall'
      <3> SUFFICES ASSUME NEW i \in cbs', made'[i].kind = "app"
                   PROVE  kind[made'[i].script] = "app" /\ gen[made'[i].script] = made'[i].gen
        BY <2>1 DEF HeldByItsInstall
      <3>1. CASE i = Len(made) + 1 BY <2>c, <3>1 DEF RequestOf
      <3>2. CASE i \in cbs
        BY <2>c, <3>2 DEF HeldByItsInstall, HostInv
      <3> QED BY <2>d, <3>1, <3>2
    <2>8. CallbackInItsInstall'
      <3> SUFFICES ASSUME NEW i \in 1..(Len(made) + 1), made'[i].kind = "app"
                   PROVE  fired[i] \in {0, made'[i].gen}
        BY <2>1, <2>c DEF CallbackInItsInstall
      <3>0. Len(made) \in Nat BY DEF TypeOK
      <3>1. CASE i = Len(made) + 1 BY <2>d, <3>1 DEF HostInv, TypeOK
      <3>2. CASE i \in 1..Len(made) BY <2>c, <3>2 DEF CallbackInItsInstall
      <3> QED BY ONLY <3>0, <3>1, <3>2
    <2> QED BY <2>2, <2>3, <2>4, <2>5, <2>6, <2>7, <2>8
  <1>4. ASSUME NEW s \in Scripts, HookFails(s) PROVE IInv'
    <2>1. UNCHANGED <<kind, gen, running, made, owned, overdue, cbs, phase,
                      expired, sending, accepted, fired, queue, pending, results, wpc,
                      cur, answered>>
      BY <1>4 DEF HookFails, scripts, host
    <2>2. TypeOK'
      <3>1. broken' \in [Scripts -> BOOLEAN] BY <1>4 DEF TypeOK, HookFails, Executing
      <3>2. vm' \in Scripts \cup {None} BY <1>4 DEF TypeOK, HookFails, Executing
      <3> QED BY <2>1, <3>1, <3>2 DEF TypeOK
    <2>3. PendingExact' BY <2>1 DEF PendingExact
    <2>4. NoRequestLost' BY <2>1 DEF NoRequestLost
    <2>5. HostInv' BY <1>4, <2>1 DEF HookFails, HostInv
    <2>6. WorkerInv' BY <2>1 DEF WorkerInv
    <2>7. HeldByItsInstall' BY <2>1 DEF HeldByItsInstall
    <2>8. CallbackInItsInstall' BY <2>1 DEF CallbackInItsInstall
    <2> QED BY <2>2, <2>3, <2>4, <2>5, <2>6, <2>7, <2>8
  <1> QED BY <1>1, <1>2, <1>3, <1>4 DEF Ask

\* Installing and removing: what is purged and what is not.
LEMMA ManageInv == IInv /\ Manage => IInv'
  <1> SUFFICES ASSUME IInv, Manage PROVE IInv' OBVIOUS
  <1> USE DEF IInv, Request, Ids
  <1>1. ASSUME NEW s \in Scripts, InstallApp(s) PROVE IInv'
    <2>1. UNCHANGED <<running, made, overdue, phase, vm, expired, sending,
                      accepted, fired, queue, pending, results, wpc, cur, answered>>
      BY <1>1 DEF InstallApp, scripts, host
    <2>a. phase = "idle" /\ sending = None /\ vm = None BY <1>1 DEF InstallApp, AtRest, HostInv
    <2>b. /\ owned' \subseteq owned /\ cbs' \subseteq cbs /\ owned' \subseteq cbs'
      BY <1>1 DEF InstallApp, Purge, RequestsOf, HostInv
    <2>2. TypeOK'
      <3>1. kind' \in [Scripts -> {"none", "app", "module"}] BY <1>1 DEF TypeOK, InstallApp
      <3>2. gen' \in [Scripts -> 0..MaxGen] BY <1>1 DEF TypeOK, InstallApp
      <3>3. broken' \in [Scripts -> BOOLEAN] BY <1>1 DEF TypeOK, InstallApp
      <3>4. owned' \in SUBSET Ids BY <2>b DEF TypeOK
      <3>5. cbs' \in SUBSET Ids BY <2>b DEF TypeOK
      <3> QED BY <2>1, <3>1, <3>2, <3>3, <3>4, <3>5 DEF TypeOK
    <2>3. PendingExact' BY <2>1 DEF PendingExact
    <2>4. NoRequestLost' BY <2>1 DEF NoRequestLost
    <2>5. HostInv' BY <1>1, <2>1, <2>a, <2>b DEF HostInv, TypeOK, InstallApp
    <2>6. WorkerInv' BY <2>1 DEF WorkerInv
    <2>7. HeldByItsInstall'
      <3> SUFFICES ASSUME NEW i \in cbs', made[i].kind = "app"
                   PROVE  kind'[made[i].script] = "app" /\ gen'[made[i].script] = made[i].gen
        BY <2>1 DEF HeldByItsInstall
      <3>1. kind[made[i].script] = "app" /\ gen[made[i].script] = made[i].gen
        BY <2>b DEF HeldByItsInstall
      <3>2. made[i].script # s BY <1>1, <3>1, <2>b DEF InstallApp, Purge, RequestsOf
      <3>3. made[i].script \in Scripts BY <2>b, RequestType
      <3> QED BY <1>1, <2>1, <3>1, <3>2, <3>3 DEF InstallApp, TypeOK
    <2>8. CallbackInItsInstall' BY <2>1 DEF CallbackInItsInstall
    <2> QED BY <2>2, <2>3, <2>4, <2>5, <2>6, <2>7, <2>8
  <1>2. ASSUME NEW s \in Scripts, InstallModule(s) PROVE IInv'
    <2>1. UNCHANGED <<running, made, overdue, expired, sending, accepted,
                      fired, queue, pending, results, wpc, cur, answered>>
      BY <1>2 DEF InstallModule, scripts, host
    <2>a. phase = "idle" /\ sending = None /\ vm = None BY <1>2 DEF InstallModule, AtRest, HostInv
    <2>b. /\ owned' \subseteq owned /\ cbs' \subseteq cbs /\ owned' \subseteq cbs'
      BY <1>2 DEF InstallModule, Purge, RequestsOf, HostInv
    <2>2. TypeOK'
      <3>1. kind' \in [Scripts -> {"none", "app", "module"}] BY <1>2 DEF TypeOK, InstallModule
      <3>2. gen' \in [Scripts -> 0..MaxGen] BY <1>2 DEF TypeOK, InstallModule
      <3>3. broken' \in [Scripts -> BOOLEAN] BY <1>2 DEF TypeOK, InstallModule
      <3>4. owned' \in SUBSET Ids BY <2>b DEF TypeOK
      <3>5. cbs' \in SUBSET Ids BY <2>b DEF TypeOK
      <3>6. phase' \in {"idle", "load", "drain", "sweep"} BY <1>2 DEF TypeOK, InstallModule
      <3>7. vm' \in Scripts \cup {None} BY <1>2 DEF TypeOK, InstallModule
      <3> QED BY <2>1, <3>1, <3>2, <3>3, <3>4, <3>5, <3>6, <3>7 DEF TypeOK
    <2>3. PendingExact' BY <2>1 DEF PendingExact
    <2>4. NoRequestLost' BY <2>1 DEF NoRequestLost
    <2>5. HostInv' BY <1>2, <2>1, <2>a, <2>b DEF HostInv, TypeOK, InstallModule
    <2>6. WorkerInv' BY <2>1 DEF WorkerInv
    <2>7. HeldByItsInstall'
      <3> SUFFICES ASSUME NEW i \in cbs', made[i].kind = "app"
                   PROVE  kind'[made[i].script] = "app" /\ gen'[made[i].script] = made[i].gen
        BY <2>1 DEF HeldByItsInstall
      <3>1. kind[made[i].script] = "app" /\ gen[made[i].script] = made[i].gen
        BY <2>b DEF HeldByItsInstall
      <3>2. made[i].script # s BY <1>2, <3>1, <2>b DEF InstallModule, Purge, RequestsOf
      <3>3. made[i].script \in Scripts BY <2>b, RequestType
      <3> QED BY <1>2, <2>1, <3>1, <3>2, <3>3 DEF InstallModule, TypeOK
    <2>8. CallbackInItsInstall' BY <2>1 DEF CallbackInItsInstall
    <2> QED BY <2>2, <2>3, <2>4, <2>5, <2>6, <2>7, <2>8
  <1>3. CASE ModuleLoaded
    <2>1. UNCHANGED <<kind, gen, broken, running, made, owned, overdue, cbs,
                      expired, sending, accepted, fired, queue, pending, results, wpc,
                      cur, answered>>
      BY <1>3 DEF ModuleLoaded, scripts, host
    <2>2. TypeOK'
      <3>1. phase' \in {"idle", "load", "drain", "sweep"} BY <1>3 DEF TypeOK, ModuleLoaded
      <3>2. vm' \in Scripts \cup {None} BY <1>3 DEF TypeOK, ModuleLoaded
      <3> QED BY <2>1, <3>1, <3>2 DEF TypeOK
    <2>3. PendingExact' BY <2>1 DEF PendingExact
    <2>4. NoRequestLost' BY <2>1 DEF NoRequestLost
    <2>5. HostInv' BY <1>3, <2>1 DEF ModuleLoaded, HostInv
    <2>6. WorkerInv' BY <2>1 DEF WorkerInv
    <2>7. HeldByItsInstall' BY <2>1 DEF HeldByItsInstall
    <2>8. CallbackInItsInstall' BY <2>1 DEF CallbackInItsInstall
    <2> QED BY <2>2, <2>3, <2>4, <2>5, <2>6, <2>7, <2>8
  <1>4. ASSUME NEW s \in Scripts, Remove(s) PROVE IInv'
    <2>1. UNCHANGED <<gen, running, made, overdue, phase, vm, expired,
                      sending, accepted, fired, queue, pending, results, wpc, cur,
                      answered>>
      BY <1>4 DEF Remove, scripts, host
    <2>a. phase = "idle" /\ sending = None /\ vm = None BY <1>4 DEF Remove, AtRest, HostInv
    <2>b. /\ owned' \subseteq owned /\ cbs' \subseteq cbs /\ owned' \subseteq cbs'
      BY <1>4 DEF Remove, Purge, RequestsOf, HostInv
    <2>2. TypeOK'
      <3>1. kind' \in [Scripts -> {"none", "app", "module"}] BY <1>4 DEF TypeOK, Remove
      <3>2. broken' \in [Scripts -> BOOLEAN] BY <1>4 DEF TypeOK, Remove
      <3>3. owned' \in SUBSET Ids BY <2>b DEF TypeOK
      <3>4. cbs' \in SUBSET Ids BY <2>b DEF TypeOK
      <3> QED BY <2>1, <3>1, <3>2, <3>3, <3>4 DEF TypeOK
    <2>3. PendingExact' BY <2>1 DEF PendingExact
    <2>4. NoRequestLost' BY <2>1 DEF NoRequestLost
    <2>5. HostInv' BY <1>4, <2>1, <2>a, <2>b DEF HostInv, TypeOK, Remove
    <2>6. WorkerInv' BY <2>1 DEF WorkerInv
    <2>7. HeldByItsInstall'
      <3> SUFFICES ASSUME NEW i \in cbs', made[i].kind = "app"
                   PROVE  kind'[made[i].script] = "app" /\ gen'[made[i].script] = made[i].gen
        BY <2>1 DEF HeldByItsInstall
      <3>1. kind[made[i].script] = "app" /\ gen[made[i].script] = made[i].gen
        BY <2>b DEF HeldByItsInstall
      <3>2. made[i].script # s BY <1>4, <3>1, <2>b DEF Remove, Purge, RequestsOf
      <3>3. made[i].script \in Scripts BY <2>b, RequestType
      <3> QED BY <1>4, <2>1, <3>1, <3>2, <3>3 DEF Remove, TypeOK
    <2>8. CallbackInItsInstall' BY <2>1 DEF CallbackInItsInstall
    <2> QED BY <2>2, <2>3, <2>4, <2>5, <2>6, <2>7, <2>8
  <1>5. ASSUME NEW s \in Scripts, SetRunning(s) PROVE IInv'
    <2>1. UNCHANGED <<kind, gen, broken, made, owned, overdue, cbs, phase,
                      vm, expired, sending, accepted, fired, queue, pending, results,
                      wpc, cur, answered>>
      BY <1>5 DEF SetRunning, scripts, host
    <2>2. TypeOK'
      <3>1. running' \in SUBSET Scripts BY <1>5 DEF TypeOK, SetRunning
      <3> QED BY <2>1, <3>1 DEF TypeOK
    <2>3. PendingExact' BY <2>1 DEF PendingExact
    <2>4. NoRequestLost' BY <2>1 DEF NoRequestLost
    <2>5. HostInv' BY <2>1 DEF HostInv
    <2>6. WorkerInv' BY <2>1 DEF WorkerInv
    <2>7. HeldByItsInstall' BY <2>1 DEF HeldByItsInstall
    <2>8. CallbackInItsInstall' BY <2>1 DEF CallbackInItsInstall
    <2> QED BY <2>2, <2>3, <2>4, <2>5, <2>6, <2>7, <2>8
  <1> QED BY <1>1, <1>2, <1>3, <1>4, <1>5 DEF Manage

\* A tick: results and timeouts race for the same entries.
LEMMA TickInv == IInv /\ Tick => IInv'
  <1> SUFFICES ASSUME IInv, Tick PROVE IInv' OBVIOUS
  <1> USE DEF IInv, Request, Ids
  <1>1. CASE TickStart
    <2>1. UNCHANGED <<kind, gen, broken, running, made, owned, overdue, cbs,
                      vm, expired, sending, accepted, fired, queue, pending, results,
                      wpc, cur, answered>>
      BY <1>1 DEF TickStart, scripts, host
    <2>2. TypeOK'
      <3>1. phase' \in {"idle", "load", "drain", "sweep"} BY <1>1 DEF TypeOK, TickStart, AtRest
      <3> QED BY <2>1, <3>1 DEF TypeOK
    <2>3. PendingExact' BY <2>1 DEF PendingExact
    <2>4. NoRequestLost' BY <2>1 DEF NoRequestLost
    <2>5. HostInv' BY <1>1, <2>1 DEF TickStart, AtRest, HostInv
    <2>6. WorkerInv' BY <2>1 DEF WorkerInv
    <2>7. HeldByItsInstall' BY <2>1 DEF HeldByItsInstall
    <2>8. CallbackInItsInstall' BY <2>1 DEF CallbackInItsInstall
    <2> QED BY <2>2, <2>3, <2>4, <2>5, <2>6, <2>7, <2>8
  <1>2. CASE DrainOne
    <2>1. UNCHANGED <<kind, gen, broken, running, made, overdue, phase,
                      expired, sending, accepted, queue, pending, wpc, cur, answered>>
      BY <1>2 DEF DrainOne, scripts, host
    <2>p. /\ phase = "drain" /\ results # <<>> /\ results' = Tail(results)
          /\ owned' = owned \ {Head(results)}
      BY <1>2 DEF DrainOne
    <2>a. Head(results) \in Ids /\ (Tail(results) \in Seq(Ids))
      BY <2>p, PopKeeps DEF TypeOK
    <2>b. /\ cbs' \subseteq cbs /\ cbs \subseteq cbs' \cup {Head(results)}
          /\ vm' # None => vm' \in Scripts /\ kind[vm'] # "none"
          /\ fired' = fired \/ (/\ Head(results) \in cbs
                               /\ fired' = [fired EXCEPT ![Head(results)] = gen[made[Head(results)].script]])
      <3>1. Head(results) \in cbs => made[Head(results)].script \in Scripts BY RequestType
      <3> QED BY <1>2, <3>1 DEF DrainOne, Dispatch, Call, Reachable
    <2>2. TypeOK'
      <3>1. owned' \in SUBSET Ids BY <2>p DEF TypeOK
      <3>2. cbs' \in SUBSET Ids BY <2>b DEF TypeOK
      <3>3. vm' \in Scripts \cup {None} BY <2>b
      <3>4. fired' \in [Ids -> 0..MaxGen] 
        <4>1. Head(results) \in cbs => gen[made[Head(results)].script] \in 0..MaxGen
          BY RequestType DEF TypeOK
        <4> QED BY <2>b, <4>1 DEF TypeOK
      <3>5. results' \in Seq(Ids) BY <2>p, <2>a
      <3> QED BY <2>1, <3>1, <3>2, <3>3, <3>4, <3>5 DEF TypeOK
    <2>3. PendingExact' BY <2>1 DEF PendingExact
    <2>4. NoRequestLost' BY <2>1 DEF NoRequestLost
    <2>5. HostInv'
      <3>1. expired = {} BY <2>p DEF HostInv
      <3>2. ASSUME NEW i \in Ids, i > Len(made) PROVE fired'[i] = 0
        <4>1. fired[i] = 0 BY <3>2 DEF HostInv
        <4>2. CASE fired' = fired BY <4>1, <4>2
        <4>3. CASE Head(results) \in cbs /\ fired' = [fired EXCEPT ![Head(results)] = gen[made[Head(results)].script]]
          <5>1. Head(results) \in 1..Len(made) BY <4>3 DEF HostInv
          <5>2. i # Head(results) BY <3>2, <5>1 DEF TypeOK
          <5> QED BY <4>1, <4>3, <5>2 DEF TypeOK
        <4> QED BY <2>b, <4>2, <4>3
      <3> QED BY <2>1, <2>p, <2>b, <3>1, <3>2 DEF HostInv
    <2>6. WorkerInv' BY <2>1 DEF WorkerInv
    <2>7. HeldByItsInstall'
      <3> QED BY <2>1, <2>b DEF HeldByItsInstall
    <2>8. CallbackInItsInstall'
      <3> SUFFICES ASSUME NEW i \in 1..Len(made), made[i].kind = "app"
                   PROVE  fired'[i] \in {0, made[i].gen}
        BY <2>1 DEF CallbackInItsInstall
      <3>1. i \in Ids BY DEF TypeOK
      <3>2. CASE fired' = fired BY <3>2 DEF CallbackInItsInstall
      <3>3. CASE Head(results) \in cbs /\ fired' = [fired EXCEPT ![Head(results)] = gen[made[Head(results)].script]]
        <4>1. CASE i = Head(results)
          <5>1. fired'[i] = gen[made[i].script] BY <3>1, <3>3, <4>1 DEF TypeOK
          <5>2. gen[made[i].script] = made[i].gen BY <3>3, <4>1 DEF HeldByItsInstall
          <5> QED BY <5>1, <5>2
        <4>2. CASE i # Head(results) BY <3>1, <3>3, <4>2 DEF TypeOK, CallbackInItsInstall
        <4> QED BY <4>1, <4>2
      <3> QED BY <2>b, <3>2, <3>3
    <2> QED BY <2>2, <2>3, <2>4, <2>5, <2>6, <2>7, <2>8
  <1>3. CASE SweepStart
    <2>1. UNCHANGED <<kind, gen, broken, running, made, overdue, cbs,
                      sending, accepted, fired, queue, pending, results, wpc, cur,
                      answered>>
      BY <1>3 DEF SweepStart, scripts, host
    <2>2. TypeOK'
      <3>1. phase' \in {"idle", "load", "drain", "sweep"} BY <1>3 DEF TypeOK, SweepStart
      <3>2. vm' \in Scripts \cup {None} BY <1>3 DEF TypeOK, SweepStart
      <3>3. owned' \in SUBSET Ids BY <1>3 DEF TypeOK, SweepStart
      <3>4. expired' \in SUBSET Ids BY <1>3 DEF TypeOK, SweepStart
      <3> QED BY <2>1, <3>1, <3>2, <3>3, <3>4 DEF TypeOK
    <2>3. PendingExact' BY <2>1 DEF PendingExact
    <2>4. NoRequestLost' BY <2>1 DEF NoRequestLost
    <2>5. HostInv' BY <1>3, <2>1 DEF SweepStart, HostInv
    <2>6. WorkerInv' BY <2>1 DEF WorkerInv
    <2>7. HeldByItsInstall' BY <2>1 DEF HeldByItsInstall
    <2>8. CallbackInItsInstall' BY <2>1 DEF CallbackInItsInstall
    <2> QED BY <2>2, <2>3, <2>4, <2>5, <2>6, <2>7, <2>8
  <1>4. ASSUME NEW id \in expired, SweepOne(id) PROVE IInv'
    <2>1. UNCHANGED <<kind, gen, broken, running, made, owned, overdue,
                      phase, sending, accepted, queue, pending, results, wpc, cur,
                      answered>>
      BY <1>4 DEF SweepOne, scripts, host
    <2>p. phase = "sweep" /\ id \in expired /\ expired' = expired \ {id}
      BY <1>4 DEF SweepOne, First
    <2>a. id \in Ids /\ (id \in expired)
      BY <2>p DEF TypeOK
    <2>b. /\ cbs' \subseteq cbs /\ cbs \subseteq cbs' \cup {id}
          /\ vm' # None => vm' \in Scripts /\ kind[vm'] # "none"
          /\ fired' = fired \/ (/\ id \in cbs
                               /\ fired' = [fired EXCEPT ![id] = gen[made[id].script]])
      <3>1. id \in cbs => made[id].script \in Scripts BY RequestType
      <3> QED BY <1>4, <3>1 DEF SweepOne, Dispatch, Call, Reachable
    <2>2. TypeOK'
      <3>1. expired' \in SUBSET Ids BY <2>p DEF TypeOK
      <3>2. cbs' \in SUBSET Ids BY <2>b DEF TypeOK
      <3>3. vm' \in Scripts \cup {None} BY <2>b
      <3>4. fired' \in [Ids -> 0..MaxGen] 
        <4>1. id \in cbs => gen[made[id].script] \in 0..MaxGen
          BY RequestType DEF TypeOK
        <4> QED BY <2>b, <4>1 DEF TypeOK
      <3> QED BY <2>1, <3>1, <3>2, <3>3, <3>4 DEF TypeOK
    <2>3. PendingExact' BY <2>1 DEF PendingExact
    <2>4. NoRequestLost' BY <2>1 DEF NoRequestLost
    <2>5. HostInv'
      <3>1. \A i \in Ids : i > Len(made) => fired'[i] = 0
        <4>1. id \in cbs => id <= Len(made) BY DEF HostInv, TypeOK
        <4> SUFFICES ASSUME NEW i \in Ids, i > Len(made) PROVE fired'[i] = 0 OBVIOUS
        <4>2. fired[i] = 0 BY DEF HostInv
        <4>3. id \in cbs => i # id BY <4>1 DEF TypeOK
        <4> QED BY <2>b, <4>2, <4>3 DEF TypeOK
      <3> QED BY <2>1, <2>p, <2>b, <3>1 DEF HostInv
    <2>6. WorkerInv' BY <2>1 DEF WorkerInv
    <2>7. HeldByItsInstall'
      <3> QED BY <2>1, <2>b DEF HeldByItsInstall
    <2>8. CallbackInItsInstall'
      <3> SUFFICES ASSUME NEW i \in 1..Len(made), made[i].kind = "app"
                   PROVE  fired'[i] \in {0, made[i].gen}
        BY <2>1 DEF CallbackInItsInstall
      <3>1. i \in Ids BY DEF TypeOK
      <3>2. CASE fired' = fired BY <3>2 DEF CallbackInItsInstall
      <3>3. CASE id \in cbs /\ fired' = [fired EXCEPT ![id] = gen[made[id].script]]
        <4>1. CASE i = id
          <5>1. fired'[i] = gen[made[i].script] BY <3>1, <3>3, <4>1 DEF TypeOK
          <5>2. gen[made[i].script] = made[i].gen BY <3>3, <4>1 DEF HeldByItsInstall
          <5> QED BY <5>1, <5>2
        <4>2. CASE i # id BY <3>1, <3>3, <4>2 DEF TypeOK, CallbackInItsInstall
        <4> QED BY <4>1, <4>2
      <3> QED BY <2>b, <3>2, <3>3
    <2> QED BY <2>2, <2>3, <2>4, <2>5, <2>6, <2>7, <2>8
  <1>5. CASE TickEnd
    <2>1. UNCHANGED <<kind, gen, broken, running, made, owned, overdue, cbs,
                      expired, sending, accepted, fired, queue, pending, results, wpc,
                      cur, answered>>
      BY <1>5 DEF TickEnd, scripts, host
    <2>2. TypeOK'
      <3>1. phase' \in {"idle", "load", "drain", "sweep"} BY <1>5 DEF TypeOK, TickEnd
      <3>2. vm' \in Scripts \cup {None} BY <1>5 DEF TypeOK, TickEnd
      <3> QED BY <2>1, <3>1, <3>2 DEF TypeOK
    <2>3. PendingExact' BY <2>1 DEF PendingExact
    <2>4. NoRequestLost' BY <2>1 DEF NoRequestLost
    <2>5. HostInv' BY <1>5, <2>1 DEF TickEnd, HostInv
    <2>6. WorkerInv' BY <2>1 DEF WorkerInv
    <2>7. HeldByItsInstall' BY <2>1 DEF HeldByItsInstall
    <2>8. CallbackInItsInstall' BY <2>1 DEF CallbackInItsInstall
    <2> QED BY <2>2, <2>3, <2>4, <2>5, <2>6, <2>7, <2>8
  <1> QED BY <1>1, <1>2, <1>3, <1>4, <1>5 DEF Tick

\* A term runs out.
LEMMA TimeInv == IInv /\ TimePasses => IInv'
  <1> SUFFICES ASSUME IInv, TimePasses PROVE IInv' OBVIOUS
  <1> USE DEF IInv, Request, Ids
  <1>1. IInv'
    <2>1. UNCHANGED <<kind, gen, broken, running, made, owned, cbs, phase,
                      vm, expired, sending, accepted, fired, queue, pending, results,
                      wpc, cur, answered>>
      BY DEF TimePasses, scripts, host
    <2>2. TypeOK'
      <3>1. overdue' \in 0..MaxId BY DEF TypeOK, TimePasses
      <3> QED BY <2>1, <3>1 DEF TypeOK
    <2>3. PendingExact' BY <2>1 DEF PendingExact
    <2>4. NoRequestLost' BY <2>1 DEF NoRequestLost
    <2>5. HostInv' BY <2>1 DEF HostInv
    <2>6. WorkerInv' BY <2>1 DEF WorkerInv
    <2>7. HeldByItsInstall' BY <2>1 DEF HeldByItsInstall
    <2>8. CallbackInItsInstall' BY <2>1 DEF CallbackInItsInstall
    <2> QED BY <2>2, <2>3, <2>4, <2>5, <2>6, <2>7, <2>8
  <1> QED BY <1>1

\* The worker: a request moves from the queue to its hands and back.
LEMMA WorkerStepInv == IInv /\ Worker => IInv'
  <1> SUFFICES ASSUME IInv, Worker PROVE IInv' OBVIOUS
  <1> USE DEF IInv, Request, Ids
  <1>1. CASE WorkerPop
    <2>1. UNCHANGED <<kind, gen, broken, running, made, owned, overdue, cbs,
                      phase, vm, expired, sending, accepted, fired, pending, results,
                      answered>>
      BY <1>1 DEF WorkerPop, scripts, host
    <2>a. /\ Head(queue) \in Ids /\ Tail(queue) \in Seq(Ids)
          /\ Len(queue) > 0 /\ Len(Tail(queue)) = Len(queue) - 1
          /\ Elements(queue) = Elements(Tail(queue)) \cup {Head(queue)}
      BY <1>1, PopKeeps DEF WorkerPop, TypeOK
    <2>b. cur' = Head(queue) /\ queue' = Tail(queue) /\ wpc = "idle" /\ wpc' = "popped"
      BY <1>1 DEF WorkerPop
    <2>2. TypeOK'
      <3>1. queue' \in Seq(Ids) BY <2>a, <2>b
      <3>2. wpc' \in {"idle", "popped", "answered"} BY <2>b
      <3>3. cur' \in 0..MaxId BY <2>a, <2>b
      <3> QED BY <2>1, <3>1, <3>2, <3>3 DEF TypeOK
    <2>3. PendingExact'
      <3>1. PendingExact /\ Len(queue) \in Nat BY DEF TypeOK
      <3>2. pending' = pending /\ sending' = sending /\ wpc = "idle" /\ wpc' = "popped"
        BY <2>1, <2>b
      <3>3. Len(queue') = Len(queue) - 1 BY <2>a, <2>b
      <3>4. CASE sending = None BY ONLY <3>1, <3>2, <3>3, <3>4 DEF PendingExact
      <3>5. CASE sending # None BY ONLY <3>1, <3>2, <3>3, <3>5 DEF PendingExact
      <3> QED BY ONLY <3>4, <3>5
    <2>4. NoRequestLost' BY <2>1, <2>a, <2>b DEF NoRequestLost
    <2>5. HostInv' BY <2>1 DEF HostInv
    <2>6. WorkerInv' BY <2>1, <2>a, <2>b DEF WorkerInv
    <2>7. HeldByItsInstall' BY <2>1 DEF HeldByItsInstall
    <2>8. CallbackInItsInstall' BY <2>1 DEF CallbackInItsInstall
    <2> QED BY <2>2, <2>3, <2>4, <2>5, <2>6, <2>7, <2>8
  <1>2. CASE WorkerRequeue
    <2>1. UNCHANGED <<kind, gen, broken, running, made, owned, overdue, cbs,
                      phase, vm, expired, sending, accepted, fired, pending, results,
                      answered>>
      BY <1>2 DEF WorkerRequeue, scripts, host
    <2>a. /\ wpc = "popped" /\ cur' = 0 /\ wpc' = "idle"
          /\ queue' = Push(queue, cur, QueueCap) /\ cur \in Ids
      BY <1>2 DEF WorkerRequeue, WorkerInv
    <2>b. Len(queue) < QueueCap BY <2>a DEF PendingExact, TypeOK
    <2>c. /\ queue' \in Seq(Ids) /\ Len(queue') = Len(queue) + 1
          /\ Elements(queue') = Elements(queue) \cup {cur}
      <3>1. queue \in Seq(Ids) /\ QueueCap \in Nat BY DEF TypeOK
      <3>2. cur \in Ids BY <2>a
      <3>3. Push(queue, cur, QueueCap) = Append(queue, cur) BY ONLY <2>b, <3>1 DEF Push
      <3> HIDE DEF Ids
      <3> QED BY ONLY <2>a, <3>1, <3>2, <3>3, AppendKeeps
    <2>2. TypeOK'
      <3>1. queue' \in Seq(Ids) BY <2>c
      <3>2. wpc' \in {"idle", "popped", "answered"} BY <2>a
      <3>3. cur' \in 0..MaxId BY <2>a
      <3> QED BY <2>1, <3>1, <3>2, <3>3 DEF TypeOK
    <2>3. PendingExact' BY <2>1, <2>a, <2>c DEF PendingExact, TypeOK
    <2>4. NoRequestLost' BY <2>1, <2>a, <2>c DEF NoRequestLost
    <2>5. HostInv' BY <2>1 DEF HostInv
    <2>6. WorkerInv' BY <2>1, <2>a, <2>c DEF WorkerInv
    <2>7. HeldByItsInstall' BY <2>1 DEF HeldByItsInstall
    <2>8. CallbackInItsInstall' BY <2>1 DEF CallbackInItsInstall
    <2> QED BY <2>2, <2>3, <2>4, <2>5, <2>6, <2>7, <2>8
  <1>3. CASE WorkerAnswer
    <2>1. UNCHANGED <<kind, gen, broken, running, made, owned, overdue, cbs,
                      phase, vm, expired, sending, accepted, fired, queue, pending, cur>>
      BY <1>3 DEF WorkerAnswer, scripts, host
    <2>a. cur \in Ids BY <1>3 DEF WorkerAnswer, WorkerInv
    <2>2. TypeOK'
      <3>1. results' \in Seq(Ids) BY <1>3, <2>a, PushType DEF WorkerAnswer, TypeOK
      <3>2. wpc' \in {"idle", "popped", "answered"} BY <1>3 DEF TypeOK, WorkerAnswer
      <3>3. answered' \in SUBSET Ids BY <1>3, <2>a DEF WorkerAnswer, TypeOK
      <3> QED BY <2>1, <3>1, <3>2, <3>3 DEF TypeOK
    <2>3. PendingExact' BY <1>3, <2>1 DEF PendingExact, WorkerAnswer
    <2>4. NoRequestLost' BY <1>3, <2>1 DEF NoRequestLost, WorkerAnswer
    <2>5. HostInv' BY <2>1 DEF HostInv
    <2>6. WorkerInv' BY <1>3, <2>1 DEF WorkerInv, WorkerAnswer
    <2>7. HeldByItsInstall' BY <2>1 DEF HeldByItsInstall
    <2>8. CallbackInItsInstall' BY <2>1 DEF CallbackInItsInstall
    <2> QED BY <2>2, <2>3, <2>4, <2>5, <2>6, <2>7, <2>8
  <1>4. CASE WorkerRelease
    <2>1. UNCHANGED <<kind, gen, broken, running, made, owned, overdue, cbs,
                      phase, vm, expired, sending, accepted, fired, queue, results,
                      answered>>
      BY <1>4 DEF WorkerRelease, scripts, host
    <2>a. /\ wpc = "answered" /\ pending' = pending - 1 /\ wpc' = "idle"
      BY <1>4 DEF WorkerRelease
    <2>b. pending > 0 BY <2>a DEF PendingExact, TypeOK
    <2>2. TypeOK'
      <3>1. pending' \in 0..QueueCap BY <2>a, <2>b DEF TypeOK
      <3>2. wpc' \in {"idle", "popped", "answered"} BY <1>4 DEF TypeOK, WorkerRelease
      <3>3. cur' \in 0..MaxId BY <1>4 DEF TypeOK, WorkerRelease
      <3> QED BY <2>1, <3>1, <3>2, <3>3 DEF TypeOK
    <2>3. PendingExact' BY <2>1, <2>a DEF PendingExact, TypeOK
    <2>4. NoRequestLost' BY <1>4, <2>1 DEF NoRequestLost, WorkerRelease
    <2>5. HostInv' BY <2>1 DEF HostInv
    <2>6. WorkerInv' BY <1>4, <2>1 DEF WorkerInv, WorkerRelease
    <2>7. HeldByItsInstall' BY <2>1 DEF HeldByItsInstall
    <2>8. CallbackInItsInstall' BY <2>1 DEF CallbackInItsInstall
    <2> QED BY <2>2, <2>3, <2>4, <2>5, <2>6, <2>7, <2>8
  <1> QED BY <1>1, <1>2, <1>3, <1>4 DEF Worker

\* A stuttering step changes nothing.
LEMMA StutterInv == IInv /\ UNCHANGED vars => IInv'
  <1> SUFFICES ASSUME IInv, UNCHANGED vars PROVE IInv' OBVIOUS
  <1> USE DEF IInv, vars, scripts, host
  <1>1. TypeOK' BY DEF TypeOK
  <1>2. PendingExact' /\ NoRequestLost' /\ WorkerInv'
    BY DEF PendingExact, NoRequestLost, WorkerInv
  <1>3. HostInv' /\ HeldByItsInstall' /\ CallbackInItsInstall'
    BY DEF HostInv, HeldByItsInstall, CallbackInItsInstall
  <1> QED BY <1>1, <1>2, <1>3 DEF IInv

\* The inductive invariant holds in every reachable state.
THEOREM Invariance == Spec => []IInv
  <1>1. IInv /\ [Next]_vars => IInv'
    BY AskInv, ManageInv, TickInv, TimeInv, WorkerStepInv, StutterInv DEF Next
  <1> QED BY InitInv, <1>1, PTL DEF Spec

\* Every variable keeps its type; in particular pending_ never goes below zero
\* and never passes kQueueCap, whatever the two threads do to it.
THEOREM TypeCorrect == Spec => []TypeOK
  <1>1. IInv => TypeOK BY DEF IInv
  <1> QED BY <1>1, Invariance, PTL

\* No accepted request is dropped by the worker's queue, for any capacity.
THEOREM RequestsKept == Spec => []NoRequestLost
  <1>1. IInv => NoRequestLost BY DEF IInv
  <1> QED BY <1>1, Invariance, PTL

\* A callback of an app runs in the install that registered it or never.
THEOREM CallbacksKept == Spec => []CallbackInItsInstall
  <1>1. IInv => CallbackInItsInstall BY DEF IInv
  <1> QED BY <1>1, Invariance, PTL
-----------------------------------------------------------------------------
(* Each request goes out once, and is heard of once *)

\* What the worker has answered was asked for, and what it holds then is that.
OnceInv ==
  /\ FetchedOnce /\ CalledOnce
  /\ answered \subseteq 1..Len(made)
  /\ wpc = "answered" => cur \in answered

Distinct(q) == \A i, j \in 1..Len(q) : q[i] = q[j] => i = j

\* A queue of distinct things stays one when a new thing joins it.
LEMMA AppendDistinct ==
  ASSUME NEW S, NEW q \in Seq(S), NEW v \in S, Distinct(q), v \notin Elements(q)
  PROVE  Distinct(Append(q, v))
  <1>1. /\ Len(Append(q, v)) = Len(q) + 1 /\ Len(q) \in Nat
        /\ \A i \in 1..Len(q) : Append(q, v)[i] = q[i]
        /\ Append(q, v)[Len(q) + 1] = v
    OBVIOUS
  <1>2. \A i \in 1..Len(q) : q[i] # v BY DEF Elements
  <1>3. ASSUME NEW i \in 1..(Len(q) + 1), NEW j \in 1..(Len(q) + 1),
               Append(q, v)[i] = Append(q, v)[j]
        PROVE  i = j
    <2>1. CASE i \in 1..Len(q) /\ j \in 1..Len(q) BY <1>1, <1>3, <2>1 DEF Distinct
    <2>2. CASE i = Len(q) + 1 /\ j \in 1..Len(q) BY <1>1, <1>2, <1>3, <2>2
    <2>3. CASE i \in 1..Len(q) /\ j = Len(q) + 1 BY <1>1, <1>2, <1>3, <2>3
    <2>4. CASE i = Len(q) + 1 /\ j = Len(q) + 1 BY <2>4
    <2> QED BY <1>1, <2>1, <2>2, <2>3, <2>4
  <1> QED BY <1>1, <1>3 DEF Distinct

\* What leaves it at the head is not in the rest.
LEMMA PopDistinct ==
  ASSUME NEW S, NEW q \in Seq(S), q # <<>>, Distinct(q)
  PROVE  Distinct(Tail(q)) /\ Head(q) \notin Elements(Tail(q))
  <1>1. /\ Len(q) \in Nat \ {0} /\ Head(q) = q[1] /\ Len(Tail(q)) = Len(q) - 1
        /\ \A i \in 1..(Len(q) - 1) : Tail(q)[i] = q[i + 1]
    OBVIOUS
  <1>2. ASSUME NEW i \in 1..(Len(q) - 1), NEW j \in 1..(Len(q) - 1),
               Tail(q)[i] = Tail(q)[j]
        PROVE  i = j
    <2>1. i + 1 \in 1..Len(q) /\ j + 1 \in 1..Len(q) /\ q[i + 1] = q[j + 1] BY <1>1, <1>2
    <2>2. i + 1 = j + 1 BY <2>1 DEF Distinct
    <2> QED BY <2>2
  <1>3. ASSUME NEW i \in 1..(Len(q) - 1), Tail(q)[i] = q[1] PROVE FALSE
    <2>1. i + 1 \in 1..Len(q) /\ 1 \in 1..Len(q) /\ q[i + 1] = q[1] BY <1>1, <1>3
    <2>2. i + 1 = 1 BY <2>1 DEF Distinct
    <2> QED BY <2>2
  <1> QED BY <1>1, <1>2, <1>3 DEF Distinct, Elements

\* The counter keeps room for what the worker puts back and what is being sent.
LEMMA QueueHasRoom ==
  ASSUME TypeOK, PendingExact, wpc = "popped" \/ sending # None, NEW v \in Ids
  PROVE  Push(queue, v, QueueCap) = Append(queue, v)
  <1>1. /\ queue \in Seq(Ids) /\ QueueCap \in Nat
        /\ pending \in Nat /\ pending <= QueueCap
    BY HttpAssumption DEF TypeOK
  <1>2. Len(queue) \in Nat BY <1>1
  <1>3. Len(queue) < QueueCap
    <2>1. CASE wpc = "popped"
      <3>1. pending >= Len(queue) + 1 BY <1>2, <2>1 DEF PendingExact
      <3> QED BY <1>1, <1>2, <3>1
    <2>2. CASE sending # None
      <3>1. pending >= Len(queue) + 1 BY <1>2, <2>2 DEF PendingExact
      <3> QED BY <1>1, <1>2, <3>1
    <2> QED BY <2>1, <2>2
  <1> QED BY <1>2, <1>3 DEF Push

\* Each step of either thread keeps it: what goes out of the queue was in it
\* once, and a callback that is called is struck from the table first.
LEMMA OnceStep == IInv /\ OnceInv /\ [Next]_vars => OnceInv'
  <1> SUFFICES ASSUME IInv, OnceInv, [Next]_vars PROVE OnceInv' OBVIOUS
  <1>1. /\ TypeOK /\ PendingExact /\ HostInv /\ WorkerInv
        /\ Len(made) \in Nat /\ queue \in Seq(Ids)
        /\ fired \in [Ids -> 0..MaxGen] /\ cbs \subseteq Ids
    BY DEF IInv, TypeOK
  <1>2. ASSUME UNCHANGED <<queue, wpc, cur, answered>>, Len(made) <= Len(made'),
               Len(made') \in Nat
        PROVE  /\ FetchedOnce' /\ answered' \subseteq 1..Len(made')
               /\ wpc' = "answered" => cur' \in answered'
    BY <1>1, <1>2 DEF OnceInv, FetchedOnce
  <1>3. ASSUME cbs' \subseteq cbs, UNCHANGED fired PROVE CalledOnce'
    BY <1>3 DEF OnceInv, CalledOnce
  <1>4. ASSUME NEW id \in Ids, Dispatch(id) PROVE CalledOnce'
    <2>1. CASE Call(id) BY <1>1, <1>4, <2>1 DEF Call, OnceInv, CalledOnce
    <2>2. CASE UNCHANGED <<cbs, fired>> BY <1>3, <2>2
    <2> QED BY <1>4, <2>1, <2>2 DEF Dispatch
  <1>5. ASSUME NEW s \in Scripts, NEW https \in BOOLEAN, AskRefused(s, https) PROVE OnceInv'
    <2>1. /\ made' = Append(made, RequestOf(s, https)) /\ Len(made) < MaxId
          /\ fired' = [fired EXCEPT ![Len(made) + 1] = gen[s]]
          /\ UNCHANGED <<cbs, queue, wpc, cur, answered>>
      BY <1>5 DEF AskRefused
    <2>2. Len(made') = Len(made) + 1 BY <1>1, <2>1 DEF TypeOK
    <2>3. Len(made) + 1 \notin cbs BY <1>1 DEF HostInv
    <2>4. CalledOnce' BY <1>1, <2>1, <2>3 DEF OnceInv, CalledOnce
    <2> QED BY <1>1, <1>2, <2>1, <2>2, <2>4 DEF OnceInv
  <1>6. ASSUME NEW https \in BOOLEAN, AskPush(https) PROVE OnceInv'
    <2>1. PICK id : id = Len(made) + 1 OBVIOUS
    <2>2. /\ sending # None /\ queue' = Push(queue, id, QueueCap) /\ cbs' = cbs \cup {id}
          /\ made' = Append(made, RequestOf(sending, https))
          /\ UNCHANGED <<fired, wpc, cur, answered>>
      BY <1>6, <2>1 DEF AskPush
    <2>3. Len(made') = Len(made) + 1 BY <1>1, <2>2 DEF TypeOK
    <2>4. id \in Ids /\ Len(made) < MaxId BY <1>1, <2>1, <2>2 DEF HostInv, Ids
    <2>5. queue' = Append(queue, id) BY <1>1, <2>2, <2>4, QueueHasRoom
    <2>6. id \notin Elements(queue) /\ id \notin answered /\ (wpc # "idle" => cur # id)
      <3>1. id \notin 1..Len(made) BY <1>1, <2>1
      <3>2. Elements(queue) \subseteq 1..Len(made) BY <1>1 DEF WorkerInv
      <3>3. answered \subseteq 1..Len(made) BY DEF OnceInv
      <3>4. wpc = "popped" => cur \in 1..Len(made) BY <1>1 DEF WorkerInv
      <3>5. wpc = "answered" => cur \in answered BY DEF OnceInv
      <3>6. wpc \in {"idle", "popped", "answered"} BY <1>1 DEF TypeOK
      <3> QED BY <3>1, <3>2, <3>3, <3>4, <3>5, <3>6
    <2>7. Elements(queue') = Elements(queue) \cup {id}
      <3> HIDE DEF Ids
      <3> QED BY <1>1, <2>4, <2>5, AppendKeeps
    <2>8. Distinct(queue')
      <3>1. Distinct(queue) BY DEF OnceInv, FetchedOnce, Distinct
      <3> QED BY <1>1, <2>4, <2>5, <2>6, <3>1, AppendDistinct
    <2>9. FetchedOnce'
      BY <2>2, <2>6, <2>7, <2>8 DEF OnceInv, FetchedOnce, Distinct
    <2>10. CalledOnce'
      <3>1. fired[id] = 0 BY <1>1, <2>1, <2>4 DEF HostInv
      <3> QED BY <2>2, <3>1 DEF OnceInv, CalledOnce
    <2>11. answered' \subseteq 1..Len(made') BY <1>1, <2>2, <2>3 DEF OnceInv
    <2> QED BY <2>2, <2>9, <2>10, <2>11 DEF OnceInv
  <1>7. CASE Ask
    <2>1. ASSUME NEW s \in Scripts, AskReserve(s) \/ HookFails(s) PROVE OnceInv'
      <3>1. UNCHANGED <<made, cbs, fired, queue, wpc, cur, answered>>
        BY <2>1 DEF AskReserve, HookFails
      <3> QED BY <1>1, <1>2, <1>3, <3>1 DEF OnceInv
    <2> QED BY <1>5, <1>6, <1>7, <2>1 DEF Ask
  <1>8. CASE Manage
    <2>1. /\ UNCHANGED <<made, fired, queue, wpc, cur, answered>>
          /\ cbs' \subseteq cbs
      BY <1>8 DEF Manage, InstallApp, InstallModule, Remove, SetRunning, ModuleLoaded,
         Purge, host
    <2> QED BY <1>1, <1>2, <1>3, <2>1 DEF OnceInv
  <1>9. CASE Tick
    <2>1. UNCHANGED <<made, queue, wpc, cur, answered>>
      BY <1>9 DEF Tick, TickStart, DrainOne, SweepStart, SweepOne, TickEnd
    <2>2. CalledOnce'
      <3>1. CASE TickStart \/ SweepStart \/ TickEnd
        <4>1. UNCHANGED <<cbs, fired>> BY <3>1 DEF TickStart, SweepStart, TickEnd
        <4> QED BY <1>3, <4>1
      <3>2. CASE DrainOne
        <4>1. CASE Head(results) \in owned
          <5>1. Dispatch(Head(results)) BY <3>2, <4>1 DEF DrainOne
          <5>2. Head(results) \in Ids BY <1>1, <4>1 DEF TypeOK
          <5> QED BY <1>4, <5>1, <5>2
        <4>2. CASE Head(results) \notin owned
          <5>1. UNCHANGED <<cbs, fired>> BY <3>2, <4>2 DEF DrainOne
          <5> QED BY <1>3, <5>1
        <4> QED BY <4>1, <4>2
      <3>3. ASSUME NEW id \in expired, SweepOne(id) PROVE CalledOnce'
        <4>1. id \in Ids BY <1>1 DEF TypeOK
        <4>2. Dispatch(id) BY <3>3 DEF SweepOne
        <4> QED BY <1>4, <4>1, <4>2
      <3> QED BY <1>9, <3>1, <3>2, <3>3 DEF Tick
    <2> QED BY <1>1, <1>2, <2>1, <2>2 DEF OnceInv
  <1>10. CASE TimePasses
    <2>1. UNCHANGED <<made, cbs, fired, queue, wpc, cur, answered>>
      BY <1>10 DEF TimePasses
    <2> QED BY <1>1, <1>2, <1>3, <2>1 DEF OnceInv
  <1>11. CASE Worker
    <2>1. CalledOnce' /\ UNCHANGED made
      <3>1. UNCHANGED <<made, cbs, fired>>
        BY <1>11 DEF Worker, WorkerPop, WorkerRequeue, WorkerAnswer, WorkerRelease, host
      <3> QED BY <1>3, <3>1
    <2>2. Distinct(queue) BY DEF OnceInv, FetchedOnce, Distinct
    <2>3. CASE WorkerPop
      <3>1. /\ queue # <<>> /\ cur' = Head(queue) /\ queue' = Tail(queue)
            /\ wpc' = "popped" /\ UNCHANGED answered
        BY <2>3 DEF WorkerPop
      <3>2. Distinct(queue') /\ cur' \notin Elements(queue')
        BY <1>1, <2>2, <3>1, PopDistinct
      <3>3. Elements(queue) = Elements(queue') \cup {cur'} BY <1>1, <3>1, PopKeeps
      <3>4. FetchedOnce'
        BY <3>1, <3>2, <3>3 DEF OnceInv, FetchedOnce, Distinct
      <3> QED BY <2>1, <3>1, <3>4 DEF OnceInv
    <2>4. CASE WorkerRequeue
      <3>1. /\ wpc = "popped" /\ wpc' = "idle" /\ queue' = Push(queue, cur, QueueCap)
            /\ UNCHANGED answered
        BY <2>4 DEF WorkerRequeue
      <3>2. cur \in Ids /\ cur \notin Elements(queue) /\ cur \notin answered
        BY <1>1, <3>1 DEF WorkerInv, OnceInv, FetchedOnce
      <3>3. queue' = Append(queue, cur) BY <1>1, <3>1, <3>2, QueueHasRoom
      <3>4. Distinct(queue') BY <1>1, <2>2, <3>2, <3>3, AppendDistinct
      <3>5. Elements(queue') = Elements(queue) \cup {cur}
        BY <1>1, <3>2, <3>3, AppendKeeps
      <3>6. FetchedOnce' BY <3>1, <3>2, <3>4, <3>5 DEF OnceInv, FetchedOnce, Distinct
      <3> QED BY <2>1, <3>1, <3>6 DEF OnceInv
    <2>5. CASE WorkerAnswer
      <3>1. /\ wpc = "popped" /\ wpc' = "answered" /\ answered' = answered \cup {cur}
            /\ UNCHANGED <<queue, cur>>
        BY <2>5 DEF WorkerAnswer
      <3>2. cur \in 1..Len(made) BY <1>1, <3>1 DEF WorkerInv
      <3>3. FetchedOnce' BY <3>1 DEF OnceInv, FetchedOnce
      <3> QED BY <2>1, <3>1, <3>2, <3>3 DEF OnceInv
    <2>6. CASE WorkerRelease
      <3>1. wpc' = "idle" /\ UNCHANGED <<queue, answered>> BY <2>6 DEF WorkerRelease
      <3>2. FetchedOnce' BY <3>1 DEF OnceInv, FetchedOnce
      <3> QED BY <2>1, <3>1, <3>2 DEF OnceInv
    <2> QED BY <1>11, <2>3, <2>4, <2>5, <2>6 DEF Worker
  <1>12. CASE UNCHANGED vars
    <2>1. UNCHANGED <<made, cbs, fired, queue, wpc, cur, answered>>
      BY <1>12 DEF vars, host
    <2> QED BY <1>1, <1>2, <1>3, <2>1 DEF OnceInv
  <1> QED BY <1>7, <1>8, <1>9, <1>10, <1>11, <1>12 DEF Next

\* Through requests put back, answers dropped, sweeps and new installs, a
\* request goes out once and its callback is called once, in its own install.
THEOREM HttpCorrect == Spec => []HttpInv
  <1>1. Init => OnceInv
    BY DEF Init, OnceInv, FetchedOnce, CalledOnce, Elements
  <1>2. IInv /\ OnceInv => HttpInv BY DEF OnceInv, HttpInv
  <1> QED BY <1>1, <1>2, OnceStep, Invariance, PTL DEF Spec

-----------------------------------------------------------------------------
(* One request against the clock (FetchWindow) *)

\* A request that lost no Wi-Fi: unless it was held, the retries account for
\* its age; unless it was retried, the time since the join does.
WindowIInv ==
  /\ WindowInv
  /\ req = "queued" /\ ~dropped =>
       /\ wifi
       /\ ~held => age + wait <= tries * RetryDelay /\ (looked => wait > 0)
       /\ tries = 0 =>
            /\ wait = 0
            /\ connectedFor = NoJoin => age = 0 /\ ~looked
            /\ connectedFor # NoJoin =>
                 age <= connectedFor /\ (looked => connectedFor < Grace)

\* What n retries cost, and that all of them together fit.
LEMMA RetriesFit ==
  ASSUME NEW n \in 0..MaxRetries
  PROVE  /\ n * RetryDelay \in Nat /\ n * RetryDelay < Timeout
         /\ (n + 1) * RetryDelay = n * RetryDelay + RetryDelay
<1> USE WindowAssumption
<1>1. n \in Nat /\ RetryDelay \in Nat /\ MaxRetries \in Nat /\ Timeout \in Nat
  OBVIOUS
<1>2. n * RetryDelay \in Nat /\ MaxRetries * RetryDelay \in Nat
  BY <1>1
<1>3. n * RetryDelay <= MaxRetries * RetryDelay
  BY <1>1
<1>4. (n + 1) * RetryDelay = n * RetryDelay + RetryDelay
  BY <1>1
<1>5. MaxRetries * RetryDelay < Timeout
  OBVIOUS
<1> QED
  BY <1>1, <1>2, <1>3, <1>4, <1>5

\* A request that is late while it is still queued has met both delays.
LEMMA LateHasCause ==
  ASSUME WindowIInv, req = "queued", age = Timeout, ~dropped
  PROVE  held /\ tries > 0
<1>1. /\ age \in Nat /\ wait \in Nat /\ tries \in 0..MaxRetries
      /\ connectedFor \in 0..Grace \cup {NoJoin}
      /\ Grace \in Nat /\ Timeout \in Nat /\ Grace < Timeout
  BY WindowAssumption DEF WindowIInv, WindowInv, WindowTypeOK
<1>2. held
  BY <1>1, RetriesFit DEF WindowIInv
<1>3. tries # 0
  BY <1>1 DEF WindowIInv
<1> QED
  BY <1>1, <1>2, <1>3

\* The worker holds the request back, retries it, gives up or fetches.
LEMMA LookKeepsWindow ==
  ASSUME WindowIInv, Look
  PROVE  WindowIInv'
<1> USE WindowAssumption
<1>1. WindowTypeOK /\ req = "queued" /\ ~looked
  BY DEF Look, Hold, AwaitRetry, Retry, GiveUp,
     Fetch, Due, Looking, WindowIInv, WindowInv
<1>2. /\ connectedFor' = Noticed
      /\ Noticed = IF ~wifi THEN NoJoin ELSE IF connectedFor = NoJoin THEN 0 ELSE connectedFor
      /\ Noticed \in 0..Grace \cup {NoJoin}
  BY <1>1 DEF Look, Hold, AwaitRetry, Retry, GiveUp,
     Fetch, Noticed, WindowTypeOK
<1>3. CASE Hold
  <2>1. /\ looked' = TRUE /\ held' = TRUE
        /\ UNCHANGED <<wifi, req, age, tries, wait, told, dropped>>
        /\ (IF Noticed = NoJoin THEN 0 ELSE Noticed) < Grace
    BY <1>3 DEF Hold, InGrace
  <2>2. WindowInv'
    BY <1>1, <1>2, <2>1 DEF WindowIInv, WindowInv, WindowTypeOK,
       WindowFitsOneDelay
  <2> QED
    BY <1>1, <1>2, <2>1, <2>2 DEF WindowIInv, WindowTypeOK
<1>4. CASE AwaitRetry
  <2>1. /\ looked' = TRUE /\ wait > 0
        /\ UNCHANGED <<wifi, req, age, tries, wait, told, held, dropped>>
    BY <1>4 DEF AwaitRetry
  <2>2. WindowInv'
    BY <1>1, <1>2, <2>1 DEF WindowIInv, WindowInv, WindowTypeOK,
       WindowFitsOneDelay
  <2> QED
    BY <1>1, <1>2, <2>1, <2>2 DEF WindowIInv, WindowTypeOK
<1>5. CASE Retry
  <2>1. /\ wait = 0 /\ tries < MaxRetries
        /\ tries' = tries + 1 /\ wait' = RetryDelay /\ looked' = TRUE
        /\ UNCHANGED <<wifi, req, age, told, held, dropped>>
    BY <1>5 DEF Retry, Due
  <2>2. WindowInv'
    BY <1>1, <1>2, <2>1 DEF WindowIInv, WindowInv, WindowTypeOK,
       WindowFitsOneDelay
  <2>3. ~dropped /\ ~held => age + RetryDelay <= (tries + 1) * RetryDelay
    <3>1. /\ tries \in 0..MaxRetries /\ age \in Nat /\ RetryDelay \in Nat
          /\ (tries + 1) * RetryDelay = tries * RetryDelay + RetryDelay
          /\ tries * RetryDelay \in Nat
      BY <1>1, RetriesFit DEF WindowTypeOK
    <3>2. ~dropped /\ ~held => age + 0 <= tries * RetryDelay
      BY <1>1, <2>1 DEF WindowIInv
    <3> QED
      BY <3>1, <3>2
  <2>4. tries' # 0 /\ RetryDelay > 0
    BY <1>1, <2>1 DEF WindowTypeOK
  <2>5. req' = "queued" /\ ~dropped' => wifi'
    BY <1>1, <2>1 DEF WindowIInv
  <2> QED
    BY <2>1, <2>2, <2>3, <2>4, <2>5 DEF WindowIInv
<1>6. CASE GiveUp \/ Fetch
  <2>1. /\ req' \in {"over", "fetching"} /\ told' \in {told, "failure"}
        /\ UNCHANGED <<wifi, age, tries, wait, looked, held, dropped>>
    BY <1>6 DEF GiveUp, Fetch, Hear
  <2> QED
    BY <1>1, <1>2, <2>1 DEF WindowIInv, WindowInv, WindowTypeOK,
       WindowFitsOneDelay
<1> QED
  BY <1>3, <1>4, <1>5, <1>6 DEF Look

\* A unit of time passes, in which the worker has looked.
LEMMA PassKeepsWindow ==
  ASSUME WindowIInv, Pass
  PROVE  WindowIInv'
<1> USE WindowAssumption
<1>1. /\ WindowTypeOK
      /\ age \in 0..Timeout /\ wait \in 0..RetryDelay /\ tries \in 0..MaxRetries
  BY DEF WindowIInv, WindowInv, WindowTypeOK
<1>2. /\ req = "queued" => looked
      /\ connectedFor' = IF connectedFor = NoJoin THEN NoJoin
                         ELSE IF connectedFor < Grace THEN connectedFor + 1 ELSE connectedFor
      /\ age' = IF age < Timeout THEN age + 1 ELSE age
      /\ wait' = IF wait = 0 THEN 0 ELSE wait - 1
      /\ looked' = FALSE
      /\ UNCHANGED <<wifi, req, tries, told, held, dropped>>
  BY DEF Pass, Looking, Grown
<1>3. WindowInv'
  <2>1. connectedFor' \in 0..Grace \cup {NoJoin}
    BY <1>1, <1>2 DEF WindowTypeOK
  <2>2. age' \in 0..Timeout /\ wait' \in 0..RetryDelay
    BY <1>1, <1>2
  <2>3. WindowTypeOK'
    BY <1>1, <1>2, <2>1, <2>2 DEF WindowTypeOK
  <2>4. WindowFitsOneDelay'
    BY <1>2 DEF WindowIInv, WindowInv, WindowFitsOneDelay
  <2> QED
    BY <2>3, <2>4 DEF WindowInv
<1>4. req = "queued" /\ ~dropped /\ ~held => age' + wait' <= tries * RetryDelay
  <2>1. tries * RetryDelay \in Nat
    BY <1>1, RetriesFit
  <2> QED
    BY <1>1, <1>2, <2>1 DEF WindowIInv
<1>5. ASSUME req = "queued", ~dropped, tries = 0
      PROVE  /\ wait' = 0 /\ connectedFor # NoJoin
             /\ age' <= connectedFor'
  BY <1>1, <1>2, <1>5 DEF WindowIInv, WindowTypeOK
<1>6. req = "queued" /\ ~dropped => wifi
  BY DEF WindowIInv
<1>7. UNCHANGED <<wifi, req, tries, held, dropped>> /\ looked' = FALSE
      /\ (connectedFor' = NoJoin => connectedFor = NoJoin)
  BY <1>1, <1>2 DEF WindowTypeOK
<1> QED
  BY <1>3, <1>4, <1>5, <1>6, <1>7 DEF WindowIInv

(* Held back after a join, or retried for want of heap, a request that loses   *)
(* no Wi-Fi is still answered within its window; only both together make it    *)
(* late (ScriptHttpWorker.cpp: run; the static_asserts of ScriptServices.h).   *)
THEOREM WindowCorrect ==
  WindowSpec => []WindowInv
<1>0. /\ Grace \in Nat /\ Timeout \in Nat /\ RetryDelay \in Nat /\ MaxRetries \in Nat
      /\ 0 \in 0..Timeout /\ 0 \in 0..MaxRetries /\ 0 \in 0..RetryDelay
  BY WindowAssumption
<1>1. WindowInit => WindowIInv
  <2> SUFFICES ASSUME WindowInit PROVE WindowIInv
    OBVIOUS
  <2>1. WindowInv
    BY <1>0 DEF WindowInit, WindowInv, WindowTypeOK, WindowFitsOneDelay
  <2>2. req = "none"
    BY DEF WindowInit
  <2> QED
    BY <2>1, <2>2 DEF WindowIInv
<1>2. WindowIInv /\ [WindowNext]_windowVars => WindowIInv'
  <2> SUFFICES ASSUME WindowIInv, [WindowNext]_windowVars
               PROVE  WindowIInv'
    OBVIOUS
  <2> USE DEF WindowIInv, WindowInv, WindowTypeOK, WindowFitsOneDelay
  <2>1. CASE Join
    BY <1>0, <2>1 DEF Join
  <2>2. CASE Drop
    BY <2>2 DEF Drop
  <2>3. CASE AskHttps
    <3>1. /\ wifi' /\ age' = 0 /\ tries' = 0 /\ wait' = 0 /\ ~looked' /\ ~dropped'
          /\ UNCHANGED connectedFor
      BY <1>0, <2>3 DEF AskHttps
    <3>2. WindowInv'
      BY <1>0, <2>3 DEF AskHttps
    <3>3. tries' * RetryDelay \in Nat
      BY <1>0, <3>1
    <3>4. connectedFor' # NoJoin => age' <= connectedFor'
      BY <3>1, WindowAssumption
    <3>5. age' + wait' <= tries' * RetryDelay
      BY <3>1, <3>3
    <3> HIDE DEF WindowInv, WindowTypeOK, WindowFitsOneDelay
    <3> QED
      BY <3>1, <3>2, <3>4, <3>5
  <2>4. CASE Look
    BY <2>4, LookKeepsWindow
  <2>5. CASE FetchEnds
    BY <2>5 DEF FetchEnds, Hear
  <2>6. CASE Sweep
    BY <2>6, LateHasCause DEF Sweep, Overdue
  <2>7. CASE Pass
    BY <2>7, PassKeepsWindow
  <2>8. CASE UNCHANGED windowVars
    BY <2>8 DEF windowVars
  <2> QED
    BY <2>1, <2>2, <2>3, <2>4, <2>5, <2>6, <2>7, <2>8 DEF WindowNext
<1>3. WindowIInv => WindowInv
  BY DEF WindowIInv
<1> QED
  BY <1>1, <1>2, <1>3, PTL DEF WindowSpec

=============================================================================
