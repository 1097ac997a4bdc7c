----------------------------- MODULE LjcaProofs -----------------------------
(***************************************************************************)
(* Proofs about Ljca, for every set of threads, stubs and commands and     *)
(* every number of calls.                                                  *)
(***************************************************************************)
EXTENDS Ljca, TLAPS

\* The identity of a call under way is one of Ids.
LEMMA IdType ==
  ASSUME TypeOK, NEW t \in Threads, n[t] >= 1
  PROVE  Id(t) \in Ids
BY MaxCallsAssumption DEF TypeOK, Id, Ids

\* Every step of a writer keeps the types.
LEMMA WriterType ==
  ASSUME TypeOK, CallInv, NEW t \in Threads, Writer(t)
  PROVE  TypeOK'
<1> USE ThreadsAssumption, MaxCallsAssumption
<1>1. CASE \E c \in Cmds, k \in Kinds : EnterRefused(t, c, k)
  <2> PICK c \in Cmds, k \in Kinds : EnterRefused(t, c, k)  BY <1>1
  <2>1. n' \in [Threads -> 0 .. MaxCalls]
    BY DEF TypeOK, EnterRefused, MayCall, Call
  <2>2. res' \in [Threads -> [ret : Rets, len : Ids \cup {None}]]
    BY DEF TypeOK, EnterRefused, Return, Rets
  <2>3. pc' \in [Threads -> {"idle", "prep", "send", "wait", "fin"}]
    BY DEF TypeOK, EnterRefused, Return
  <2> QED BY <2>1, <2>2, <2>3 DEF TypeOK, EnterRefused, Call, devVars, stubVars
<1>2. CASE \E c \in Cmds, k \in Kinds : Enter(t, c, k)
  <2> PICK c \in Cmds, k \in Kinds : Enter(t, c, k)  BY <1>2
  <2>1. n' \in [Threads -> 0 .. MaxCalls]
    BY DEF TypeOK, Enter, MayCall, Call
  <2>2. res' \in [Threads -> [ret : Rets, len : Ids \cup {None}]]
    BY DEF TypeOK, Enter, Return, Rets
  <2>3. pc' \in [Threads -> {"idle", "prep", "send", "wait", "fin"}]
    BY DEF TypeOK, Enter, Return
  <2> QED BY <2>1, <2>2, <2>3 DEF TypeOK, Enter, Call, devVars
<1>3. CASE Lock(t)
  BY <1>3, IdType DEF TypeOK, CallInv, Lock, devVars, callVars
<1>4. CASE SendOk(t)
  <2>1. pc[t] # "idle"  BY <1>4 DEF SendOk
  <2>2. Request(t) \in Messages
    BY <2>1, IdType DEF CallInv, Request, Messages, TypeOK
  <2> QED BY <1>4, <2>2 DEF TypeOK, SendOk, devVars, stubVars, callVars
<1>5. CASE SendFail(t)
  <2>1. pc[t] # "idle"  BY <1>5 DEF SendFail
  <2>2. Request(t) \in Messages /\ Id(t) \in Ids
    BY <2>1, IdType DEF CallInv, Request, Messages, TypeOK
  <2> QED BY <1>5, <2>2 DEF TypeOK, SendFail, Fail, Return, devVars, stubVars, callVars, Rets
<1>6. CASE WaitAcked(t)
  BY <1>6 DEF TypeOK, WaitAcked, devVars, stubVars, callVars
<1>7. CASE WaitTimeout(t)
  <2>1. Id(t) \in Ids  BY <1>7, IdType DEF CallInv, WaitTimeout
  <2> QED BY <1>7, <2>1 DEF TypeOK, WaitTimeout, Fail, Return, devVars, stubVars, callVars, Rets
<1>8. CASE Finish(t)
  BY <1>8 DEF TypeOK, Finish, Return, devVars, callVars, Rets
<1>9. CASE SendShort(t)
  <2>1. Id(t) \in Ids  BY <1>9, IdType DEF CallInv, SendShort
  <2>2. PICK l \in {Id(t), None} : Fail(t, "ok", l)  BY <1>9 DEF SendShort
  <2>3. l \in Ids \cup {None}  BY <2>1, <2>2
  <2>4. res' \in [Threads -> [ret : Rets, len : Ids \cup {None}]]
    BY <2>2, <2>3 DEF TypeOK, Fail, Return, Rets
  <2> QED BY <1>9, <2>1, <2>2, <2>4 DEF TypeOK, SendShort, Fail, Return, devVars, stubVars, callVars
<1> QED BY <1>1, <1>2, <1>3, <1>4, <1>5, <1>6, <1>7, <1>8, <1>9 DEF Writer, Section

\* So does every step of the firmware, the reader and the device.
LEMMA OtherType ==
  ASSUME TypeOK, (\E m \in fw : FwDrop(m)) \/ Reader \/ Device
  PROVE  TypeOK'
<1>1. CASE \E m \in fw : FwDrop(m)
  <2> PICK m \in fw : FwDrop(m)  BY <1>1
  <2>1. fw' \subseteq Messages  BY DEF TypeOK, FwDrop
  <2> QED BY <2>1 DEF TypeOK, FwDrop, devVars, stubVars, callVars
<1>2. CASE ReadJunk
  BY <1>2 DEF TypeOK, ReadJunk, Resubmit, stubVars, callVars
<1>3. CASE \E m \in fw : ReadMismatch(m)
  BY <1>3 DEF TypeOK, ReadMismatch, Resubmit, stubVars, callVars
<1>4. CASE \E m \in fw : ReadMatch(m)
  <2> PICK m \in fw : ReadMatch(m)  BY <1>4
  <2>1. m \in Messages /\ fw' \subseteq Messages  BY DEF TypeOK, ReadMatch
  <2>2. rx' \in [phase : {"match", "copy", "ack"}, msg : Messages, ptr : Ids \cup {None}]
    BY <2>1 DEF ReadMatch
  <2> QED BY <2>1, <2>2 DEF TypeOK, ReadMatch, stubVars, callVars
<1>5. CASE ParseLoad
  <2>1. rx \in [phase : {"match", "copy", "ack"}, msg : Messages, ptr : Ids \cup {None}]
    BY <1>5 DEF TypeOK, ParseLoad, NoRx
  <2>2. rx.msg.stub \in Stubs /\ rx.msg.id \in Ids  BY <2>1 DEF Messages
  <2>3. rx' \in [phase : {"match", "copy", "ack"}, msg : Messages, ptr : Ids \cup {None}]
    BY <1>5, <2>1, <2>2 DEF TypeOK, ParseLoad
  <2> QED BY <1>5, <2>2, <2>3 DEF TypeOK, ParseLoad, devVars, callVars
<1>6. CASE ParseCopy
  <2>1. rx \in [phase : {"match", "copy", "ack"}, msg : Messages, ptr : Ids \cup {None}]
    BY <1>6 DEF TypeOK, ParseCopy, NoRx
  <2>2. rx.msg.id \in Ids  BY <2>1 DEF Messages
  <2>3. rx' \in [phase : {"match", "copy", "ack"}, msg : Messages, ptr : Ids \cup {None}]
    BY <1>6, <2>1 DEF ParseCopy
  <2> QED BY <1>6, <2>2, <2>3 DEF TypeOK, ParseCopy, devVars, stubVars, callVars
<1>7. CASE ParseAck
  BY <1>7 DEF TypeOK, ParseAck, Resubmit, callVars
<1>8. CASE Device
  BY <1>8 DEF TypeOK, Device, ljca_suspend, ljca_resume, ljca_stop,
     DisconnectStopped, DisconnectFree, Quiet, Resubmit, stubVars, callVars
<1> QED BY <1>1, <1>2, <1>3, <1>4, <1>5, <1>6, <1>7, <1>8 DEF Reader

\* A refused call.
LEMMA EnterRefusedStep ==
  ASSUME IInv, TypeOK', NEW t \in Threads, NEW c \in Cmds, NEW k \in Kinds, EnterRefused(t, c, k)
  PROVE  IInv'
<1> USE ThreadsAssumption, NoneAssumption DEF IInv, TypeOK, EnterRefused, MayCall, Call, Return, devVars, stubVars
<1>a. \A u \in Threads : u # t => Id(u)' = Id(u) /\ Request(u)' = Request(u)
  BY DEF Id, Request
<1>b. \A s : Clean(s)' = Clean(s)  BY DEF Clean
<1>c. lock # t /\ lock' = lock  BY DEF LockInv, InSection
<1>1. LockInv'  BY DEF LockInv, InSection
<1>2. CallInv'  BY DEF CallInv
<1>3. OwnerInv'
  <2>1. \A i \in failed' : i[2] <= n'[i[1]]
    BY DEF OwnerInv, Ids
  <2>2. ASSUME NEW u \in Threads, pc'[u] # "idle"  PROVE  Id(u)' \notin failed'
    <3>1. CASE u = t
      <4>1. n'[t] = n[t] + 1 /\ Id(u)' = <<t, n[t] + 1>>  BY <3>1 DEF Id
      <4> QED BY <4>1 DEF OwnerInv
    <3>2. CASE u # t
      BY <1>a, <2>2, <3>2 DEF OwnerInv
    <3> QED BY <3>1, <3>2
  <2> QED BY <2>1, <2>2 DEF OwnerInv
<1>4. SectionInv'
  BY <1>a DEF SectionInv, InSection
<1>5. OutstandingInv'
  BY <1>a, <1>b, <1>c DEF OutstandingInv, Awaited
<1>6. DeliveryInv'
  <2>1. ASSUME NEW u \in Threads, u # t, Clean(StubOf[u])
        PROVE  DeliveryInv!(u)'
    BY <1>a, <1>b, <1>c, <2>1 DEF DeliveryInv, OwnLen, Sole, Handles
  <2>2. DeliveryInv!(t)'
    BY <1>c DEF DeliveryInv, Handles
  <2> QED BY <1>b, <2>1, <2>2 DEF DeliveryInv
<1>7. DisconnectInv'  BY DEF DisconnectInv, ReaderIdle
<1>8. AnswerIsOwn'  BY DEF AnswerIsOwn, Sole, Clean, Id
<1>9. LentBuffer'
  BY <1>a, <1>c DEF LentBuffer, InSection
<1> QED BY <1>1, <1>2, <1>3, <1>4, <1>5, <1>6, <1>7, <1>8, <1>9 DEF IInv

\* A call that goes on to the mutex, or fails its allocation.
LEMMA EnterStep ==
  ASSUME IInv, TypeOK', NEW t \in Threads, NEW c \in Cmds, NEW k \in Kinds, Enter(t, c, k)
  PROVE  IInv'
<1> USE ThreadsAssumption, NoneAssumption DEF IInv, TypeOK, Enter, MayCall, Call, Return, devVars
<1>a. \A u \in Threads : u # t => Id(u)' = Id(u) /\ Request(u)' = Request(u)
  BY DEF Id, Request
<1>b. \A s : Clean(s)' = Clean(s)  BY DEF Clean
<1>c. lock # t /\ lock' = lock  BY DEF LockInv, InSection
<1>1. LockInv'  BY DEF LockInv, InSection
<1>2. CallInv'  BY DEF CallInv
<1>3. OwnerInv'
  <2>1. \A i \in failed' : i[2] <= n'[i[1]]
    BY DEF OwnerInv, Ids
  <2>2. ASSUME NEW u \in Threads, pc'[u] # "idle"  PROVE  Id(u)' \notin failed'
    <3>1. CASE u = t
      <4>1. n'[t] = n[t] + 1 /\ Id(u)' = <<t, n[t] + 1>>  BY <3>1 DEF Id
      <4> QED BY <4>1 DEF OwnerInv
    <3>2. CASE u # t
      BY <1>a, <2>2, <3>2 DEF OwnerInv
    <3> QED BY <3>1, <3>2
  <2> QED BY <2>1, <2>2 DEF OwnerInv
<1>4. SectionInv'
  BY <1>a DEF SectionInv, InSection
<1>5. OutstandingInv'
  BY <1>a, <1>b, <1>c DEF OutstandingInv, Awaited
<1>6. DeliveryInv'
  <2>1. ASSUME NEW u \in Threads, u # t, Clean(StubOf[u])
        PROVE  DeliveryInv!(u)'
    BY <1>a, <1>b, <1>c, <2>1 DEF DeliveryInv, OwnLen, Sole, Handles
  <2>2. DeliveryInv!(t)'
    BY <1>c DEF DeliveryInv, Handles
  <2> QED BY <1>b, <2>1, <2>2 DEF DeliveryInv
<1>7. DisconnectInv'  BY DEF DisconnectInv, ReaderIdle
<1>8. AnswerIsOwn'  BY DEF AnswerIsOwn, Sole, Clean, Id
<1>9. LentBuffer'
  BY <1>a, <1>c DEF LentBuffer, InSection
<1> QED BY <1>1, <1>2, <1>3, <1>4, <1>5, <1>6, <1>7, <1>8, <1>9 DEF IInv

\* Taking the mutex.
LEMMA LockStep ==
  ASSUME IInv, TypeOK', NEW t \in Threads, Lock(t)
  PROVE  IInv'
<1> USE ThreadsAssumption, NoneAssumption DEF IInv, TypeOK, Lock, devVars, callVars
<1>a. \A u : Id(u)' = Id(u) /\ Request(u)' = Request(u)  BY DEF Id, Request
<1>b. \A s : Clean(s)' => Clean(s)  BY DEF Clean
<1>1. LockInv'  BY DEF LockInv, InSection
<1>2. CallInv'  BY DEF CallInv
<1>3. OwnerInv'  BY DEF OwnerInv, Id
<1>4. SectionInv'
  BY <1>a DEF SectionInv, InSection, LockInv
<1>5. OutstandingInv'
  BY <1>a, <1>b DEF OutstandingInv, Awaited, LockInv, InSection
<1>6. DeliveryInv'
  BY <1>a, <1>b DEF DeliveryInv, Handles, OutstandingInv, Awaited, LockInv, InSection
<1>7. DisconnectInv'  BY DEF DisconnectInv, ReaderIdle
<1>8. AnswerIsOwn'  BY DEF AnswerIsOwn, Sole, Clean, Id
<1>9. LentBuffer'  BY DEF LentBuffer, InSection, Id
<1> QED BY <1>1, <1>2, <1>3, <1>4, <1>5, <1>6, <1>7, <1>8, <1>9 DEF IInv

\* Sending the command.
LEMMA SendOkStep ==
  ASSUME IInv, TypeOK', NEW t \in Threads, SendOk(t)
  PROVE  IInv'
<1> USE ThreadsAssumption, NoneAssumption DEF IInv, TypeOK, SendOk, devVars, stubVars, callVars
<1>a. \A u : Id(u)' = Id(u) /\ Request(u)' = Request(u)  BY DEF Id, Request
<1>b. \A s : Clean(s)' => Clean(s)  BY DEF Clean
<1>c. Request(t).stub = StubOf[t]  BY DEF Request
<1>d. lock = t  BY DEF LockInv, InSection
<1>1. LockInv'  BY DEF LockInv, InSection
<1>2. CallInv'  BY DEF CallInv
<1>3. OwnerInv'  BY DEF OwnerInv, Id
<1>4. SectionInv'  BY DEF SectionInv, InSection, Id
<1>5. OutstandingInv'
  BY <1>a, <1>b, <1>c, <1>d DEF OutstandingInv, Awaited, LockInv, InSection
<1>6. DeliveryInv'
  BY <1>a, <1>b, <1>c, <1>d DEF DeliveryInv, Handles, OutstandingInv, Awaited, OwnLen, Sole
<1>7. DisconnectInv'  BY DEF DisconnectInv, ReaderIdle
<1>8. AnswerIsOwn'  BY DEF AnswerIsOwn, Sole, Clean, Id
<1>9. LentBuffer'  BY DEF LentBuffer, InSection, Id
<1> QED BY <1>1, <1>2, <1>3, <1>4, <1>5, <1>6, <1>7, <1>8, <1>9 DEF IInv

\* A failed transfer.
LEMMA SendFailStep ==
  ASSUME IInv, TypeOK', NEW t \in Threads, SendFail(t)
  PROVE  IInv'
<1> USE ThreadsAssumption, NoneAssumption DEF IInv, TypeOK, SendFail, Fail, Return, devVars, stubVars, callVars
<1>a. \A u : Id(u)' = Id(u) /\ Request(u)' = Request(u)  BY DEF Id, Request
<1>b. \A s : Clean(s)' => Clean(s)  BY DEF Clean
<1>c. Request(t).stub = StubOf[t]  BY DEF Request
<1>d. lock = t  BY DEF LockInv, InSection
<1>e. Id(t) \in failed' /\ Id(t)[1] = t  BY DEF Id
<1>f. ~Clean(StubOf[t])'  BY <1>e DEF Clean
<1>1. LockInv'  BY DEF LockInv, InSection
<1>2. CallInv'  BY DEF CallInv
<1>3. OwnerInv'  BY DEF OwnerInv, Id
<1>4. SectionInv'  BY DEF SectionInv, InSection, Id
<1>5. OutstandingInv'
  BY <1>a, <1>b, <1>c, <1>d, <1>f DEF OutstandingInv, Awaited, LockInv, InSection
<1>6. DeliveryInv'  BY <1>a, <1>b DEF DeliveryInv, OwnLen, Sole, Handles
<1>7. DisconnectInv'  BY DEF DisconnectInv, ReaderIdle
<1>8. AnswerIsOwn'  BY DEF AnswerIsOwn, Sole, Clean, Id
<1>9. LentBuffer'
  BY <1>a, <1>d, <1>e DEF LentBuffer, InSection, LockInv
<1> QED BY <1>1, <1>2, <1>3, <1>4, <1>5, <1>6, <1>7, <1>8, <1>9 DEF IInv

\* A command that was cut short.
LEMMA SendShortStep ==
  ASSUME IInv, TypeOK', NEW t \in Threads, SendShort(t)
  PROVE  IInv'
<1> USE ThreadsAssumption, NoneAssumption DEF IInv, TypeOK, SendShort, Fail, Return, devVars, stubVars, callVars
<1>a. \A u : Id(u)' = Id(u) /\ Request(u)' = Request(u)  BY DEF Id, Request
<1>b. \A s : Clean(s)' => Clean(s)  BY DEF Clean
<1>c. Request(t).stub = StubOf[t]  BY DEF Request
<1>d. lock = t  BY DEF LockInv, InSection
<1>e. Id(t) \in failed' /\ Id(t)[1] = t  BY DEF Id
<1>f. ~Clean(StubOf[t])'  BY <1>e DEF Clean
<1>1. LockInv'  BY DEF LockInv, InSection
<1>2. CallInv'  BY DEF CallInv
<1>3. OwnerInv'  BY DEF OwnerInv, Id
<1>4. SectionInv'  BY DEF SectionInv, InSection, Id
<1>5. OutstandingInv'
  BY <1>a, <1>b, <1>c, <1>d, <1>f DEF OutstandingInv, Awaited, LockInv, InSection
<1>6. DeliveryInv'  BY <1>a, <1>b DEF DeliveryInv, OwnLen, Sole, Handles
<1>7. DisconnectInv'  BY DEF DisconnectInv, ReaderIdle
<1>8. AnswerIsOwn'
  <2>1. ASSUME NEW u \in Threads, u # t, Clean(StubOf[u])'
        PROVE  Clean(StubOf[u]) /\ pc'[u] = pc[u] /\ res'[u] = res[u] /\ kind'[u] = kind[u]
               /\ buf'[u] = buf[u] /\ Id(u)' = Id(u)
    BY <1>a, <1>b, <2>1
  <2> QED BY <1>f, <2>1 DEF AnswerIsOwn, Sole
<1>9. LentBuffer'
  BY <1>a, <1>d, <1>e DEF LentBuffer, InSection, LockInv
<1> QED BY <1>1, <1>2, <1>3, <1>4, <1>5, <1>6, <1>7, <1>8, <1>9 DEF IInv

\* The waiter sees the acknowledgement.
LEMMA WaitAckedStep ==
  ASSUME IInv, TypeOK', NEW t \in Threads, WaitAcked(t)
  PROVE  IInv'
<1> USE ThreadsAssumption, NoneAssumption DEF IInv, TypeOK, WaitAcked, devVars, stubVars, callVars
<1>a. \A u : Id(u)' = Id(u) /\ Request(u)' = Request(u)  BY DEF Id, Request
<1>b. \A s : Clean(s)' => Clean(s)  BY DEF Clean
<1>c. \A u : Request(u).stub = StubOf[u] /\ Request(u).id = Id(u)  BY DEF Request
<1>1. LockInv'  BY DEF LockInv, InSection
<1>2. CallInv'  BY DEF CallInv
<1>3. OwnerInv'  BY DEF OwnerInv, Id
<1>4. SectionInv'  BY DEF SectionInv, InSection, Id
<1>5. OutstandingInv'  BY <1>a, <1>b DEF OutstandingInv, Awaited
<1>6. DeliveryInv'  BY <1>a, <1>b DEF DeliveryInv, OwnLen, Sole, Handles
<1>7. DisconnectInv'  BY DEF DisconnectInv, ReaderIdle
<1>8. AnswerIsOwn'  BY DEF AnswerIsOwn, Sole, Clean, Id
<1>9. LentBuffer'  BY DEF LentBuffer, InSection, Id
<1> QED BY <1>1, <1>2, <1>3, <1>4, <1>5, <1>6, <1>7, <1>8, <1>9 DEF IInv

\* The waiter gives up.
LEMMA WaitTimeoutStep ==
  ASSUME IInv, TypeOK', NEW t \in Threads, WaitTimeout(t)
  PROVE  IInv'
<1> USE ThreadsAssumption, NoneAssumption DEF IInv, TypeOK, WaitTimeout, Fail, Return, devVars, stubVars, callVars
<1>a. \A u : Id(u)' = Id(u) /\ Request(u)' = Request(u)  BY DEF Id, Request
<1>b. \A s : Clean(s)' => Clean(s)  BY DEF Clean
<1>c. Request(t).stub = StubOf[t]  BY DEF Request
<1>d. lock = t  BY DEF LockInv, InSection
<1>e. Id(t) \in failed' /\ Id(t)[1] = t  BY DEF Id
<1>f. ~Clean(StubOf[t])'  BY <1>e DEF Clean
<1>1. LockInv'  BY DEF LockInv, InSection
<1>2. CallInv'  BY DEF CallInv
<1>3. OwnerInv'  BY DEF OwnerInv, Id
<1>4. SectionInv'  BY DEF SectionInv, InSection, Id
<1>5. OutstandingInv'
  BY <1>a, <1>b, <1>c, <1>d, <1>f DEF OutstandingInv, Awaited, LockInv, InSection
<1>6. DeliveryInv'  BY <1>a, <1>b DEF DeliveryInv, OwnLen, Sole, Handles
<1>7. DisconnectInv'  BY DEF DisconnectInv, ReaderIdle
<1>8. AnswerIsOwn'  BY DEF AnswerIsOwn, Sole, Clean, Id
<1>9. LentBuffer'
  BY <1>a, <1>d, <1>e DEF LentBuffer, InSection, LockInv
<1> QED BY <1>1, <1>2, <1>3, <1>4, <1>5, <1>6, <1>7, <1>8, <1>9 DEF IInv

\* A successful return.
LEMMA FinishStep ==
  ASSUME IInv, TypeOK', NEW t \in Threads, Finish(t)
  PROVE  IInv'
<1> USE ThreadsAssumption, NoneAssumption DEF IInv, TypeOK, Finish, Return, devVars, callVars
<1>a. \A u : Id(u)' = Id(u) /\ Request(u)' = Request(u)  BY DEF Id, Request
<1>b. \A s : Clean(s)' => Clean(s)  BY DEF Clean
<1>c. Request(t).stub = StubOf[t]  BY DEF Request
<1>d. lock = t  BY DEF LockInv, InSection
<1>1. LockInv'  BY DEF LockInv, InSection
<1>2. CallInv'  BY DEF CallInv
<1>3. OwnerInv'  BY DEF OwnerInv, Id
<1>4. SectionInv'
  BY <1>a, <1>d DEF SectionInv, InSection, LockInv
<1>5. OutstandingInv'
  BY <1>a, <1>b, <1>c, <1>d DEF OutstandingInv, Awaited, LockInv, InSection
<1>6. DeliveryInv'
  BY <1>a, <1>b, <1>d DEF DeliveryInv, Handles, OwnLen, Sole, LockInv, InSection
<1>7. DisconnectInv'  BY DEF DisconnectInv, ReaderIdle
<1>8. AnswerIsOwn'
  BY <1>a, <1>b DEF AnswerIsOwn, DeliveryInv, OwnLen, Sole
<1>9. LentBuffer'
  BY <1>a, <1>d DEF LentBuffer, InSection, LockInv, OwnerInv, Id
<1> QED BY <1>1, <1>2, <1>3, <1>4, <1>5, <1>6, <1>7, <1>8, <1>9 DEF IInv

\* A dropped request.
LEMMA FwDropStep ==
  ASSUME IInv, TypeOK', NEW m \in fw, FwDrop(m)
  PROVE  IInv'
<1> USE ThreadsAssumption, NoneAssumption DEF IInv, TypeOK, FwDrop, devVars, stubVars, callVars
<1>a. \A u : Id(u)' = Id(u) /\ Request(u)' = Request(u)  BY DEF Id, Request
<1>b. \A s : Clean(s)' => Clean(s)  BY DEF Clean
<1>1. LockInv'  BY DEF LockInv, InSection
<1>2. CallInv'  BY DEF CallInv
<1>3. OwnerInv'  BY DEF OwnerInv, Id
<1>4. SectionInv'  BY DEF SectionInv, InSection, Id
<1>5. OutstandingInv'  BY <1>a, <1>b DEF OutstandingInv, Awaited
<1>6. DeliveryInv'  BY <1>a, <1>b DEF DeliveryInv, OwnLen, Sole, Handles
<1>7. DisconnectInv'  BY DEF DisconnectInv, ReaderIdle
<1>8. AnswerIsOwn'  BY DEF AnswerIsOwn, Sole, Clean, Id
<1>9. LentBuffer'  BY DEF LentBuffer, InSection, Id
<1> QED BY <1>1, <1>2, <1>3, <1>4, <1>5, <1>6, <1>7, <1>8, <1>9 DEF IInv

\* An acknowledgement the handler rejects.
LEMMA ReadMismatchStep ==
  ASSUME IInv, TypeOK', NEW m \in fw, ReadMismatch(m)
  PROVE  IInv'
<1> USE ThreadsAssumption, NoneAssumption DEF IInv, TypeOK, ReadMismatch, Resubmit, ReaderIdle, stubVars, callVars
<1>a. \A u : Id(u)' = Id(u) /\ Request(u)' = Request(u)  BY DEF Id, Request
<1>b. \A s : Clean(s)' => Clean(s)  BY DEF Clean
<1>1. LockInv'  BY DEF LockInv, InSection
<1>2. CallInv'  BY DEF CallInv
<1>3. OwnerInv'  BY DEF OwnerInv, Id
<1>4. SectionInv'  BY DEF SectionInv, InSection, Id
<1>5. OutstandingInv'  BY <1>a, <1>b DEF OutstandingInv, Awaited
<1>6. DeliveryInv'  BY <1>a, <1>b DEF DeliveryInv, OwnLen, Sole, Handles
<1>7. DisconnectInv'  BY DEF DisconnectInv, ReaderIdle
<1>8. AnswerIsOwn'  BY DEF AnswerIsOwn, Sole, Clean, Id
<1>9. LentBuffer'  BY DEF LentBuffer, InSection, Id
<1> QED BY <1>1, <1>2, <1>3, <1>4, <1>5, <1>6, <1>7, <1>8, <1>9 DEF IInv

\* An acknowledgement the handler accepts.
LEMMA ReadMatchStep ==
  ASSUME IInv, TypeOK', NEW m \in fw, ReadMatch(m)
  PROVE  IInv'
<1> USE ThreadsAssumption, NoneAssumption DEF IInv, TypeOK, ReadMatch, ReaderIdle, stubVars, callVars
<1>a. \A u : Id(u)' = Id(u) /\ Request(u)' = Request(u)  BY DEF Id, Request
<1>b. \A s : Clean(s)' => Clean(s)  BY DEF Clean
<1>c. \A u : Request(u).stub = StubOf[u] /\ Request(u).id = Id(u)  BY DEF Request
<1>1. LockInv'  BY DEF LockInv, InSection
<1>2. CallInv'  BY DEF CallInv
<1>3. OwnerInv'  BY DEF OwnerInv, Id
<1>4. SectionInv'  BY DEF SectionInv, InSection, Id
<1>5. OutstandingInv'  BY <1>a, <1>b DEF OutstandingInv, Awaited
<1>6. DeliveryInv'  BY <1>a, <1>b DEF DeliveryInv, OwnLen, Sole, Handles
<1>7. DisconnectInv'  BY DEF DisconnectInv, ReaderIdle
<1>8. AnswerIsOwn'  BY DEF AnswerIsOwn, Sole, Clean, Id
<1>9. LentBuffer'  BY DEF LentBuffer, InSection, Id
<1> QED BY <1>1, <1>2, <1>3, <1>4, <1>5, <1>6, <1>7, <1>8, <1>9 DEF IInv

\* A message without effect.
LEMMA ReadJunkStep ==
  ASSUME IInv, TypeOK', ReadJunk
  PROVE  IInv'
<1> USE ThreadsAssumption, NoneAssumption DEF IInv, TypeOK, ReadJunk, Resubmit, ReaderIdle, stubVars, callVars
<1>a. \A u : Id(u)' = Id(u) /\ Request(u)' = Request(u)  BY DEF Id, Request
<1>b. \A s : Clean(s)' => Clean(s)  BY DEF Clean
<1>1. LockInv'  BY DEF LockInv, InSection
<1>2. CallInv'  BY DEF CallInv
<1>3. OwnerInv'  BY DEF OwnerInv, Id
<1>4. SectionInv'  BY DEF SectionInv, InSection, Id
<1>5. OutstandingInv'  BY <1>a, <1>b DEF OutstandingInv, Awaited
<1>6. DeliveryInv'  BY <1>a, <1>b DEF DeliveryInv, OwnLen, Sole, Handles
<1>7. DisconnectInv'  BY DEF DisconnectInv, ReaderIdle
<1>8. AnswerIsOwn'  BY DEF AnswerIsOwn, Sole, Clean, Id
<1>9. LentBuffer'  BY DEF LentBuffer, InSection, Id
<1> QED BY <1>1, <1>2, <1>3, <1>4, <1>5, <1>6, <1>7, <1>8, <1>9 DEF IInv

\* Storing the length and loading the pointer.
LEMMA ParseLoadStep ==
  ASSUME IInv, TypeOK', ParseLoad
  PROVE  IInv'
<1> USE ThreadsAssumption, NoneAssumption DEF IInv, TypeOK, ParseLoad, devVars, callVars
<1>a. \A u : Id(u)' = Id(u) /\ Request(u)' = Request(u)  BY DEF Id, Request
<1>b. \A s : Clean(s)' => Clean(s)  BY DEF Clean
<1>c. \A u : Request(u).stub = StubOf[u] /\ Request(u).id = Id(u)  BY DEF Request
<1>1. LockInv'  BY DEF LockInv, InSection
<1>2. CallInv'  BY DEF CallInv
<1>3. OwnerInv'  BY DEF OwnerInv, Id
<1>4. SectionInv'  BY DEF SectionInv, InSection, Id
<1>5. OutstandingInv'  BY <1>a, <1>b DEF OutstandingInv, Awaited
<1>6. DeliveryInv'
  BY <1>a, <1>b, <1>c DEF DeliveryInv, Handles, OwnLen, Sole, OutstandingInv, Awaited, LockInv, InSection
<1>7. DisconnectInv'  BY DEF DisconnectInv, ReaderIdle
<1>8. AnswerIsOwn'  BY DEF AnswerIsOwn, Sole, Clean, Id
<1>9. LentBuffer'  BY DEF LentBuffer, InSection, Id
<1> QED BY <1>1, <1>2, <1>3, <1>4, <1>5, <1>6, <1>7, <1>8, <1>9 DEF IInv

\* Copying the answer.
LEMMA ParseCopyStep ==
  ASSUME IInv, TypeOK', ParseCopy
  PROVE  IInv'
<1> USE ThreadsAssumption, NoneAssumption DEF IInv, TypeOK, ParseCopy, devVars, stubVars, callVars
<1>a. \A u : Id(u)' = Id(u) /\ Request(u)' = Request(u)  BY DEF Id, Request
<1>b. \A s : Clean(s)' => Clean(s)  BY DEF Clean
<1>c. \A u : Request(u).stub = StubOf[u] /\ Request(u).id = Id(u)  BY DEF Request
<1>d. ASSUME NEW u \in Threads, Clean(StubOf[u]), rx.ptr = Id(u)
      PROVE  Handles(u) /\ pc[u] = "wait" /\ ~acked[StubOf[u]] /\ rx.msg.id = Id(u)
  <2>1. rx.ptr # None /\ rx.ptr[1] = u
    BY <1>d DEF Id
  <2>2. rx.msg.stub = StubOf[u]  BY <2>1 DEF OwnerInv
  <2>3. Awaited(rx.msg)  BY <1>d, <2>2 DEF OutstandingInv
  <2>4. lock \in Threads /\ Handles(lock) /\ StubOf[lock] = StubOf[u]
    BY <1>c, <2>2, <2>3 DEF Awaited, Handles
  <2>5. rx.ptr = ibuf[StubOf[lock]]  BY <1>d, <2>4 DEF DeliveryInv
  <2>6. rx.ptr = Id(lock)
    BY <2>1, <2>3, <2>4, <2>5 DEF SectionInv, InSection, Awaited
  <2>7. lock = u  BY <1>d, <2>6 DEF Id
  <2> QED BY <1>c, <2>3, <2>4, <2>7 DEF Awaited
<1>1. LockInv'  BY DEF LockInv, InSection
<1>2. CallInv'  BY DEF CallInv
<1>3. OwnerInv'  BY DEF OwnerInv, Id
<1>4. SectionInv'  BY DEF SectionInv, InSection, Id
<1>5. OutstandingInv'  BY <1>a, <1>b DEF OutstandingInv, Awaited
<1>6. DeliveryInv'
  <2> SUFFICES ASSUME NEW u \in Threads, Clean(StubOf[u])
               PROVE  DeliveryInv!(u)'
    BY <1>b DEF DeliveryInv
  <2>1. rx.ptr # Id(u) => buf'[u] = buf[u]  OBVIOUS
  <2>2. rx.ptr = Id(u) => buf'[u] = Id(u)  BY <1>d
  <2>3. Handles(u)' => Handles(u) /\ lock = u  BY DEF Handles
  <2>4. (Handles(u) /\ kind[u] = "read") => rx.ptr = Id(u)
    BY DEF Handles, DeliveryInv, SectionInv, LockInv
  <2> QED BY <1>a, <2>1, <2>2, <2>3, <2>4 DEF DeliveryInv, OwnLen, Sole
<1>7. DisconnectInv'  BY DEF DisconnectInv, ReaderIdle
<1>8. AnswerIsOwn'
  BY <1>a, <1>b, <1>d DEF AnswerIsOwn, Sole
<1>9. LentBuffer'  BY DEF LentBuffer, InSection, Id
<1> QED BY <1>1, <1>2, <1>3, <1>4, <1>5, <1>6, <1>7, <1>8, <1>9 DEF IInv

\* Setting acked.
LEMMA ParseAckStep ==
  ASSUME IInv, TypeOK', ParseAck
  PROVE  IInv'
<1> USE ThreadsAssumption, NoneAssumption DEF IInv, TypeOK, ParseAck, Resubmit, callVars
<1>a. \A u : Id(u)' = Id(u) /\ Request(u)' = Request(u)  BY DEF Id, Request
<1>b. \A s : Clean(s)' => Clean(s)  BY DEF Clean
<1>c. \A u : Request(u).stub = StubOf[u] /\ Request(u).id = Id(u)  BY DEF Request
<1>1. LockInv'  BY DEF LockInv, InSection
<1>2. CallInv'  BY DEF CallInv
<1>3. OwnerInv'
  BY <1>a DEF OwnerInv, NoRx
<1>4. SectionInv'  BY DEF SectionInv, InSection, Id
<1>5. OutstandingInv'
  BY <1>a, <1>b, <1>c DEF OutstandingInv, Awaited, LockInv, InSection, NoRx
<1>6. DeliveryInv'
  BY <1>a, <1>b, <1>c DEF DeliveryInv, Handles, OwnLen, Sole, NoRx, OutstandingInv, Awaited, LockInv, InSection
<1>7. DisconnectInv'
  BY DEF DisconnectInv, ReaderIdle, NoRx
<1>8. AnswerIsOwn'  BY DEF AnswerIsOwn, Sole, Clean, Id
<1>9. LentBuffer'  BY DEF LentBuffer, InSection, Id
<1> QED BY <1>1, <1>2, <1>3, <1>4, <1>5, <1>6, <1>7, <1>8, <1>9 DEF IInv

\* Suspend, resume and disconnect.
LEMMA DeviceStep ==
  ASSUME IInv, TypeOK', Device
  PROVE  IInv'
<1> USE ThreadsAssumption, NoneAssumption DEF IInv, TypeOK, Device, ljca_suspend, ljca_resume, ljca_stop, DisconnectStopped, DisconnectFree, Quiet, Resubmit, ReaderIdle, stubVars, callVars
<1>a. \A u : Id(u)' = Id(u) /\ Request(u)' = Request(u)  BY DEF Id, Request
<1>b. \A s : Clean(s)' => Clean(s)  BY DEF Clean
<1>1. LockInv'  BY DEF LockInv, InSection
<1>2. CallInv'  BY DEF CallInv
<1>3. OwnerInv'  BY DEF OwnerInv, Id
<1>4. SectionInv'  BY DEF SectionInv, InSection, Id
<1>5. OutstandingInv'  BY <1>a, <1>b DEF OutstandingInv, Awaited
<1>6. DeliveryInv'  BY <1>a, <1>b DEF DeliveryInv, OwnLen, Sole, Handles
<1>7. DisconnectInv'  BY DEF DisconnectInv, ReaderIdle
<1>8. AnswerIsOwn'  BY DEF AnswerIsOwn, Sole, Clean, Id
<1>9. LentBuffer'  BY DEF LentBuffer, InSection, Id
<1> QED BY <1>1, <1>2, <1>3, <1>4, <1>5, <1>6, <1>7, <1>8, <1>9 DEF IInv

\* The initial state satisfies the inductive invariant.
LEMMA IInvInit == Init => IInv
<1> SUFFICES ASSUME Init PROVE IInv  OBVIOUS
<1> USE ThreadsAssumption, MaxCallsAssumption, NoneAssumption DEF Init
<1>1. TypeOK  BY DEF TypeOK, Kinds, Rets
<1>2. LockInv /\ CallInv /\ SectionInv  BY DEF LockInv, CallInv, SectionInv, InSection
<1>3. OwnerInv /\ LentBuffer  BY DEF OwnerInv, LentBuffer, NoRx
<1>4. OutstandingInv /\ DeliveryInv
  BY DEF OutstandingInv, DeliveryInv, Handles, NoRx
<1>5. DisconnectInv /\ AnswerIsOwn  BY DEF DisconnectInv, AnswerIsOwn, ReaderIdle, NoRx
<1> QED BY <1>1, <1>2, <1>3, <1>4, <1>5 DEF IInv

\* Every step preserves it.
LEMMA IInvNext == IInv /\ [Next]_vars => IInv'
<1> SUFFICES ASSUME IInv, [Next]_vars PROVE IInv'  OBVIOUS
<1>1. ASSUME NEW t \in Threads, Writer(t)  PROVE IInv'
  <2>1. TypeOK'  BY <1>1, WriterType DEF IInv
  <2> QED BY <1>1, <2>1, EnterRefusedStep, EnterStep, LockStep, SendOkStep,
          SendFailStep, SendShortStep, WaitAckedStep, WaitTimeoutStep, FinishStep DEF Writer, Section
<1>2. CASE \E m \in fw : FwDrop(m)
  BY <1>2, OtherType, FwDropStep DEF IInv
<1>3. CASE Reader
  <2>1. TypeOK'  BY <1>3, OtherType DEF IInv
  <2> QED BY <1>3, <2>1, ReadJunkStep, ReadMismatchStep, ReadMatchStep,
          ParseLoadStep, ParseCopyStep, ParseAckStep DEF Reader
<1>4. CASE Device
  BY <1>4, OtherType, DeviceStep DEF IInv
<1>5. CASE UNCHANGED vars
  <2>1. TypeOK' /\ LockInv'  BY <1>5 DEF vars, IInv, TypeOK, LockInv, InSection
  <2>2. CallInv' /\ OwnerInv'
    BY <1>5 DEF vars, IInv, CallInv, OwnerInv, InSection, Id, Clean
  <2>3. SectionInv'  BY <1>5 DEF vars, IInv, SectionInv, InSection, Id, Clean
  <2>4. OutstandingInv'
    BY <1>5 DEF vars, IInv, OutstandingInv, InSection, Id, Clean, Awaited, Request, Handles
  <2>5. DeliveryInv'
    BY <1>5 DEF vars, IInv, DeliveryInv, InSection, Id, Clean, Awaited, Request, Handles, OwnLen, Sole
  <2>6. DisconnectInv' /\ AnswerIsOwn' /\ LentBuffer'
    BY <1>5 DEF vars, IInv, DisconnectInv, AnswerIsOwn, LentBuffer, InSection, Id, Clean, ReaderIdle
  <2> QED BY <2>1, <2>2, <2>3, <2>4, <2>5, <2>6 DEF IInv
<1> QED BY <1>1, <1>2, <1>3, <1>4, <1>5 DEF Next

\* Hence it is an invariant of the bridge.
LEMMA Invariance == Spec => []IInv
BY IInvInit, IInvNext, PTL DEF Spec

\* ljca.c, all of it: every variable keeps its type.
THEOREM TypeCorrect == Spec => []TypeOK
<1>1. IInv => TypeOK  BY DEF IInv
<1> QED BY <1>1, Invariance, PTL

\* ljca_stub_write and ljca_parse: on a stub where no call has left by the error
\* path - timed out, not sent, or cut short and reported as a success - a call
\* that succeeds returns the data of its own answer, and its length or 0.
THEOREM AnswersAreOwn == Spec => []AnswerIsOwn
<1>1. IInv => AnswerIsOwn  BY DEF IInv
<1> QED BY <1>1, Invariance, PTL

\* The error path of ljca_stub_write is the only way a returned call's buffer
\* stays within the handler's reach.
THEOREM BuffersAreLent == Spec => []LentBuffer
<1>1. IInv => LentBuffer  BY DEF IInv
<1> QED BY <1>1, Invariance, PTL

\* ljca_disconnect frees nothing that the reader or a client still uses; only
\* the GPIO work item, which it does not wait for, can be in a call then.
THEOREM FreedIsQuiescent == Spec => []FreedQuiescent
<1>1. IInv => FreedQuiescent
  BY NoneAssumption DEF IInv, TypeOK, DisconnectInv, LockInv, InSection, FreedQuiescent
<1> QED BY <1>1, Invariance, PTL

\* The mutex keeps other writers from withdrawing an acknowledgement.
THEOREM AcksAreKept == Spec => AckNotLost
<1> DEFINE Kept == \A t \in Threads :
      (pc[t] = "wait" /\ acked[StubOf[t]] /\ pc'[t] = "wait") => acked'[StubOf[t]]
<1>1. IInv /\ [Next]_vars => [Kept]_vars
  <2> SUFFICES ASSUME IInv, Next, NEW t \in Threads, pc[t] = "wait", acked[StubOf[t]]
               PROVE  acked'[StubOf[t]]
    OBVIOUS
  <2>1. lock = t  BY DEF IInv, LockInv, InSection
  <2>2. ASSUME NEW u \in Threads, Writer(u)  PROVE acked'[StubOf[t]]
    BY <2>1, <2>2, NoneAssumption DEF Writer, Section, EnterRefused, Enter, Lock, SendOk,
       SendFail, SendShort, WaitAcked, WaitTimeout, Finish, Fail, stubVars
  <2>3. ASSUME Reader PROVE acked'[StubOf[t]]
    BY <2>3, ThreadsAssumption DEF Reader, ReadJunk, ReadMismatch, ReadMatch, ParseLoad,
       ParseCopy, ParseAck, stubVars, IInv, TypeOK
  <2>4. ASSUME (\E m \in fw : FwDrop(m)) \/ Device  PROVE acked'[StubOf[t]]
    BY <2>4 DEF FwDrop, Device, ljca_suspend, ljca_resume, ljca_stop,
       DisconnectStopped, DisconnectFree, Quiet, stubVars
  <2> QED BY <2>2, <2>3, <2>4 DEF Next
<1> QED BY <1>1, Invariance, PTL DEF Spec, AckNotLost
=============================================================================
